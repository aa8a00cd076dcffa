# ShareL-W: TLA+ models of its servers and thread pools

The repository is a collection of network programs: a thread pool in C, an HTTP
server in C++ with a worker pool, CGI and multipart upload, a libevent-like
reactor over epoll, a set of echo servers (select, poll, epoll, a process or a
thread per client), and the notes, pages and vendored libraries around them.
This directory holds TLA+ models of the programs that have state worth
arguing about, the TLC configurations that check them, and proofs that tlapm
checks.

    tlc -workers 2 -config ThreadPoolElastic.cfg MCThreadPool.tla
    tlapm ThreadPoolProofs.tla

## 1. The system

### 1.1 Elastic thread pool: `thread_pool/threadpool.c`

*State.* `struct threadpool_t`: the ring `task_queue` with `queue_front`,
`queue_rear`, `queue_size`; the slots `threads`; the counters `live_thr_num`,
`busy_thr_num`, `wait_exit_thr_num`; the flag `shutdown`; a mutex for all of it,
another (`thread_counter`) for `busy_thr_num`, and two condition variables.

*Operations.* `threadpool_create`, `threadpool_add` (any caller),
`threadpool_thread` (each worker), `adjust_thread` (the manager),
`threadpool_destroy` and `threadpool_free`, two getters.

*Interaction.* Callers and workers meet in the ring; workers and manager in the
counters and in `wait_exit_thr_num`, a request to retire that any woken worker
may take; destroy meets the workers through `shutdown`, a broadcast and a join.

*What is hard.* One condition variable carries three messages (there is a task,
retire, shut down); the manager acts on samples it took earlier; `shutdown` is
written without the lock; destroy takes the first `live_thr_num` slots for the
live ones; add goes on after it has given up the lock on shutdown; an argument
is freed when its cell is reused.

*Correct means.* A bounded FIFO queue whose tasks are started once and in order;
counters that equal what they count; size within its two bounds although the
manager is stale; no sleeper beside work or beside room; destroy returns, and
only when nothing will touch the pool again.

### 1.2 HTTP server: `code/*.hpp`, `code/main.cpp`, `code/upload.cpp`

*Worker pool and accept loop* (`threadpool.hpp`, `httpserver.hpp`, `main.cpp`).
State: a queue of accepted sockets, a quit flag, a thread counter that nobody
increments. One thread accepts and pushes, five pop, handle, close. Hard: lost
wake-ups, sockets leaked or closed twice, a start that half fails and goes on.
Correct: each accepted connection is handled once and closed once, in order of
arrival at most five at a time.

*Request reception and parsing* (`utils.hpp`, `RecvHttpHeader`,
`HttpHeaderParse`). State: the socket's input, what was peeked, the status code.
Hard: a header that arrives in pieces, that is exactly as long as the buffer, or
never ends; `errno` left over from an earlier call. Correct: the header is
consumed whole and the body not at all, or the client gets an error.

*Preconditions and ranges* (`utils.hpp`, `FileIf*`, `FileRange`, `ProcessFile`).
State: what `stat` said of the file, the list of ranges; on the other side a client
with a copy, its label, and other processes that write the file. Hard: the file
changes between `stat` and `read`; a copy is put together from several answers.
Correct: 304 only for a copy that is current, a resumed copy is of one version, a
`Range` header is answered by the units it asks for.

*Responses* (`FileHandler`, `ProcessFile`, `CGIHandler`). State: descriptors,
two pipes, a child. Hard: parent and child each waiting for the other; pipe ends
inherited by the wrong child; descriptors left open on an early return.

*Upload program* (`upload.cpp`). State: a sliding buffer over the body, and what
a boundary match found. Hard: a boundary cut by two reads; a body that ends
early; a file that cannot be opened or written. Correct: what is stored does not
depend on how the body was cut, and success is said of what is stored.

### 1.3 Event loops: `moreIO_concurrent/`

*Reactor* (`epoll_ET_LT/epoll_loop.c`). State: a table of events with fd,
callback, status and last activity, and the kernel's epoll set. Hard: the
timeout scan closes slots whose events are pending; the table is full. Correct:
status says what the epoll set holds, and an idle connection is closed.

*Echo servers* (`epoll_concurrent`, `select_concurrent`, `poll_conncurrent`).
State: a client table and the ready set of one turn. Hard: an index shared by
two nested loops; a slot, or the number of a descriptor, reused in the turn that
closed it; memory nobody has written. Correct: what a client says comes back to it, a connection is closed when
its client has left, and no `Read` is made that would block.

*Edge and level triggering demonstrations* (`1-epoll`, `2-block_epoll`,
`3-noblock_epoll`): which bytes stay unread when an edge is reported once.

*wrap.c*: `Readn`, `Writen`, `Readline` over short reads and `EINTR`.

### 1.4 A process or a thread per client: `高并发服务器相关/`

State: children to reap, a table of connections. Hard: a child that ends before
the handler is installed; an index that only grows.

### 1.5 The rest

`change_fast_sort/fast_sort.cpp` (a quicksort whose outer loop changes neither
bound); UDP, multicast and local socket examples; toy servers without state;
fragments that do not compile; shell exercises; libevent, libev, webbench and
Editor.md, vendored and not called by the repository's programs; static pages.

## 2. The modules

The order is by how much of the repository's own logic a part carries and how
hard it is to test.

| module | models | checked by | proved in |
|---|---|---|---|
| `TaskPool` | what both pools promise: a bounded FIFO queue with limited concurrency | (abstract) | |
| `ThreadPool` | `thread_pool/threadpool.c` | `MCThreadPool`, three configurations | `ThreadPoolProofs` |
| `HttpPool` | `code/threadpool.hpp` | `HttpPool.cfg` | `HttpPoolProofs` |
| `HttpServer` | `code/httpserver.hpp`, `main.cpp`; composes `HttpPool` with the accept loop and the sockets | `HttpServer.cfg` | `HttpServerProofs` |
| `HttpHandler` | requests, responses and CGI programs of `code/utils.hpp`, several threads at once | `MCHttpHandler`, two configurations | `HttpHandlerProofs` |
| `FileAnswer` | conditions and ranges of `code/utils.hpp`, a file that is written to, a client with a copy | `MCFileAnswer`, two configurations | `FileAnswerProofs` |
| `UpLoad` | `code/upload.cpp` | `MCUpLoad` | `UpLoadProofs` |
| `EpollLoop` | `moreIO_concurrent/epoll_ET_LT/epoll_loop.c` | `EpollLoop.cfg` | `EpollLoopProofs` |
| `EchoService` | what an echo server promises to its clients | (abstract) | |
| `EchoNet` | the calls of `wrap.c`, the descriptor table, the clients | with the servers | with the servers |
| `SelectServer`, `PollServer`, `EpollServer` | `moreIO_concurrent/*/server.c` | `EchoServers.cfg` | `EchoServersProofs` |
| `ProcessServer`, `ThreadServer` | `高并发服务器相关/mult_process_concurrent`, its `test`, `mult_thread_concurrent` | `EchoServers.cfg` | `EchoServersProofs` |
| `EchoServers` | composes each of the five with the same clients | `EchoServers.cfg` | `EchoServersProofs` |

`TaskPool` is implemented by `ThreadPool` (`KeepsPromise`), by `HttpPool`
(`KeepsPromise`), and by the whole of `HttpServer` from connect to close
(`ServesInOrder`). `EchoService` is implemented by all five echo servers
(`KeepsService`).

What could follow: the failing paths of `threadpool_create` (l.66-124), and clients
that do not read. No module uses RECURSIVE.

## 3. The models

Each definition that stands for code is listed with its lines under "map" in
`PROJECT.json`. Definitions marked `variant` in a comment are plausible
mistakes, one for each property: with the variant in place of the definition
after it, TLC finds the property violated.

### 3.1 `ThreadPool`

A worker is named by its slot in `pool->threads`. That is exact: a slot is
written only when it is 0 or when its thread is reported dead. A step is one
critical section, or one unlocked access to shared state. The only critical
section that is cut is the worker's: after the test of `queue_size` and
`shutdown` (l.171) and before `pthread_cond_wait` (l.173) it holds the lock at pc
`"wait"`, because `threadpool_destroy` writes `shutdown` (l.287) and broadcasts
without the lock and can fall between the two.

| code | model |
|---|---|
| `threadpool_add` | `CallAdd`, `AddBlock`, `AddTask`; `AddFallsThrough` and `AddUnlocked` after a shutdown, when the code unlocks (l.137) and writes the ring all the same |
| `threadpool_thread` | `ExitWorker`, `DecideToWait`, `StartWait`, `QuitWorker`, `TakeTask`, `RunTask`, `FinishTask`, `EndThread` |
| `adjust_thread` | `AdjustLoop`, `AdjustSample`, `AdjustSampleBusy`, `Grow`, `Shrink`, `SignalIdle`; `seen` is what it sampled |
| `threadpool_destroy`, `threadpool_free` | `DestroyBegin`, `JoinAdjust`, `BroadcastTurn`, `JoinTurn`, `FreePool` |

Undefined or environment behaviour is a choice, and a CONSTANT says whether a
run allows it: `DirtyHeap` (the cells of `task_queue` hold garbage, and a `free`
of it aborts), `CreateMayFail` (a failed `pthread_create` leaves slot 0 and is
counted all the same), `KillSeesExit` (`pthread_kill` tells a thread that has
exited), `Overlap` (destroy may be called while calls of add are under way),
`GarbageInts` (what `wait_exit_thr_num`, which create does not write, holds). What
threads do with a pool that has been freed is undefined: the model stops them,
and `NoUseAfterFree` says that there is none left to stop.

A task also stands for its argument. `freed` remembers the arguments that add
has freed when it reused a cell.

### 3.2 `HttpPool` and `HttpServer`

`_tp_lock` covers all of the queue, so critical sections are atomic:
`TP_PushTask`, `TP_PopTask`, the wait, and the decision to leave. `TP_Quit` is
modelled as written: `_thread_cur` is never incremented (it is declared and
decremented only), so that its loop ends at once. It is also called by nobody,
because it stands behind the endless loop of `ServerStart`; `HttpPool` calls it at
any time, `HttpServer` never.

`HttpServer` names a task by its connection and keeps the descriptor (`sock`) in
a table of the kernel that gives out the lowest free one, so that a descriptor
that is closed is soon another connection's. `ServerInit` can fail at any call,
and `main` goes on. An `accept` that fails changes nothing and is repeated.

### 3.3 `HttpHandler`

The data of a connection is counted in units, and a step is one system call that
another thread, a program or a client can notice. Calls in a row that nobody can
tell apart (two `close`, two `pipe`) are one step. A request is a record of the
decisions the code takes on it: does the header parse, what the path leads to,
the method, and `check` and `ranges` for what `FileIf*` and `FileRange` decide.

`ends` holds which process has which end of which pipe open. `fork` (l.733) copies
all that the server holds at that moment, the pipes of other threads' requests
included; `exec` closes none of these. A reader sees the end of a pipe when no
process holds the writing end. `retry` is the calling thread's `errno` being
EINTR or EAGAIN, which the code tests also when `recv` has returned 0. `files`
grows by one for each range, because `ProcessFile` does not close `file_fd`.

A client sends its request piece by piece and reads what it is sent. Only
`Leavers` may close or reset early; with `MayFail`, programs may end early, `fork`
may fail and a file may become shorter than `stat` said.

### 3.4 `FileAnswer`

`HttpHandler` takes the outcome of the conditions as given; `FileAnswer` computes it,
for one connection after the other. The file is a sequence of versions, each with a
date (`mtimes`) and a length (`lens`); a unit is told apart by the version it was read
from. `FileHandler` is everything up to the first send, because `stat` (l.197) is all
it looks at; then `SendRangeHeader`, one `SendContent` per `read`, `EndRange` and
`EndFile`. Between any two, `WriteFile` may make another version, with any date
that is not in the future. `RangeList` keeps of two ranges with one first unit the
last one, as the map in the code does; `Split` drops a last piece of one character.

The client asks for its copy, revalidates a whole one, resumes one that broke off,
and drops it when it is told 412 or 416. It sends the date it was given where the
code compares dates (If-Match included). With `aim = "ranges"` it sends one of
`RangeTexts` instead: there, every pair of pieces is tried against the definition
`Wants`, which is taken from the comment at l.429.

### 3.5 `UpLoad`

A unit is what the program compares as a whole: a line end, two dashes, the
boundary string, a header line, or content. Reads return between one unit and
all that was asked for. The buffer is an array whose cells keep what an earlier
use left there: `memcmp` (l.91) and `strstr` (l.116) do not stop at `_buf_clen`.
Where `strstr` finds the end of a header behind the content, the `memmove` that
follows gets a negative length, and the model ends in `"crash"`. `open` does not
truncate (l.159): `Stored` adds the rest of the older file.

A header line names a file (F), a file with an empty name, as a form sends in which
none was chosen (E), no file (H), or has no Content-Disposition (X). `Disposition` is
what follows from it: the file is stored, or cannot be opened (`refused`; always for E,
because the path is then that of the directory), or there is none to store, or
`GetBoundry` returns false (l.133). Each of the failing paths ends in "UPLOAD FAILED".
`write` may fail or take less than it is given, up to `MaxLost` units in all: what it has
not taken is `Lost`, and the program goes on as if it had been written (l.178-182).

`Units` is the set of all units, the program's own (N, D, B and the headers) and content. What the
properties need of the bodies is said of the constants: `BodiesFit`, that the client's
boundary does not occur in a content and no content begins with dashes, and
`OldFileCovered`, that a file replaces none that is longer. `MCUpLoad` assumes both of
the bodies of the run, so that TLC evaluates them.

### 3.6 `EpollLoop`

The kernel's part is explicit: the epoll set with entries that point to slots, the
descriptor table, the backlog, and per connection what can be read, whether the
client has closed or reset, whether there is room to send. A step is one turn of
the timeout scan, one return of `epoll_wait`, or one call-back, in any order among
those that are ready; clients act between any two. Time passes while the loop is
in `epoll_wait`, and a slot's `age` is `now - last_active`. Sending may be partial
(the rest is lost, as in the code), and sending to a client that has closed and
then reset is SIGPIPE, which ends the process. `acceptconn` with a full table, or after an
`fcntl` that fails (l.122, for the connections in `FcntlFails`), keeps the new descriptor
open and watches it nowhere (`dropped`).

### 3.7 The echo servers

`EchoNet` holds what the five share: connections with their `phase`, the backlog, the
table `sock` from descriptors to connections (accept gives out the lowest free one),
which clients have said something that was not read (`unread`), and how each has `left`.
The functions of `wrap.c` are the outcomes their callers see: `ReadAndWrite`, `WriteFails`, `Sigpipe`,
`ReadEnd`, `ReadError`, `Close`; `perr_exit`, `exit` and SIGPIPE are `Die`. What a client has
said is read and written back in one step, because the server looks at nothing else in
between; a client may then speak again, as often as it likes. What is sent
to a client that has closed makes it reset the connection; a reset is an error of `Read` once, and an end afterwards.

| module | own state | a step is |
|---|---|---|
| `SelectServer` | `client`, `maxi`, `maxfd`, `allset`, `rset`, `nready` | a return of `select`, the accept of a round, the handling of one slot |
| `PollServer` | `client`, `maxi`, `revents`, `nready` | the same with `poll`; slot 0 is the listening socket |
| `EpollServer` | `efd`, the events `ep` and their index `i` | a return of `epoll_wait`, the handling of one event; `GoOn` is where the index goes, which the loop over the bytes of a message uses too |
| `ProcessServer` | `connfd`, the state of each child, `holds` (which process has a connection open), `handler`, `signalled` | a call of the parent, of a child, a run of the SIGCHLD handler; `version` says which of the two programs it is |
| `ThreadServer` | `ts`, `i`, the set `serves` | a call of main or of a thread |

`EchoServers` has the variables of all five, and `kind` says which one runs: the clients
and the promise are stated once. A server that does not run keeps its variables as
they are.

Memory nobody wrote is a choice at the start: any of the slots of poll's `client` in
`DirtyStack` may hold POLLIN in its `revents` (server.c l.43 sets `fd` only).

`MessageBytes` are the lengths a `Read` of `EpollServer` may return. The loop over the bytes
(l.91) leaves its length `n` in the counter of the loop over the events, which goes on with
event `n + 1`. A long message leaves the other events out; with level triggering they
are reported again, but the next wait may end in the same way. A short one takes the loop
back to events that were handled (`handled` is a history of them): if their descriptor
has something again it is served once more, if it is silent the server blocks in `Read`
(no action is enabled: `Deaf`), and if it was closed, `Read` fails, `Close` fails, and
`perr_exit` ends the server (`Astray`; `EchoService` has that as a cause of its own). A
client that always has something to say, and stands first in the list, makes the loop pass over all the others and the listening socket at every wait: they starve.
The epoll server promises service to all only when nobody does that, and
`EveryClientServed` says so.

## 4. The runs

The bounds name the smallest instances in which each component meets all of its
branches; the passing runs take every action of every module.

| run | bounds | shows |
|---|---|---|
| `pool_elastic` | 1 to 3 workers, ring of 1, 1 task, 1 caller, steps of 2, any initial `wait_exit_thr_num`, dirty heap, overlap of add and destroy | counters exact, bounds kept, a slot to grow into, and a pool left alone goes back to its minimum |
| `pool_fixed` | 2 workers, ring of 2, 3 tasks, 2 callers | the pool implements `TaskPool`; no task lies beside an idle worker, nobody is blocked beside room, tasks finish and destroy comes to its end (`PoolSettles`), and frees a quiet pool only |
| `pool_stranded_task` | 1 to 2 workers, ring of 2, 3 tasks | violation, see 8 |
| `http_pool` | 3 threads, 4 tasks | no lost wake-up, FIFO, accepted tasks are run also after `TP_Quit`, if a thread was created |
| `http_server` | 2 threads, 4 connections, 3 descriptors (`MaxFd` = 2, from 0) | no leaked or doubly owned socket, service in order, everyone served |
| `http_handler` | 2 threads, 2 connections, 6 kinds of requests, 5 descriptors, pipes of one unit | answers whole and single, bodies reach their programs, connections are closed |
| `http_answer_hangs` | 2 uploads at once, one client leaves | violation, see 8 |
| `file_answer` | files of up to 3 units, 3 versions, 3 seconds, 2 lost connections, every `Range` header of up to two pieces | 304 is right, resumed copies are of one version, ranges are answered as asked, a client gets the file in the end |
| `file_resume` | files of up to 2 units, a client that uses If-Range | violation, see 8 |
| `upload` | a buffer of 10 units, 21 bodies, every way to cut them, an open that fails, one unit that write loses | files are given their own content in order, all of it on success; it fails for a cause only; the program ends |
| `epoll_loop` | 3 connections, 2 slots, 3 descriptors, a scan of one slot per turn, 2 units sent, an `fcntl` that may fail for the second | status agrees with the epoll set, no event hits the wrong connection, no data goes to another client, silent connections are closed |
| `echo_servers` | each of the five servers, 3 connections, 3 descriptors, 2 slots for select and poll, whose `revents` may be garbage, a table of 3 for the threads, messages of 1 and 3 bytes, clients that never stop talking, resets | all keep `EchoService`; select, poll and epoll read only what is ready; tables agree with the kernel; children are reaped; everyone is served unless the server breaks down for a cause. Of the epoll server that is said of a client whose fellows have stopped talking, and unless the server waits for one of them for ever |

Why these are enough. In the thread pool the interesting cases need a worker that
waits while another retires (two workers), a ring that wraps (two cells and three
tasks), and two callers that compete for the last cell; retiring two at a time needs
three workers (`pool_elastic`). In the
HTTP pool three threads and four tasks let a signal meet one thread in the wait,
one on its way to the lock and one that runs. In the server there are more
connections than descriptors, so that descriptors run out and their numbers are
reused. In the handler, two requests are what it takes for a program to inherit
another's pipe, a pipe of one unit and a body of two make the writer block, and
five descriptors are fewer than two CGI requests need (four each). A header unit
more than `MaxHead` is the header that is too long. For a copy that mixes versions two
are enough; the third lets the file change back to an earlier length. Two lost
connections let a copy be resumed and break off again. Range headers of two pieces
overlap, touch, repeat and contradict each other; a third adds no case to code that
takes them one by one. In the upload program the
buffer holds a boundary and a header and a little content, so that every unit of a
boundary comes to lie at the buffer's end and at a read's end. In the reactor more
connections than slots make the table full and descriptors be reused, and a scan
that takes two turns around the table leaves slots untested for a while. Among the
echo servers three connections fill two slots and make the third be refused, take
over the slot and the descriptor of one that was closed in the same round, and stand
behind one that is silent. Messages of one byte take the epoll server from
its first event past the second, and back to the third when it has handled that; messages
of three take it past the end. To come back to an event whose descriptor was closed takes a
fourth event, and so a fourth client (`Astray`): that is beyond the run, and covered by
the theorems `ServiceKept` and `ReadyRead`, for any number of clients. (With `Conns` and
`Fds` 1 to 4, only epoll, `MessageBytes` {1} and no resets TLC comes to it, and finds no
error in `ReadsReady` and `KeepsService` in 424,266 states.) One lost unit leaves a gap in a
file; more of them leave more gaps. A connection dropped in the middle leaves its slot to
the next one.

Left out on purpose in a passing run, because the property does not hold there:
`pool_fixed` does not let destroy overlap add; `NoStrandedTask`
and `NoUseAfterFree` are checked for pools of constant size; `ClosedInTheEnd`
ends its obligation when a client leaves early; the clients of `file_answer` do not
resume with If-Range, nobody sets a file's date back or writes it twice in a second
(`Dated`), and the copy a client resumes was not raced by a write while it was sent
(`raced`); `EveryClientServed` does not speak of a client of the epoll server while others go
on talking, nor while the server is blocked in `Read` for ever; the bodies of `upload` contain
neither a file that begins with two dashes nor one in which the boundary occurs
without a line end before it. Section 8 says what happens in these cases.

`CHECK_DEADLOCK FALSE` is set in all configurations: the environment may stop
calling, and then all threads rightly wait.

The type invariants of `HttpPool`, `HttpServer`, `HttpHandler`, `FileAnswer`, `EchoServers` and
`EpollLoop` are proved and not checked again by TLC; `TypeOK` of `UpLoad` is both checked
and proved, and that of `ThreadPool` is proved.

## 5. Fairness

- `ThreadPool`: strong fairness of each worker, each caller, the manager and
  destroy. They compete for one mutex, and a pthread mutex does not promise an
  order, but a thread that asks again and again gets it in the end. The steps
  include the end of a callback: tasks are assumed to finish. Calls of add
  and destroy and spurious wake-ups are not fair.
- `HttpPool`, `HttpServer`: weak fairness of each thread and of the main thread.
  Critical sections are single steps, so that a step stays enabled until it is
  taken or another thread has taken what it was for. A push, `TP_Quit`, a client
  and a failing call are not fair.
- `HttpHandler`: weak fairness of each thread, each program, and of clients that
  send what they have announced. Leaving, failing and shrinking are not fair.
- `UpLoad`: weak fairness of the program, but not of whether `open` and `write` succeed; the server keeps the other end open and
  forwards the whole body.
- `FileAnswer`: weak fairness of the server's thread, and of the client, who goes on
  asking until its copy is whole and then revalidates again and again. Writes, time and
  lost connections are not fair, and there are finitely many of them.
- `EchoServers`: weak fairness of each process and of each thread, as the kernel runs
  them all. A server that is blocked in `Read` takes no step, and fairness does not ask for
  one. Clients owe nothing: in what order `epoll_wait` names events is not fair either.
- `EpollLoop`: weak fairness of the loop, strong fairness of time, which passes
  only at `epoll_wait` and so is enabled again and again. Clients owe nothing.

## 6. What is proved

`ThreadPoolProofs` (any numbers of workers, cells, tasks, callers):

- `TypeCorrect`, `BoundsKept`, `BusyCountCorrect`: for any use, overlapping destroy
  and failing `pthread_create` included. Bounds hold because both places that change
  `live_thr_num` test it in the same critical section (`LiveChanges`): the stale
  sample only decides whether to try. The type needs `SignalsLeft` (the manager has
  signals to send exactly while it is at `"signal"`).
- `LiveCountCorrect` assumes `CreateMayFail = FALSE`. `live_thr_num` equals the size of
  `LiveSlots` only as long as nobody quits, and workers quit only after the
  shutdown, which never ends (`NobodyQuits`, `ShutdownStays`).
- `RoomCorrect` assumes also `KillSeesExit = TRUE`, and follows from the count.
- `CapacityKept`, `BlockedCorrect` assume `Overlap = FALSE`. The invariant is that no
  caller is past the lock without it (`ProperUse`), which is what overlap breaks.
- `NoTaskStranded`, `FreedWhenQuiet` assume `Overlap = FALSE` and `MinThr = MaxThr`. The
  invariant of the first adds that a worker at `"wait"` holds the lock and that
  the queue was empty when it decided (`WaitHoldsLock`); equal bounds enter in one
  place only, where a woken worker would retire. The second rests on join order:
  every slot below `di` has ended, and an ended slot stays so (`EndedStays`)
  because the manager cannot refill it.

Without `MinThr = MaxThr` both are false of the code: see the run `pool_stranded_task`
and section 8.

- `PromiseKept` assumes `Overlap = FALSE`: `ThreadPool` implements `TaskPool`, also when it
  is elastic. The invariant `FlowInv` adds to `ProperUse` and the bounds of the ring that
  the cells in use are the `queue_size` cells from `queue_front` on, closed by
  `queue_rear` (`RingClosed`), and that a task is in at most one place, once: wanted by a
  caller, queued, running or done (`OncePending`, `OnceRunning`, `OnceWanted`, `OnePlace`).
  The rest is arithmetic of the ring: adding writes the cell behind the last one and
  taking frees the first, so that the abstract queue, read from the ring, is appended to or
  loses its head (`RingPlaces`). Retiring, growing and signalling are stutters. What runs
  at once is bounded by the slots, a counting argument.

`HttpPoolProofs` (any numbers of threads and tasks):

- `TypeCorrect`; `WakeupsKept` (inductive with the type: a thread decides to wait
  while it holds the lock and sees an empty queue, and each push wakes one more);
  `QuitLeavesNothing` (a thread leaves only when the queue is empty and quit is set,
  and a push after quit is refused).
- `PromiseKept`: `HttpPool` implements `TaskPool`. The invariant `FlowInv` says that a
  task is in at most one place, once: queued, running or done (`OncePending`,
  `OnceRunning`, `OnePlace`). From it follow the bounds the abstract pool has on its
  queue (`RoomForTask`, a counting argument) and on what runs (`ThreadForTask`).

`HttpServerProofs` (any finite set of threads, any connections and descriptors):

- `TypeCorrect`; `PushSafe` (the pool exists before there is a socket that listens,
  and a failed `ServerInit` leaves none).
- `SocketsSafe`: numbers of descriptors are given out again at once, so that what keeps
  them apart is the connection. `SockInv`: a connection is in one pair of hands (queue,
  a thread, main), an open descriptor is the one its connection was given, and what
  waits to be accepted has none yet.
- `ServiceKept`: `HttpServer` implements `TaskPool`. The abstract queue is the concrete
  one, then what main holds, then the backlog (`Line`); a connect appends to it, and
  a pop takes its head.

`HttpHandlerProofs` (any finite number of threads, any requests and sizes):

- `TypeCorrect`, and `OneAnswerSafe`, `AnswerSafe`, `BodySafe` from one invariant.
  `Phase(c, p, n, err)` says what is true of a connection while its thread is at `p`:
  nothing sent, no program yet, so many parts begun, the body so far in the program, the
  pipe or the thread's hands. What other threads and programs do leaves the phase as it
  is. `AnswerSafe` rests on `Writers`: a program holds the writing end of its answer
  until it ends, and only then can the thread see the end of it. `BodySafe` assumes
  that headers do not end in bare newlines (`lf`), see 8.

`FileAnswerProofs` (files of any length, any number of versions, any `Range` headers):

- `TypeCorrect`: the list of ranges never leaves the file that `stat` saw.
- `LabelSafe`: no unit of a copy is older than the label it is kept under, because
  `stat` precedes every `read`. `NotModifiedSafe` follows: a date that is not newer
  than the label's means that the version is the label's, and the copy, which is no
  older than its label and no newer than the file, is that version throughout.
- `ResumedSafe`: while nobody writes during an answer, a copy is of its label's version
  (`OneVersion`), and content is sent only when that is the current one
  (`SendsLabelled`), which If-Match and If-Unmodified-Since see to. It assumes
  that If-Range is not among `Resumes`.
- `RangesSafe`: the code's `FileRange` and `RangeList` against the definition `Wants`, for
  every header and length. `WantsOf` and `FitsInBounds` say that the code's bounds of a
  piece are those of its meaning, form by form; `NothingElse` and `NothingMissing` lift that
  to `_range_list`, where a range is lost only to another that begins with it. The
  invariant `RangesInv` follows an answer: what has been taken out of the list has been
  sent, but for the rest of the range that is being sent (`Within`). It speaks of the
  length of the version that `stat` saw, which no later write changes, so that no condition
  on writers is needed.

`UpLoadProofs` (any buffer of at least 7 units, any set of bodies that fit, any units):

- `TypeCorrect`, `FilesInOrder`, `FailsForCause` assume `BodiesFit`; `SuccessIsWhole`
  assumes also `OldFileCovered`. Without them the code does what section 8 says. None
  assumes that `open` or `write` succeeds, nor that headers are what they should be.
- The body is a fold over its parts. `LayoutExists` turns it into places: where each
  part's content starts and stops, and what lies at each place around it. From there on
  nothing speaks of the fold.
- The invariant `UpInv`: the buffer is a window on the body, whose rest is unread (`Stream`;
  `FilledHolds`, `ShiftedHolds`); the window begins inside the part that is being
  worked on, never past its boundary, and keeps two units behind the content it has used
  (`Place`); earlier files have been given all their content, later ones nothing (`Files`; units
  that `write` has lost count, `BeginsAs`); it fails only for a cause (`Outcome`). `Place` is
  what makes it inductive: in the middle of a boundary the program would not recognise
  the rest of it.
- `Scan` is the search: in such a window `MatchBoundry` finds the part's own boundary if it
  is all there, and otherwise `Pos` stays before the place where it begins. It is here that
  the contents must fit: `_f_boundry` is compared at the beginning of the buffer only, where
  stale cells may complete it. `HeaderScan` does the same for the header.

`EpollLoopProofs` (any finite table, any connections and descriptors):

- `TypeCorrect`; `StatusSafe`, `SlotsSafe`, `EventsSafe`, `EchoSafe`, `CauseSafe`. The
  invariant has three parts. The table (`SlotsOpen`, `ConnsApart`, `AllHeld`): a watched slot
  has an open descriptor of its own. The events of a turn: each still names
  the slot it was returned for, because a call-back changes only its own slot, and an
  accept takes a slot nobody watches. The bytes: what a slot is about to send and
  what was sent are together no more than what came in.

`EchoServersProofs` (any connections, descriptors, slots and elements of `ts`; the five
servers at once):

- `TypeCorrect`; `ServiceKept`: each server implements `EchoService`. The proof goes call by
  call. `NetInv` says that a connection is in one place: in the queue once, or with
  one descriptor. For each call of `wrap.c` a lemma shows what it does to
  `NetInv` and which step of the abstract server it is (`AcceptCall`, `EchoCall`, `CloseCall`,
  `DieCall`), and for each server an invariant of its own says that its table names a
  connection for which the call is in order (`SelectTable`, `PollTable`, `EpollTable`,
  `ThreadTable`, `ProcessTable`). A server that is one process holds all that is open
  (`Held`), so that it breaks down without room only when as many are open. Of the
  processes, `ProcessTable` says that the parent holds at most the connection it has just
  accepted, and that a connection whose child has ended is owed nothing.
- `TablesSafe`: what a server has written down is what the kernel has open.
- `ReadyRead` has no assumptions on memory or messages. What `select` or `poll` has
  named has something to read until it is read (`SelectReady`, `PollReady`): no client
  can take it back (`StaysReadable`), and the one accept of a turn comes before its
  closes, so that no number is given out again between the call and the read.
  That poll never comes to a slot whose `revents` is garbage is a counting
  argument: `nready` is the number of slots poll has named and the scan has not come
  to (`PollCount`), the slot that the round's accept has filled comes behind all of them, and
  the scan ends with `nready` (l.99). For epoll the events of a wait are all different
  (`EventsOf`), and one that was not handled keeps what it was returned for, wherever the
  counter goes (`EpollReady`); of an event that it comes back to the theorem says nothing.

Assumptions are the named ASSUMEs of the modules, which TLC evaluates, and the
hypotheses above, which are conditions on constants.

## 7. What is only model-checked

All liveness (tlapm has no rules for ENABLED): `TasksFinish`, `PoolSettles`,
`IdlePoolShrinks`, `PushedIsRun`, `EveryConnectionServed`, `ClosedInTheEnd`,
`StaysFresh`, `SilentIsClosed`, `EveryClientServed`, `ChildrenReaped`, `ComesToAnEnd`.
Every other property of a passing run is also a theorem, under the hypotheses named in 6.

## 8. Where the code does not do what it says

Three runs end in a counterexample:

- `pool_stranded_task`: a worker woken for a task finds the manager's request to
  retire first (l.176) and exits. The signal is spent, the other worker keeps
  waiting, and the task with it.
- `http_answer_hangs`: a CGI program inherits the writing end of another request's
  pipe. If its own client leaves, the parent returns (l.759) without closing the
  program's input, the program waits for ever, and the other request never sees the
  end of its answer.
- `file_resume`: the comment of `FileIfRange` (l.420) says that a range counts only if
  the file still matches; `FileHandler` (l.766-780) never calls it, so that a client
  joins the rest of a new version to the beginning of the old one.

Seen while modelling, and in the models, without a run of their own:

- After the worker of a low slot has retired, destroy joins slots 0 to
  `live_thr_num - 1` (l.296) and frees the pool under a live worker of a higher slot:
  `NoUseAfterFree` is violated with 1 to 2 workers and 2 tasks.
- `shutdown` is set and broadcast without the lock (l.287, l.292); a worker between its
  test and its wait misses both, and the join does not return. `PoolSettles` names
  this exception (`MissedBroadcast`) and is violated without it.
- `threadpool_add` unlocks on shutdown and goes on (l.137): the ring may become
  overfull. A caller blocked on a full ring is not woken by destroy (l.135).
- The argument of an earlier task is freed when its cell is reused (l.142), also
  while that task still runs; and in the first round whatever `malloc` left there.
- A `pthread_create` that fails is counted as a live worker (l.114, l.254).
- A header of exactly `MAX_HTTPHEAD` units sets 413, for which there is no page
  (l.300), and a CGI request that fails has no code: no answer at all.
- A client that closes in the middle of its header is peeked at for ever (l.285); a
  file that became shorter is read for ever (l.542); `file_fd` is not closed (l.531);
  a header that ends in bare newlines loses two bytes of its body (l.295).
- If-Match is said to compare tags (l.396) and compares dates (l.398): a client that
  sends the tag it was given is refused. If-Unmodified-Since refuses the very date the
  server sent (l.388, `<=`). The 412 of If-None-Match cannot be reached: other methods
  than GET and HEAD do not come here. HEAD gets a body.
- `Range: bytes=5`, `bytes=,` and `bytes=-` end in an empty list of ranges, and no
  answer is sent; of two ranges that begin with the same byte the first is lost.
- The epoll server counts the bytes of a message with the counter of its events
  (server.c l.91). A client that always has something to say, and comes first, starves the
  others and the listening socket; short messages lead the loop back to events it has
  handled, where `Read` may block until that client speaks again, or fail on a descriptor
  that was closed, which ends the server for all. `EveryClientServed` without its two
  conditions, `ReadsReady` without `handled`, and `EchoService` without `astray`, are violated.
- The poll server never initialises `revents` (server.c l.43). That does no harm (6), but only
  because the scan counts down `nready`.
- The thread server's index leaves its table with the 257th
  connection (server.c l.78). The process server in `test/` has no handler before its
  first child runs (l.54).
- `fast_sort` partitions again and again (`while` at l.32 where an `if` was meant) and
  never gets behind its first recursive call; and `position` may return the place of
  an element that is greater than those behind it (2, 5, 1, 3).
- An upload whose header is cut by two reads fails (upload.cpp l.115); a file that
  begins with dashes can be taken for a boundary (l.91), as can a boundary string
  inside a file when the window comes to begin there; a shorter upload does not
  truncate an older file (l.159).
- An upload prints success also when a `write` has failed, which is only logged, or has
  taken a part of what it was given, which is not noticed (l.178): the buffer is moved on
  all the same, and the file has a gap or ends early. `SuccessMeansWhole` promises a whole
  file only where nothing was lost.
- A form in which no file was chosen sends an empty file name, for which `StoreFile` opens
  the directory `./www/` and fails (l.160): the whole upload fails, and files that came
  before it are stored all the same. A header without Content-Disposition has the same
  effect (l.133).
- The reactor accepts a connection for which it has no slot, or for which `fcntl` fails, and
  neither watches nor closes it (epoll_loop.c l.116, l.122): the comment of l.240 has it that
  a client which is silent for 60 seconds is closed.

## 9. What is not modelled

Characters, wording and layout of headers and pages; time zones and dates
(`utils.hpp` 62-153); logging. `ErrHandler`'s pages are their status codes.
`SO_REUSEADDR`, `select` timeouts and other socket options without a state of their
own. A NUL byte in an upload, which ends `strstr` early, and a body cut off by
its client, for which the server keeps the program's input open. A client that does
not read: then a blocking `send` waits as long as it likes. A peeked header is not
terminated (l.283 to 292), and what lies behind it in the buffer is not modelled.
Of `threadpool_create`, the paths on which an allocation fails. `fork`,
`pthread_create`, `select`, `poll` and `epoll_ctl` do not fail in the echo servers, and
a write of theirs takes the whole message; `Readn` and `Readline` of `wrap.c` are
called by no server; `wrap_socket/server.c` serves one client after the other.

The components listed in `PROJECT.json` as `not_modelled` have their reason there. The
demonstrations of edge and level triggering read a fixed five bytes per event in
order to show what stays unread: they promise nothing. The toy servers and the
datagram examples keep no state.

By far most lines of the repository are not its own programs: the 93,308 lines of
JavaScript are Editor.md with CodeMirror and Amaze UI with its polyfills,
unmodified copies that pages load and no program of the repository calls. Nothing
of them is modelled, and no share of them could honestly be. Of the roughly 2,600
lines of C and C++ in the files that are modelled, 1,785 are mapped.
