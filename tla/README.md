# Verification of `solutions`

The repository is a collection of C++ building blocks. `lsylar/` is the live
part: a framework after the model of "sylar" with logging, configuration,
threads, fibers and a fiber scheduler, sockets, timers, an epoll reactor and two
servers built on it. `BaseModule/`, `PlatformModul/` and `DataStruct/` hold older
or smaller pieces, `AutoMake/` generates project skeletons, `CloudWork/` and the
rest are stubs. This directory models what of it keeps state that can go wrong,
checks the models with TLC and proves what matters most about nearly all of them
with TLAPS.

## Inventory

| Component | State | Operations | Interacts with | What is hard |
|---|---|---|---|---|
| Echo reactor `lsylar/src/servers.cc` | `reactor_t`: two epoll instances, a vector of blocks of `fd_item_t`, `nfd`; per descriptor `sbuffer`, `slen`, `fd`, two callbacks | `listen_loop`, `accept_callback`, `add_fd`; `work_loop`, `recv_callback`, `send_callback`, `del_fd`, `get_fd_item`; adding a listener or a UDP server | two threads share `reactor_t` with no lock; kernel epoll, edge-triggered; `Socket` for recv/send/close | descriptor numbers reused while one thread is still using them; lost edges; lost updates of `nfd`; a table that grows under a reader; resets |
| RPC front end `lsylar/src/sv_rpcapi.cc` | the reactor's, and one context per pending request | `run`, `rpcapi_recv_callback`, `send_callback`, `reqpool_parser_cb`, `udp_recv_cb`, `udp_send_cb` | three threads share `sbuffer`/`slen`; calls the pool, is called back by it | replies that outlive their connection; two replies for one buffer; a connection nobody re-arms; loops that run before what they use is made |
| Request pool `lsylar/src/reqpool.cc` | an epoll instance, one `eparg_t` and one socket per request | `asynreq_context_init`, `asynreq_commit_udp`, `asynreq_commit`, `asynreq_callback`, `asynreq_context_destory` | its own thread; an upstream server | lost datagrams without timeout; a reply that overtakes the registration; shared result buffers; the end of the pool under its own thread |
| Socket layer `lsylar/src/Socket.cc` | an API object with a descriptor, two addresses, an error handler | the constructors, `init_tcp`, `init_udp`, `set_sockfd`, `accept`, `reconnect`, `close`, the destructors | used by all of the above | who closes a descriptor; the error handler of `recv` |
| Fibers and scheduler `lsylar/src/Fiber.cc`, `scheduler.cc` | fiber states, per-thread current and main fiber; task list, counters, `m_stopping` | `swapin`, `swapout`, yields, `reset`; `schedule`, `run`, `start`, `stop` | threads of the pool run `scheduler::run`; a mutex guards the list | states overwritten on the way out; the idle fiber; stopping |
| Threads `Thread.cc`, `Mutex.h` | a semaphore posted twice, the callback | constructor, `run`, `join`, destructor | the scheduler's pool | the handshake, a thread that could not be created |
| Timers `timer.c`, `ngx_rbtree.c` | a red-black tree of due times | add, delete, minimum, handle | sequential | the cases of the two fixups; comparison of 64-bit keys in 32 bits |
| Configuration `Config.h` | a map of named values, a callback each | `LookUp`, `set_val`, `from_string` | any thread | unlocked map; empty callback |
| Logging `Log.h`, `Log.cc` | formatters with items, loggers with appandars | `resetFormat`, `setFormatter`, `addAppandar`, the log macros | formatters are shared by loggers | items that pile up; separators, braces and blanks in formats |
| Files `File.cc`, `File.h` | the file system, a path | `Path`, `Data::reset`, `mkdirs` | other processes | `..` and doubled separators; a directory that appears meanwhile |
| Leak tracer `mleak.h` | a file for each block | the malloc and free hooks, the report | any thread, and the allocator | an address that is given again before its file is gone |
| Path search `tct.cc` | a path, marks, the call stack | `pp` | sequential | marks taken back on every way out |
| Project generator `AutoMake/` | the file system | `mkslt`, `mkpjt`, `mkdirs` | other processes | the race for a directory; failures nobody looks at |
| Array `DataStruct/src/structrue` | a heap block, size, capacity | add, delete, find, alter, clean, reset, grow | sequential | positions at the ends; a growth that fails |
| YAML reader `DataStruct/src/fyaml` | lines, nodes by level | `load_from_file`, `auto_make_data`, `to_string` | sequential | blocks closed by a later line; what stands behind the text |
| First sockets `PlatformModul/src/TNet` | a descriptor, two cached addresses | bind, listen, accept, connect, reconnect, close | sequential | caches that outlive what they describe |
| First fibers `BaseModule/src/Fiber` | shared pointers, contexts, thread-locals | construct, `reset`, `swapin`, yields, `GetThis` | one thread | who keeps a stack alive; contexts saved into the wrong fiber |

What makes them correct:

* Reactor: a client hears its own bytes back in order and nothing else; nothing
  that arrived is dropped by a close; no event is lost; a descriptor is torn
  down for the connection it belongs to and never leaks; the process is not
  brought down by a well-behaved client.
* RPC: each call is answered once, on the connection it came from; replies of
  open connections are never exchanged; a connection stays responsive; nobody
  uses the pool before it is made.
* Pool: each callback is called once, and sees its own reply.
* Sockets: a descriptor is held once, closed once, and not lost.
* Scheduler and threads: a task runs once, on a thread it is bound to; a fiber
  that yields to be continued is continued; `stop` and `~Thread` return.
* Timers: the tree stays a balanced search tree, the minimum is the next one
  due. Array: it behaves as a list. Files: the directory that was meant is there
  afterwards. Tracer: it lists the leaks and nothing else. Readers and printers:
  what is printed is what was told or read.

`PROJECT.json` lists every component with its status, and under `hazards` each
place that is hard to test with the properties that watch it.

## Modules

| Module | Models | Composed from |
|---|---|---|
| `EpollSocket` | external: Linux sockets, descriptor table and edge-triggered epoll, and the TCP clients | |
| `Reactor` | `servers.cc` as `test/test_servers.cc` runs it | extends `EpollSocket` |
| `RpcApi` | `sv_rpcapi.cc` on `reqpool.cc` | extends `EpollSocket`, refines `RpcService` |
| `RpcService` | what the RPC server promises to clients that call one at a time | |
| `UdpFront` | `ServerRpcApi::run` with its loops already running, and the UDP callbacks | |
| `ReqPool` | `reqpool.cc` by itself: TCP requests, shared buffers, the end of the pool | |
| `Sockets` | `Socket.cc`: objects and the descriptors they hold | |
| `Threads` | `Thread.cc`: an object and the thread it starts | |
| `Scheduler` | `scheduler.cc` and `Fiber.cc` | extends `Threads` |
| `RbTree` | `ngx_rbtree.c` and `.h`, pointer by pointer | |
| `Timers` | `timer.c` | extends `RbTree`, refines `TimerSet` |
| `TimerSet` | what a timer manager promises: a set of pending timers | |
| `Config`, `Logging`, `Files`, `Mleak`, `PathPrinter` | `Config.h`, `Log.h` with `Log.cc`, `File.h` with `File.cc`, `mleak.h`, `tct.cc` | |
| `ProjectMaker` | `AutoMaker.cc` | extends `Files` |
| `Array`, `ArrayList` | `structrue.h`; the list it promises to be | `Array` refines `ArrayList` |
| `Yaml`, `NetSockets`, `BaseFiber` | `fyaml`, `TNet`, `BaseModule`'s fibers | |
| `MCReactor`, `MCRpcApi`, `MCThreads`, `MCScheduler`, `MCTimers`, `MCLibrary` | instances for TLC | `MCLibrary` extends thirteen modules |
| `*_proofs` | theorems, see below | each extends the module it is named after; `Library_proofs` extends ten, and `Timers_proofs` also `RbTree_proofs` |

### `EpollSocket`

A client connects, sends bytes, shuts down its sending side, closes, reads. What
it sends is counted (`sent`, `taken`), what it is sent is kept (`echo`, `nread`).
`fdConn` is the descriptor table; `accept` may return any free number, which
covers Linux's lowest-free rule. `interest` and `ready` are one epoll instance:
an event of a connection puts its descriptor on the ready list if it is
registered for it (`Wake`); `epoll_ctl` checks the condition once more
(`Register`); `epoll_wait` empties the list, so a condition that goes on holding
is not reported again. A client that closes with unread bytes may cause a reset
(`PeerReset`), which `recv` or `send` reports once; the next `send` raises
`SIGPIPE`.

### `Reactor`

One action is one system call or one access to shared memory, for each of the
two threads; `lpc` and `wpc` say what a thread does next.

| Actions | Code |
|---|---|
| `Accept`, `AcceptFails`, `AcceptCtl` | `accept_callback`: `accept`, `epoll_ctl ADD` |
| `AddFdGrow`, `AddFdMark`, `AddFdLoad`, `AddFdStore` | `add_fd`: push blocks, mark the entry, `nfd++` as load and store |
| `ListenExit`, `WorkExit` | `epoll_wait` failed and the loop returned |
| `WorkWait`, `WorkPick`, `WorkPickFault` | `work_loop` and `get_fd_item` |
| `WorkRecv`, `WorkArm` | `recv_callback` with data: copy to `sbuffer`, `epoll_ctl MOD` to output |
| `WorkRecvEof`, `WorkDel`, `DelFdClear`, `DelFdLoad`, `DelFdStore`, `WorkClose` | `recv_callback` at the end: `DEL`, `del_fd`, and the close by `~Socket` |
| `WorkSend`, `WorkSendReset`, `WorkSent`, `WorkRearm` | `send_callback` |
| `WorkRecvFault`, `WorkSendFault` | the process ends: a null pointer call in `Socket::recv`'s error handler, or `SIGPIPE` |

Where the program is undefined or killed, `fault` is set and the model stops:
whatever is claimed holds up to that point. The entry of the listening socket and
the log are left out. The bytes of a client are numbered, so that a byte at a
wrong place or with a wrong client is visible.

### `RpcApi`

The same work thread with `rpcapi_recv_callback`, and the pool's thread. A
`Request` is an `eparg_t` with its context: the descriptor by number (`fd`),
whether its socket has joined the pool's epoll set (`reg`), what has become of
its reply (`st`); `who` and `lone` are there for the properties only. Lengths are
counted in cells of 51 bytes, which is the suffix: `sbuffer` is `BufCells` of them,
a reply up to `MaxReply`. Every access to `slen` and `sbuffer` is an action:

| Actions | Code |
|---|---|
| `WorkSendNothing`, `WorkSendBegin` | `send_callback` tests `slen` (servers.cc:329) |
| `WorkLoad` | `Socket::send` is given `slen` by reference (331) and reads it |
| `WorkSend`, `WorkSendReset`, `WorkSendFault`, `WorkSendPast` | `::send` (Socket.cc:207): all is sent, or -1, or `SIGPIPE`, or it reads beyond `sbuffer` |
| `WorkResult` | its result is stored in `slen` |
| `WorkCheck` | `slen <= 0` (339): on to `WorkDel` and `WorkClose` as at the end of a connection |
| `WorkSent`, `WorkRearm` | `slen = 0`, `epoll_ctl MOD` to input |
| `PoolPick`, `PoolClear` | the two `memset`s of `slen` bytes (reqpool.cc:212, Socket.cc:240) |
| `PoolRecv`, `PoolStore` | `recvfrom` into `slen` bytes, and its result stored in `slen` |
| `PoolSuffix`, `PoolAdd`, `PoolGrow` | the suffix behind `slen` bytes (sv_rpcapi.cc:79), `slen` read anew and grown (82) |
| `PoolMod` | `epoll_ctl MOD` to output |
| `PoolPast` | an access of the pool's thread goes beyond `sbuffer`: the model stops |

`slen` is a `size_t`: -1 in it is `Huge`, and a suffix added to that wraps around.
`nfd` and the table's growth are left to `Reactor`. That a signal which interrupts
`epoll_wait` ends the pool's thread (reqpool.cc:204) is in `ReqPool`.

### `Threads`

`owner` follows the constructor, `join` and the destructor, `body` follows
`Thread::run`; they meet on `sem`. An owner may join or not, and destroy when it
likes. `ConstructFails` is a failing `pthread_create`: nobody posts, and the
constructor never returns.

### `Scheduler`

`main` is the caller in `start` and `stop`, `pc` each thread in `run`. A pool
thread gets there through the actions of `Threads`: `StartThread` and
`StartRecord` contain its constructor, `PoolStep` is `Thread::run`.

| Actions | Code |
|---|---|
| `StartBegin`, `StartThread`, `StartRecord`, `StartEnd` | `start`, all under `m_mutex` |
| `StopBegin`, `StopEarly`, `StopMark`, `StopCall` | `stop`; then it is in `call` or in `join` and stays there |
| `Schedule`, `ScheduleRange` | the two `schedule` functions, from any thread |
| `Take`, `Idle` | the scan of the queue; nothing found, the idle fiber |
| `Accept`, `Refuse`, `RunCallback` | the three ways on from the scan |
| `SwapIn`, `SwapInBusy`, `Enter` | `Fiber::swapin`: read the state, set it, switch |
| `Yield`, `SwapOut`, `Leave` | `YeldToHold`, `YeldToReady`, `swapout`: set the state, set it to `TERM`, save the context |
| `Finish` | the user's function returns or throws |
| `Back`, `SettleReady`, `Settle`, `SettleHold` | what `run` does after a switch back |

Three things in this code decide the shape of the model:

* The context of a fiber has no successor (`uc_link` is null, Fiber.cc:48), so
  when its function returns glibc ends the process. `Finish` sets `exited`, and
  the model stops.
* The idle fiber runs `run` itself (scheduler.cc:129). A thread that finds no
  entry goes on in a new loop on the idle fiber's stack, and since `swapin` saves
  the context it leaves in `t_thread_fiber`, where the next `swapin` overwrites it,
  no old loop is ever resumed. A thread is in one loop at a time, the loops
  left behind are counted by `m_idle_thread_count`, and no loop ends.
* `swapout` leaves every fiber in `TERM`. A fiber that yields is not run again,
  except when another thread has looked at its state between the two assignments.

When two threads are in one fiber's stack (`Shared`) the program is undefined and
the model stops; `sched_shared` shows how it comes to that. `Thread.cc`,
`scheduler.cc` and `macro.h` name two helpers of `util_.h` in the namespace
`tt::system`, where they are not declared; the model reads the names as meant.
A fiber is scheduled from outside once, and may schedule itself while it runs
(`Resumed`): scheduling one fiber twice from outside leads to `Shared` too.

### `UdpFront`

`step` is how far `run` has come: threads, pool, listeners, UDP server. The
loops serve from `StartThreads` on. A UDP server is three steps -- the socket,
the callbacks in its entry, `epoll_ctl` -- and any of the loops may come in
between. What `RpcApi` shows of buffers is left out: a request is a descriptor
number waiting for its reply, or for the `epoll_ctl` that announces it. A
datagram without data ends the UDP server as the end of a connection would, and
the callbacks stay in the entry (`emptied`).

### `ReqPool`

`CommitSend` and `CommitArm` are `asynreq_commit` up to the request and from the
`epoll_ctl` on; `PoolRecvs` and `PoolStores` are the two halves of a receive
whose room is read by reference and whose result is written by reference, where
another request's may come in between; `DestoryClose` and `DestoryCancel` are the
two steps of `asynreq_context_destory`, with the pool's thread running.

### `Sockets`, `NetSockets`

In `Sockets` an object is its API kind, its descriptor number and whether it has a
remote address; `loose` are the numbers the reactor keeps in its table between
`set_sockfd(0)` and the next `Socket(fd)`, `lost` those nobody knows any more.
Every operation is one action, since objects share nothing but the descriptor
table. Only `~UdpSocketApi` closes, which is why replacing a TCP API object
loses its descriptor. `NetSockets` is one object of the older class over its life,
with its two caches. Three variables are history: `met`, the peers that `connect()`
reached or `accept()` brought (what `reconnect()` reaches is not added, so that it can
be wrong); `reused`, the object has lost a bound or connected socket since the last
`reconnect()`; `restored`, the last call that mattered was one.

### `RbTree`, `Timers`, `TimerSet`

A tree is a record of functions from nodes, and each C procedure an operator
from tree to tree that follows its assignments. What the code writes once for the left
and once for the right has the side as a parameter. A loop is one round as an operator
(`InsertRound`, `DeleteRound`, `Down`, `DownLeft`, `Up`), which leaves alone what the
loop is done with, and a function of the number of rounds. Each model loop stops after
as many rounds as there are nodes (`Rounds`); that the program's is over by then is part
of what is proved, and TLC would see it as a tree that is not balanced.

A key is compared by `Narrow(a - b) < 0`, where `Narrow` is the conversion to
`ngx_rbtree_key_int_t` and `Half` is half its range. `inRange` is history: no two pending
keys were ever half the range or more apart. As long as that is so `get_min` and
`ngx_rbtree_next` go by due time; beyond it they may be wrong, but the tree stays
balanced and `Timers` still refines `TimerSet`: nothing is lost, kept or moved.

### `Files`, `ProjectMaker`

One file system (`dirsMade`, `plain`) and several processes in it. A call is two
actions per directory, the look and the `mkdir`. `Intrude` puts a plain file in
the way. `ProjectMaker` runs AutoMake's commands in the same file system with
AutoMake's older `mkdirs`, which stops at the first `mkdir` that fails. It works out
`..` by itself (`DirsOf`), while `mkpjt` and `fopen` leave that to the kernel
(`NamesOf`), which wants to walk through what is before the `..`: a path with a
`..` anywhere behind a name is a `Detour`, and `CommandsComplete` makes an exception
of it. There are two more. A command has lost a race (`Raced`) when the directory it is
about to make is there and was neither there when it looked nor made by itself; `known`
is history and holds the latter. And `mkdirs` stops by itself (`Halted`) at a `.` or a
doubled separator behind a directory it made, as in `/b/./a/` or `b//b/`: its `mkdir`
of a name that is there already fails, and nothing below is made. `m_file_manager` is
never set (AutoMaker.cc:91): the calls through it, which use no member, are read as meant.

### `BaseFiber`

Stacks and the objects whose contexts resume them are kept apart, because they
part when a fiber swaps in another: `nested` is history and says that it happened.
`held` and `locals` are the pointers a program and the stacks hold. `process` is
`wild` when a context leads to a stack that is gone. `swapin` of the main fiber's own
object, `swapout` of an object that is not the current one, and a new callback for a
suspended fiber are left out.

### The smaller parts

* `Array`: `m_head` is a function on the room that `malloc` gave, null when there
  is none; a write outside it sets `fault`. `lastCall` is what `ArrayList` looks at.
  That positions lie inside the list and lengths are not negative is left to the
  callers, as in the code.
* `Config`: `looking` is where a thread is in `LookUp`; the search and the insertion
  take time, and when an insertion overlaps another access `broken` is set and the
  model stops.
* `Logging`: a format is a text of separators, braces, blanks and words; `told` is
  history. A logger is given a new formatter (`NewFormatter`) or somebody's
  (`SetFormatter`).
* `Mleak`: each hook is two actions, the allocator's and the file's. The log directory
  is empty at first, and files can be made in it.
* `PathPrinter`: `frames` is the call stack of `pp`, `hp` the marks.
* `Yaml`: a line is its level, name and kind; the buffer's zeros behind the text are
  one more line, or part of the last.

## Runs

| Run | Bounds | What it shows |
|---|---|---|
| `reactor` | 2 clients, 2 bytes each, descriptors 1 and 2 in two blocks, one-byte buffer, waits may fail | the eight safety invariants of `Reactor` |
| `reactor_live` | 2 clients, 1 byte each, one block, waits do not fail | every byte is echoed, every finished connection closed |
| `reactor_nfd` | as above, two blocks | `nfd` goes wrong (finding) |
| `rpc_patient` | 2 clients, 2 calls each, nothing lost | the refinement of `RpcService`, with liveness; answers are the caller's own |
| `rpc_rude` | 2 clients, 2 requests in all or 3 of one client, pipelined, clients leave, datagrams lost, buffers of 2 cells, replies of up to 3 | the exact conditions under which a reply goes astray, a connection goes deaf or is dropped, or an access leaves the buffer |
| `rpc_reply` | 2 clients, 1 request | the parser callback never sees the reply (finding) |
| `threads` | 2 objects | the handshake, with and without `join`, and that both sides return |
| `sched_pool` | 2 pool threads, or 1 and the caller, 1 fiber queued up to 3 times, 1 callback, 1 idle loop | entries and the active count |
| `sched_live` | 2 pool threads, or the caller alone, 1 fiber that may schedule itself, 1 callback | `start` returns, every task begins; `stop` runs what is queued before it returns |
| `sched_shared` | 2 pool threads, 1 fiber | two threads enter one fiber (finding) |
| `timers` | 7 timers, 3-bit keys, delays 0, 1 and 3, one tick of the clock | the tree stays balanced; `get_min` and the walk from it go by due time while keys are close; `TimerSet` is refined |
| `library` | see below | one or two properties for each of thirteen parts |

Why the bounds suffice: two clients and two descriptors give every pairing that
matters -- one being served while the other is accepted, a number closed and
reused, a batch of two events. Two bytes through a one-byte buffer give a second
round on one connection, and a connection reset between them. The blocks have two
entries, so descriptor 2 is in a block that does not exist at first. Two
requests are what it takes for two replies to meet in one buffer, for one
to outlive its connection, and for a new owner's request to meet what it left. The third
lets a next one meet what two have left; it is given to a client that is alone
(`RudeBound`), and the first descriptor in use is 1 (`FirstIsOne`), since nothing tells
numbers apart. A buffer of two cells holds one answer and one reply, and a reply of three
does not fit into it.

Three entries of one fiber are what it takes for a thread to find a fiber
`READY` behind its own switch (`SettleReady`): it is running elsewhere on the
second. A callback needs no second entry, since callbacks have no state.

Seven timers give trees of three full levels, in which both fixups move up. `Half` is 4:
three bits of the keys are compared, so that with the clock at 1 keys up to 4 are in the
tree and two may be too far apart.
`MCView` identifies states that differ only in what no operation can tell apart:
which node is where in a tree of one shape, the fields of freed nodes, and the
stale parent of the root.

`library` explores thirteen parts that share no state, each by itself: `focus`
picks one, and the others rest in their initial states. (`Files` and
`ProjectMaker` share the file system.) Two or three of everything make the parts'
cases happen: two sockets on three descriptors; two makers of directories, one
with every path of up to four separators and names; two commands on seven paths, with a
detour, a `.` and a doubled separator among them; three descriptors for
listener, UDP server and client; two requests with one buffer or two; three
threads on two addresses; a fiber inside a fiber; an array that grows twice from
one; two loggers that share a formatter told two formats; two threads and two
names; all texts of up to four lines. Their values are in `MCLibrary`, which also
says where it takes one of several names that are alike first (`RequestsInOrder`,
`CommandsInOrder`), and ends a behaviour of the loggers with its last line
(`MoreLines`), since a line keeps what it was printed by.

Deadlock is not checked where a system may be done: when all clients have left, or
the process has ended, or a part of the library has no calls left. TLC's symmetry is
used for safety only. The liveness run of the reactor calls the client that comes first
`c1` and its descriptor 1 (`NamesInOrder`), which keeps no step from being taken under
some name.

### Fairness

`FairSpec` of `Reactor` asks for weak fairness of each thread -- both are
endless loops that nothing but `epoll_wait` and `send` blocks --, of a
client reading what has arrived for it and of a reset in flight arriving.
Nothing is asked of a client's sending or leaving. `FairSpec` of `RpcApi` adds
the pool's thread and, with `Lossy` off, the upstream server's answer. The
liveness properties say "or the process has stopped", because one reset can stop
it.

`FairThreadSpec` asks that threads run on, callbacks return, and a wait whose
semaphore was posted ends. `FairSpec` of `Scheduler` asks for each thread in
`Thread::run` and `run`, for the caller inside `start` and `stop`, and that what a
user's function does ends in a yield or a return. Nothing is asked of calls to
`start`, `stop` and `schedule`. `m_mutex` needs no strong fairness: apart from
`start` nobody keeps it over a step.

### Findings

* `reactor_nfd`: the listen thread increments `nfd` (servers.cc:137) while the
  work thread decrements it (147). One update is lost when an accept and a
  close overlap; from then on `nfd` is not the number of descriptors that
  `servers.h:60` wants it to be.
* `rpc_reply`: `rpcapi_recv_callback` passes `slen` as the receive room
  (sv_rpcapi.cc:160). It is 0 whenever a client calls one at a time, so
  `recvfrom` drops the whole reply and the client is sent nothing but the
  suffix.
* `sched_shared`: `run` steps over a fiber that "is being executed"
  (scheduler.cc:149), by its state; `YeldToHold` and `YeldToReady` change the state
  before the context is saved (Fiber.cc:157, 163, 101). A fiber that schedules
  itself and then yields can be entered by a second thread in between.

Behaviour that the models record, or that was met while modelling, although no
document contradicts it:

* the failing `accept` that writes in front of the table, the table that moves
  under a reader, and the two ways a reset ends the process (`Reactor`, `fault`);
* a reply that reaches the next owner of a descriptor number; and, when two requests for
  one number overlap, a connection that goes deaf on output, a client that is dropped
  because `slen` was emptied while it was being sent, and accesses beyond `sbuffer`, whose
  512 bytes nothing compares the lengths with (`RpcApi`);
* a TCP client with the UDP callbacks, after an empty datagram (`UdpFront`);
* two requests on one buffer that see each other's cells, and a receive that fails
  and leaves the largest length there is (`ReqPool`);
* the scheduler's endless idle loops, its fibers that are never resumed because
  `swapout` overwrites READY and HOLD (Fiber.cc:101), and the process that ends with
  the first task that returns, as `uc_link` is null (Fiber.cc:48);
* the constructor of a `Thread` that waits for ever when `pthread_create` failed
  (Thread.cc:47);
* an array whose `find` with a length goes wrong at the end, and whose `alter` accepts
  the position behind the last item (`ArrayList` states both);
* `set_val` that throws before it sets, as its callback is empty, and `from_string`
  that reads another type's bytes as the value's (Config.h:58);
* the last block of a file that is printed only if the file ends its last line
  (`Yaml`); `reconnect` as the only call of `TNet` after which its cached addresses
  are true whatever came before (`NetSockets`); files opened with `a+` to which a second
  `mkpjt` adds its text once more (AutoMaker.cc:74);
* `mkdirs` of AutoMake, which makes nothing below a `.` or a doubled separator that is
  behind a directory it made, with or without another command (File.h:229-238), after
  which `mkpjt` dies on its files (`ProjectMaker`);
* outside the models: the result of `init_tcp` is ignored (servers.cc:214), a
  `reactor_t` from `malloc` has a vector nobody constructed (sv_rpcapi.cc:320), UDP
  answers go to an address nobody set (sv_rpcapi.cc:256), the pool's address text is
  not terminated (reqpool.cc:28), `m_items` is read without a lock (Log.cc:44), `..`
  may pop an empty vector (File.cc:31), and `TNet`'s `send` always answers -1.

## Proofs

Every theorem is for any value of the constants: any number of clients, threads,
descriptors, requests and names, any order of their steps. What a theorem assumes
besides the named assumptions of the modules it says itself.

### Reactor

| Theorem | Statement |
|---|---|
| `TypeCorrect` | `Spec => []TypeOK` |
| `TeardownSafe` | `Spec => []TeardownOwn` |
| `EventsSafe` | `Spec => []EventsAreLive` |
| `EchoCorrect` | `Spec => []EchoInOrder` |
| `DescriptorsKept` | `Spec => []NoDescriptorLeak` |
| `EdgesKept` | `Spec => []NoLostEdge` |
| `EchoComplete` | `Spec => []NothingDropped` |
| `DeathExplained` | `Spec => []DeathNeedsDesertion` |

They rest on the assumptions of the modules: `NoConn` is no client, descriptors
are positive numbers, bounds are natural numbers, the send buffer holds at
least one receive buffer. None of the eight is inductive; four invariants stand on
each other:

* `IInv` gives the first three. A descriptor is torn down for its own
  connection because it stays open while it is served (`ServedIsOpen`); that holds
  because it is the only event of its number left, because events are only reported
  for registered descriptors, and because the one being accepted is neither
  registered nor the one being served (`AcceptedIsOpen`). `TeardownOwn` also needs
  that only a client that is done has sent a FIN or a reset (`ClientsEnd`):
  otherwise more bytes could arrive after the end was seen.
* `EInv` gives `EchoCorrect`. It adds that a connection never has two
  numbers and is accepted once (`OneNumber`, `Untouched`), that `sbuffer` holds
  something only between the receive and the send (`HeldOnlyForOutput`), and that
  what it holds is what the client sent directly behind what has been echoed
  (`HeldIsNext`). `HeldIsNext` makes exception for a connection whose reset
  `send` has reported: those bytes are lost, and nothing is written after them.
* `EdgeInv` gives `DescriptorsKept` and `EdgesKept`. A connection that can be read or
  written is on the ready list, in the batch, or in the hands of the thread that will
  arm it again. That needs that a batch is empty when the thread waits again
  (`BatchEmptyAtRest`) and that who waits for output has something to send
  (`OutputHolds`): `send_callback` called with nothing to send would not arm the
  descriptor again, and the edge would be gone.
* `EndInv` gives the last two. A connection is closed only after its client's end or
  a reset (`FinishedIsDone`), and a reset comes only from a client that left some of
  its echo unread (`ResetIsDesertion`); so nothing is dropped but for such a client,
  and only such a client makes the process die in `recv` or `send`.

Each is proved by one lemma per actor with one step per action (`ClientIInv`,
`ListenIInv`, `WorkIInv`, and so on).

### RpcApi

| Theorem | Statement |
|---|---|
| `EventsSafe` | `Spec => []EventsAreLive` |
| `MisdeliveryExplained` | `Spec => []MisdeliveryNeedsReuse` |
| `NeglectExplained` | `Spec => []NeglectNeedsLossOrOverlap` |
| `CallersGetTheirOwn` | `Spec => []AnswersAreOwn`, for clients that neither pipeline nor leave |
| `StepsOfService` | `Spec => Service!Init /\ [][Service!Next]_Service!vars`, for the same clients |

The first three are for clients of every kind, the last two suppose `~Pipelining` and
`~Leaving`, as the run `rpc_patient` does: with either the code breaks the promise,
which the other runs of `MCRpcApi` show. They hold whether datagrams are lost or not.

`OpenInv` says what each of the three threads knows of the descriptor or request it
works on, in particular that the pool's thread finds the request answered until it has
stored the reply's length, and done from then on (`PoolKnows`). `OwnerInv` says whose
request a buffer and an echo stand for: two connections meet in one buffer only if a
number was given out again while a request made under it was pending, which is
`MisdeliveryNeedsReuse`.

`NeglectInv` gives `NeglectNeedsLossOrOverlap`. Its first part is about edges, as
`EdgeInv` of the reactor: what holds and is not on the ready list, in the batch or in
the work thread's hands waits for the reply to a request its connection sent itself, or
is deaf on output after an overlap (`Reported`). The rest follows the two threads through
`slen` for every number whose requests were each committed when nothing else was under
way there (`AloneInv`): at most one request is unfinished, `slen` is then 0 until the
pool grows it, and what the work thread has in hand is what `slen` holds. So `send` is
given what the pool stored, its result is not 0, and no length grows beyond an answer's.
Only where that fails, after an overlap, is a client dropped or the buffer left
(`PastNeedsOverlap`).

`CallInv` is for one call at a time: a client
has at most one request on its way (`OneCall`), and each of the stages it can be in
says where its answer is (`PendingWaits`, `ReplyWaits`, `WorkKnows`). From it each
step of the threads is one of `RpcService`, or leaves its variables alone; that every
call is answered in the end is left to TLC.

### Scheduler

| Theorem | Statement |
|---|---|
| `ActiveIsCounted` | `Spec => []ActiveMatches` |
| `EveryEntryAccounted` | `Spec => []EntriesAccounted` |

Both are sums over the threads. What a step adds to a counter has to be what it adds
to a set: the proofs follow the set of threads between taking an entry and coming
back (`Working`), and for each task the set of its places in the queue and the set of
threads that hold it. A removal from the middle of the queue shifts the places behind
it, which a bijection accounts for. `IInv` adds that whoever is not looking for work
has an entry in hand (`HandsHold`) and that the caller's thread looks for none
before `stop()` (`CallerWaits`). The pool of every setup is assumed finite.

### Threads

| Theorem | Statement |
|---|---|
| `ConstructorMeetsThread` | `ThreadSpec => []BuiltHasId` |
| `DestructorWaits` | `ThreadSpec => []GoneAfterCallback` |
| `DestroyedIsLeftAlone` | `ThreadSpec => NoWriteAfterDestroy` |

They are in `Library_proofs` and follow from `ThreadInv`: what `run` has posted is what is left in the
semaphore and what the owner has taken (`PostsAddUp`). Only this tells the two
posts apart: the constructor can have had none but the first, so the destructor
waits for the second. The one assumption is that the garbage in `m_id` is no
thread's id.

### Timers

| Theorem | Statement |
|---|---|
| `TimersInvariant` | `TimersSpec => []TimersInv` |
| `TimersBalanced` | `TimersSpec => []TreeBalanced` |
| `TimersImplementSet` | `TimersSpec => ImplementsTimerSet` |
| `TimersEarliestFirst` | `TimersSpec => []EarliestFirst` |

They are for any finite number of timers, any delays and any width of the keys. The
assumptions are that the sentinel and the null pointer are apart from each other and
from the nodes, that `Half` is a positive number, and that delays and the bound of the
clock are natural numbers.

`TimersInv` describes the tree by what the code does not store (`Balanced`): `sub`, for
every cell the set of nodes below it; `pos`, a number for every node that says where
it is from left to right; `h`, the black nodes on a path down. The keys come in at
one place only: while `inRange` holds, the order by `pos` is the order by key
(`KeysSorted`). This separation is what makes the second and third theorem hold
for keys of any distance: an insertion puts the new node *somewhere* between two
neighbours, whatever the narrowed comparison said, and the rotations and deletions keep
the order of positions without looking at a key. An invariant in terms of the keys would
be false as soon as two are too far apart.

`RbTree_proofs` goes through the tree's operators. A store is described by what it changes
(`Painted` and its like), a rotation by the three cells it turns (`Turned`), and then
by what it keeps: shape, parents, positions, heights. Within a fixup exactly one thing is
out of place, and the lemma of a round says it is mended or has moved up: a red node below
a red one (`Rising`) for an insertion, a black node too few on all paths through one cell
(`LackAt`) for a deletion. As it moves up, `sub` of the place grows, and it can have no
more than all nodes: so `Rounds` rounds suffice (`InsertFixupIs`, `DeleteFixupIs`).

`Timers_proofs` takes a deletion apart in the same order as the code: a node with one
child at most is cut out (`Cut`); if the node to delete has two children, the one that
is cut out is its neighbour to the right, which then takes its place, and this is
the cut tree with one node renamed (`Renamed`). The sentinel's parent is really
used on the way: `DeleteFixup` may start from it. `Under`, by which `Linked` is defined, is `sub`
(so the set of pending timers is the set the tree was built from), and
`BlackHeights` has one member. For the walk, `ngx_rbtree_next` gives the node next by
position (`SuccessorIs`), as many steps as there are timers visit each of them
(`WalkIs`), and with `KeysSorted` that is the order of due times.

`TimersInv` speaks of functions that exist, and TLC cannot look for them; it checks
what follows from it, `TreeBalanced` and `EarliestFirst`.

### The parts of the library

| Theorem | Statement | What the inductive invariant adds |
|---|---|---|
| `Sockets_proofs!OwnershipSound` | `SocketsSpec => []DescriptorsOwned` | an object that does not exist holds nothing that its next incarnation could close (`AbsentHoldNothing`) |
| `Library_proofs!ArrayIsList` | `ArraySpec => ImplementsList` | the list lies inside the block, its items have been written, and size, room and capacity are in this order |
| `UdpFront_proofs!PoolIsThere` | `FrontSpec => []PoolBeforeRequests` | until the pool is made no socket has been opened (`Quiet`) |
| `UdpFront_proofs!CallbacksAreRight` | `FrontSpec => []CallbacksFit` | while `run` is at the UDP server no loop sees it; only what is open is known to epoll, and only one thread closes it (`CInv`) |
| `Library_proofs!LeaksAreListed` | `LeakSpec => []LeaksListed` | the file of a freed block has a hook about to remove it, a block without a file one about to make it, and where both are on their way the block counts as overtaken |
| `Library_proofs!LookUpShares` | `ConfigSpec => []LookUpAgrees` | what a thread was given is in the map and stays there; who is about to look again will find something |
| `Library_proofs!AddressesSound` | `NetSpec => []AddressesExplained` | what is cached of the remote end is a peer of the past, connected or not (`CacheIsMet`); what is cached of the local end is of the present socket until one is lost (`CacheIsLocal`) |
| `Library_proofs!RequestsAreSettled` | `ReqPoolSpec => []RequestsSettle` | what a queue can hold at each stage of a request, that whoever has something to receive is in the pool's hands and in two places only with two things to receive, and what becomes of a length between `recv` and the callback (`ReqInv`) |
| `Library_proofs!FibersStaySound` | `BaseSpec => []StacksStaySound` | until a fiber is resumed from another, everybody's context is the one written when his stack was left, and `t_fiber` is who runs (`BaseInv`) |
| `Library_proofs!DirectoriesAreMade` | `PathsAreSplit => (FilesSpec => []MkdirsMakes)` | each directory a maker has behind it exists or has a plain file in its way (`FilesInv`) |
| `Library_proofs!CommandsAreComplete` | `PathsArePlaces => (ProjectSpec => []CommandsComplete)` | all along the working directory there are directories, and every plain file is a project's (`PlacesInv`); in `mkdirs` what is behind is there (`InMkdirs`), and afterwards the directory and what was made below it, unless the command lost a race or stopped by itself (`AfterMkdirs`); what it knows to be there has what is above it, and not what it is about to make (`Knows`), so that a `mkdir` that fails has lost a race or has no name of its own |
| `Library_proofs!LinesSayWhatWasTold` | `FormatsAreRead => (LogSpec => []LinesAsTold)` | the items of a formatter are all it was ever told, one behind the other (`LogInv`) |
| `Library_proofs!OpenPathsArePrinted` | `PathSpec => []PrintsOpenPaths` | the path and the calls of `pp` go together, the marks are those of the path without its beginning, and exactly the paths that the search has left behind have been printed (`PathInv`) |

In `Sockets_proofs` one lemma carries the argument: a step gives one object a record
and moves its old descriptor to one other place or closes it (`Move`); every
operation is an instance of it. The proof of `ArrayIsList` shows of every operation that
it is a step of the list or leaves it as it is; `PutIn` says where the items are after
an insertion, with or without a new block, and `SeekFinds` that the loop of
`find` stops at the first match.

Half of `MkdirsMakes` is about paths alone: the directories that `Path` leaves are
those the kernel would come to by the text, unless separators are doubled. `AllAlike`
proves it of every sequence of names; where names hold no `..` behind an empty one,
both walks end in one place, and where they hold no empty one, Path's directories
have no detours left, so that the kernel's walk along them changes nothing
(`ProperLead`). Facts like these, about every length of a sequence, are proved by the
least counterexample (`Least`): the folds of the community modules are unfolded as
the functions they choose (`FoldExists`, `FoldUpto`, `AlongAppend`; `FlattenAppend`
for loggers).

`CommandsComplete` needs more of paths: `mkdirs` makes sure that the kernel can walk
along the directories as `Path` names them, but the files are opened by the text.
`AllFollow` shows that the kernel can walk along the text too, from the working
directory, if no `..` is behind a name (`Straight`). As long as
`Detour` meant only a `..` directly behind a name the proof did not go through, and
rightly: for `b/./../c/` nobody makes `b`, and the files cannot be opened. Such a
path is now among those of the run.

`PrintsOpenPaths` speaks of the end of a search without parameters, and TLC has been
through it. `PathInv` says why it holds, for every state on the way: a path has been
tried if it leaves the present one at a point whose call of `pp` has its side behind it
(`Tried`), and each action moves that line by what it prints. A call with all eight
points in the path prints nothing: it has been made because a side leads back to
the beginning.

Three theorems have a hypothesis about single inputs, which TLC evaluates for all
inputs of its run (`EachByItself` in `MCLibrary`). `PathsAreSplit`: `getdirs` gives
a sequence of names; it sorts the separators, and the prover knows nothing
of the sort. `PathsArePlaces`: the same for the paths of commands, and no directory of
theirs or of the working directory is called like a file of a project (`mk`, `.h`),
for it could not be opened as one. `FormatsAreRead`: a format by itself is parsed as it was meant; what
is proved is that a line has all a shared formatter was told, whoever told it.

The assumptions are that descriptors are positive numbers (`Sockets`), no peer or port
is the name of a state or the empty address (`NetSockets`), a misread value is told
from every default (`Config`), memory nobody wrote from every value (`Array`), there
is at least one listener (`UdpFront`), a buffer has at least one cell (`ReqPool`), no
fiber is called like a state (`BaseFiber`), the working directory has no detours
(`Files`), and lengths are natural numbers (`Logging`). `Array` bounds the size a
caller grows it to, `Config` the number of objects, by any natural number.

### Model-checked only

* Liveness: `EveryByteEchoed`, `EveryFinCloses`, `OwnerReturns`, `StartReturns`,
  `EveryTaskBegins`, and that `RpcService` answers every call. Fairness is out of the
  prover's reach.
* `PrintsBack` of `Yaml`: what `to_string` prints is a RECURSIVE operator, which the
  prover does not take.

## Plan

Done, in this order: `EpollSocket`, `Reactor`, `RpcApi` against `RpcService`;
`Threads` and `Scheduler`; `Timers` against `TimerSet`; `UdpFront` and `ReqPool`;
`Sockets`, and the parts of the library; the proofs above.

What is left is proof: `FormatsAreRead` for formats of some shape, by `FlattenAppend` and
the least counterexample over patterns, instead of as a hypothesis; and `PrintsBack`,
with what `to_string` prints restated as a function of the levels.

## Not modelled

* `ngx_rbtree_insert_value`, which nothing installs; `scheduler::idle`, which nothing
  calls; `destory_reactor`, which no caller reaches while the loops run; `Entry`'s
  reading and positions; `parent` of the YAML reader.
* Characters: how an address, one line of a YAML file or the text of a log item is
  put together. Where a text's shape decides what happens (formats, paths) it is
  modelled.
* The thread pool and `Trancer`, which do not compile; the trees, nodes, word
  splitting and tensor directories, which are shells; the resource mapper, whose
  workers only write a string.
* Older copies, some 2700 lines: `BaseModule`'s `Log`, `Config` and `Thread` with two
  backups of `Log`, the `Log.h` and `File.h` of `DataStruct`, the `Log.h` of
  `AutoMake`, and `PlatformModul`'s `TFile`. They differ from `lsylar`'s files in a
  few lines each and were not modelled a second time.
