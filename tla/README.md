# GameNetWorkAgent: a TLA+ model

GameNetWorkAgent is a proxy for game servers behind a NAT. An administrator's
client connects to the agent and orders it to open tcp or udp ports; what
arrives on such a port from a user is relayed to the administrator's client and
back. These modules model the concurrent core of the worker process and the
master that starts it; TLC checks them on small instances, and TLAPS proves the
invariants TLC checks, except those of `TcpWire`, for every value of the constants.

## The system and its parts

A master process forks workers and sleeps (`CreateSonProc.cpp`). A worker runs:

| thread | code | touches |
|---|---|---|
| tcp epoll loop ("main") | `Socket.cpp:195`, handlers in `Accept.cpp`, `Request.cpp` | pool, all tables, queues |
| thread pool, `thread_num` = 1 (`misc/profile:20`) | `ThreadPool.cpp`, `Logic.cpp` | pool, all tables, queues |
| two tcp senders | `Request.cpp:398`, `471` | `m_workconn`, queues, connections |
| udp epoll loop | `UserInfoThread.cpp:6`, `wSocket.cpp:142` | udp pool and tables |
| udp sender, udp forwarder, expiry, heartbeat | `Request_w.cpp:198`, `322`, `412`, `Conn_w.cpp:78` | udp tables and queues |

| component | state | operations | what makes it correct |
|---|---|---|---|
| tcp pool | `m_connection`, `m_fconnection`, `m_connection_work` | `Get_connection`, `Free_connection`, `ActiveShutdown` | an object is free or used once; the counter counts; running out is survived |
| links | `m_workconn`, `m_unfullyConnect`, `forwardConn` | `Event_accept`, `Id_Distribute`, the read handlers | an id leads to the connection that bears it; the two ends of a link are shut down together |
| ports | `m_admin`, `OpenMember` | `Establish_listenSocket`, `Close_Socket(s)` | an entry stands for an open listener; an administrator's ports go with him, a port's users with it |
| commands | `m_MsgQueue` | `ThreadReceive_Proc`, `Handle_Command`, `Comm_*` | each taken once, in the order received, every command answered |
| thread pool | queue, mutex, condition, `m_isExit` | `GetMassage_And_Proc`, `ThreadFunc`, `StopAll` | no lost wake-up, no package twice, every thread stops |
| tcp sending | `m_StSQueue`, `m_StUQueue`, `requestSent`, `throwSendCount` | `MsgSend_StS/StU`, `SendProc`, `Write_requestHandle` | order, limits, every message sent or dropped with its connection |
| udp sending | `m_sendQueue`, `m_forwardQueue` | `MsgSend`, `MsgForward`, their threads | bounded FIFO without loss or lost wake-up |
| udp ports and registrations | `m_workconn`, `csinfo`, `auxinfo`, the check queues | `UserRequest_Handle`, `ForwardRequest_Handle`, expiry, heartbeat | an id leads back to the client it was given to |
| flood test | `floodCount`, `floodCheckLast` | `TestFlood` | refuses only what the profile calls a flood |
| master, signals | `this_reap` | `signal_handle`, `Create_WorkProc` | a dead worker is replaced |
| configuration, log, crc, daemon | | sequential | |

Components interact by direct calls and shared memory only: the read handlers
put commands into the thread pool's queue; the pool thread runs them on the same
tables the epoll loop changes; both call `MsgSend_*`, which may shut a
connection down; `ActiveShutdown` calls itself and `Close_Sockets`, which calls
it again, and before that the udp side's `Close_Sockets` and
`RegiestInfo_Delete`. `m_connectMutex` guards single steps of this, never a whole
one, and `m_admin` and `m_unfullyConnect` are read without it. On the udp side
`m_idCheckLock` and `m_heartLock` guard the writers of the registrations, and
the sender threads read without either. That is where the hard behaviour is:
`PROJECT.json` lists 40 hazards with their lines.

## Modules

| module | models | proofs | runs |
|---|---|---|---|
| `TcpLinks` | tcp pool, links, ports, commands | `TcpLinksProofs`, `TcpLinksSoundProofs` | `links_*` (`MCTcpLinks`) |
| `ThreadPool` | thread pool with any number of workers, `StopAll` | `ThreadPoolProofs` | `pool_serves` (`MCThreadPool`) |
| `TaskQueue` | what the thread pool promises | | as `ImplementsTaskQueue` of `ThreadPool` |
| `TcpSend` | the two tcp queues and their connections | `TcpSendProofs` | `tcp_send`, `send_quota` (`MCTcpSend`) |
| `TcpWire` | `SendProc` and EPOLLOUT on one connection, access by access | | `tcp_wire` |
| `Outbox` | what a tcp queue promises | | as `ImplementsOutbox` of `TcpSend` |
| `UdpSend` | the two udp sending queues | `UdpSendProofs` | `udp_send` (`MCUdpSend`) |
| `BoundedFifo` | what a udp queue promises | | as `ImplementsFifo` of `UdpSend` |
| `UdpRelay` | udp ports, registrations, expiry, heartbeat, ids that lead back | `UdpRelayProofs`, `UdpRelaySoundProofs` | `udp_relay`, `relay_expiry` (`MCUdpRelay`) |
| `Master` | fork, signals, reaping, the ports workers bind | `MasterProofs` | `master_reap` (`MCMaster`) |

The modules meet at these places. `TcpLinks` lets any send shut its connection
down; `TcpSend` says when (`MsgSend`), with connections that are never reused,
since reuse is the subject of `TcpLinks`. Of what is sent `TcpSend` only says that
it falls short or not; `TcpWire` takes one of its connections and one sender
thread, and says what becomes of the bytes. `UdpRelay` has the queues between its
threads as sets; that they are bounded queues without loss or lost wake-up is
`UdpSend`. The commands of `TcpLinks` and `UdpRelay` are what `ThreadPool`
delivers. `fault` in `TcpLinks`, `TcpSend` and `UdpRelay` is `Die` in `Master`.

Definitions named "Mutant of ..." are altered forms of one action each. No
specification uses them; they show that a property can fail.

### TcpLinks

Variables are the code's (`fconn` is `m_fconnection`, `adm` is `m_admin`, ...).
A handler that may call `ActiveShutdown` is not atomic, and the calls nest, so
each of the two threads has a stack of pending calls and an action executes the
call on top: `Shutdown` is `ActiveShutdown` up to the `close`, `CloseFd` the
close, `FreeConnection` is `Free_connection`; `ClosePorts`, `CloseEach`,
`ClosePort`, `Drain`, `PopUser`, `ErasePort` are the steps of `Close_Sockets`
and `Close_Socket` (its `find` and `operator[]` are one step, with the null pointer as a
further outcome while another thread is about to erase the entry); `FindEntry` and `IndexEntry` the two halves of each lookup
in `m_workconn`; `Distribute*`, `Link`, `NotifyAdmin` are `Id_Distribute`.
A step ends where the code takes or drops a lock or where the other thread may
change what was tested. One operation of a hash map or list is atomic here,
even where the code takes no lock (an interleaving inside
`unordered_map::erase` is beyond any model of this kind), and so is the test of
`fd` with the `close` after it.

`fault` records how the process died: a null pointer taken from a table, an
empty list popped, the pool empty, `exit(2)`, a stack of calls that never ends.
A dead process takes no step.

`sound` is a history variable, read by no action. The code keeps pointers to
connections in places that are not cleaned when a connection goes
(`m_unfullyConnect`, `OpenMember::opened`, the rest of an epoll batch). `sound`
becomes false when such a pointer is followed or an object is released by two
calls. Once that has happened the heap holds two owners of one object and no
table means anything; what can be asked is that everything is right *until*
then, and `FreeListSound`, `WorkTableExact` and `PortTableExact` say so. They do
not catch the hazards that make `sound` false, which the code has: those are
excluded, and `PROJECT.json` says so of each.
`WorkConserved` and `BusyNeverRefuses` need no such condition. That `sound`
does become false is no modelling artefact: `links_free` is the shortest way.

One such pointer is hard to see, and the attempt to prove `WorkTableExact` found it.
A user that hung up stays in `OpenMember::opened`. Its object is given to a new
user of the same port; while `Id_Distribute` has that one in hands, not yet linked,
a close command pops the old entry, finds an object of a user of its port, as it
should be, and releases it; then `Link` enters a free object in `m_workconn`. The
entry was not of this user, so `PopUser` ends `sound` when the object is in the
hands of `Id_Distribute` (`Distributing`). It takes 52 steps and a pool of 6.

Left out: package contents and answers (a command is a record, "other" stands
for one that only gets an answer), the receive buffers, the tcp sending queues
(a send may, at any time, find too many messages waiting and shut the connection
down: `TcpSend`) and with them EPOLLOUT, the calls of `ActiveShutdown` into the
udp side (`UdpRelay!Leave`), `ClearConnections` and
`WrokProcRelevent_Off`, which nothing reaches.

### ThreadPool and TaskQueue

One action per critical section and per step outside it. `wait` releases the
mutex and sleeps in one step (`Sleep`), may return without a notification, and
takes the mutex again through `Lock`. `MayStop` says whether the epoll thread
calls `StopAll`; today the loop before that call never ends
(`CreateSonProc.cpp:154-163`). `taken` is a history of the packages taken.

`StopAll` sets `m_isExit` without the mutex. So what a worker decided on its test of
the flag, to wait (`TestEmpty`) or to take a package (`TestReady`), it does in a later
step (`Sleep`, `Take`), and the flag may be set between.

`TaskQueue` knows the packages waiting, what each worker has in hands and whether the
queue is open, closed, or closed but for one more. A worker gets the first package,
and only when it has none; after `Close` at most one more is handed out, because
only the holder of the mutex can have come past the test. `TakenInOrder` and `TaskQueue`
speak of the taking: the handler's own lock (`logicMutex`, `Logic.cpp:29`) is taken
after the queue's is released (`ThreadPool.cpp:84`), so of several workers with
commands of one administrator the later may execute first. `TakeCommand` of `TcpLinks`
has the one worker of the profile, for which the two orders are the same.

### TcpSend and Outbox

Each queue has its mutex, its sender thread and two producers, the epoll loop
("main": what users and clients sent, notices of new users) and the pool thread
("pool": answers). A producer's call is `MsgSend` up to the lock, `Push` under it
and `Notify` after it; a sender thread is `Sleep`, `Take`, `Find` and `Index` (the
two lookups of the id), `Postpone` and `Requeue` (its connection waits for
EPOLLOUT: behind the others), `Load` (the message is counted down), `Send` and, when
that fell short, `Arm`. The epoll loop calls `SendProc` too, in `Flush`; the rest of
`Write_requestHandle` is `Flushed`, with its three ways to leave the mark and
EPOLLOUT as a choice. A send on a connection its peer has reset may raise SIGPIPE,
for which no handler is installed (`Killed`). What is sent is not here: any send may
take everything or fail at once (`Done`), whichever of the fields of the
connection another thread has just changed.

A shutdown sets `forwardConn` to null before it erases the id; `Index`
finds either null, with the same end.

`Outbox` keeps a sequence: accept at the end, put the first last, remove the
first. A call that finds the queue full jams it for ever (the code returns with
the mutex locked). The mapping takes a queue's messages to be the one in the
sender's hands, until it is counted down, and those behind it.

### TcpWire

The fields of a connection that hold what is being sent, `delptr`, `sendptr` and
`sendLen`, have no lock. `throwSendCount` (atomic) is meant to hand them over: `SendProc`
counts it up when a rest stays, the sender thread leaves a connection alone that
is above zero ("> 0 表示通过系统通知发送", `TcpSock.h:83`), and
`Write_requestHandle` counts it down. So each step of this module is one access to
a field both threads use, or one system call: `SetDel`, `SetPtr`, `SetLen` are the
stores before the call of `SendProc`, `ArgLen` and `ArgPtr` the reading of its arguments,
`All`, `Some`, `None`, `Fails` what `send` does, `ReadPtr`, `WritePtr`, `ReadLen`,
`WriteLen` the two updates after it, `Delete`, `NullDel`, `NullPtr` the giving back,
`Mark` and `Arm` the handing over; `Test`, `TestAgain` and `Unmark` are the rest of
`Write_requestHandle`, with the boolean of `SendProc` taken for a length as the code
takes it. Steps of the two threads interleave freely, from `delete[]` of a buffer
the other is about to send from to a send of the old `sendptr`; `freed` holds the
buffers given back, and sending from one garbles what the peer gets.

`sendptr` is a message number and an offset. For users the code adds `m_PKG_Hlen`
to a `PKG_Head*` (`Request.cpp:534`), so it starts that many heads, not bytes, into
the message; `Start` says so, with `HeadLen` standing for both the head's size
and `m_PKG_Hlen`. That goes past the message only in what is sent, not in how, so
`WholeMessages` compares with what the code means to send (`due`).

`OneAtATime` says that the mark works: the two threads never work on the fields at
the same time, and nothing is deleted twice; `WholeMessages` what follows for
the peer; `Resumes` that a marked connection is given back. The code breaks them in
three ways, which `astray` (history) records and the properties except:

- "vain": EPOLLOUT stays armed after the rest has left, since the branch that clears
  it is taken for a rest of one byte only, so it is handled on a connection
  that is not marked, while its sender thread is at work;
- "cut": the event of a hang-up sets `throwSendCount` to zero with a rest pending;
- "skip": a send of the epoll loop falls short, and `Write_requestHandle` moves
  `sendptr` over a byte that was not sent.

### UdpRelay

An object is an `uConnection`; `conn[o].bound` is the port its descriptor is bound
to and `conn[o].port` the field, which the pool thread sets one step after epoll
may already report datagrams (`Establish`, `Name`, `Publish`). Three threads close
ports: the pool thread (`CloseSocket`, `CloseAll`, `Leave`), the tcp epoll loop
(`Leave`) and the udp epoll loop, for an empty datagram or an error
(`ReadEnds`); each then does `CloseFd` and `FreeConnection` per object, and `Forget`
and `Delete` (`RegiestInfo_Delete`, its test and its locked part). A registration is
made by `Register` in `UserRequest` and `ForwardRegisters`, grows old (`GrowOld`:
time passes, at any speed), and is deleted by `Expire` or, an administrator's, by
`Delete` and then `Heartbeat`. A package goes to its
administrator in five steps (`Forward`, `ForwardPort`, `FindAdmin`, `ForwardAdmin`,
`ForwardTo`; the datagram may be lost), and an answer to its client in seven (`Take`,
`TakePort`, `FindId`, `TakeId`, `FindAddr`, `TakeAddr`, `SendTo`): no lock is taken, and
`find` and the `operator[]` after it are a step each. What `operator[]` inserts when
the entry was erased in between, a null pointer in `csinfo` or an empty string in
`auxinfo`, stays there: `made` holds these entries, later lookups find them, and the next
datagram of such an address follows the null pointer.

A registration that is freed between its lookup and its use is a step with two
outcomes: the process dies ("deleted registration"), or its memory is some other
registration's by then and the datagram goes to any address. The second is
recorded in `astray` as "freed", and `RightClient` does not rule it out, as the code
does not; it rules out "found", an answer that reaches the wrong client though all
it was looked up by is still there.

`sound` plays the part it has in `TcpLinks`: it ends with the first step that
confuses two uses of an object or an id (an object reused with tables that are
not empty, an id that wraps, a registration that expires after its address got
another). The properties that speak of the tables hold until then. What leads there is
excluded, not caught. Some faults come without it: "null registration" (of two
shutdowns of one administrator the second finds nothing to delete; or an address
`operator[]` has entered is heard of again), "null connection" (a port closed between
two lookups of it), "deleted registration", and an expiry that does not find its port:
because it was closed, or ("expiry at an unpublished port") because it is not yet in
`m_workconn`.

An empty pool ends the process in `Establish`. In the code the object made then is
zeroed with its tables (`Conn_w.cpp:67`), and the first datagram at it does.

### Master

A signal is a bit in `pending`. Outside `sigsuspend` all are blocked; inside none is
but those being handled, so handlers nest: `frames` is the stack of
`signal_handle` calls and the innermost runs. `Wait` is one round of the loop of
`Process_Get_Status`. A worker that starts is at the tcp port it binds next,
or running, a zombie or reaped; the udp port is bound by a thread it starts when
it begins to run (`CreateSonProc.cpp:149`), so `BindUdp` comes any time later. A bind
fails when another worker has the port, and may fail when none has: another
process has it, or a connection of an earlier run is in TIME_WAIT, since
SO_REUSEADDR is commented out (`refused`). The failure is ignored, as in the code.
`Die` stands for every fault of the other modules.

### UdpSend and BoundedFifo

`UdpSend` has the producer (udp epoll thread) and a consumer per queue.
`BoundedFifo` knows only the messages pending, dealt with and refused; the
mapping takes a queue's pending messages to be the one in the consumer's hand
and those behind it, so `Take` is a stutter and `DealWith` completes the first.
`Threshold` is `MaxSend + 1` and `Capacity` is `MaxSend + 2`: what the length test
really enforces, plus the message in hand.

## Runs

| run | bounds | shows |
|---|---|---|
| `links_commands` | pool 6, 2 administrators (symmetric), 3 accepts, 2 commands, 1 port | `WorkConserved`, `FreeListSound`, `PortTableExact` while commands race the loop; explored as long as `sound` holds (`CONSTRAINT WhileSound`), 2.7 million states |
| `links_reuse` | pool 5 (3 besides the listeners), 4 accepts, batches of 2, 1 failed registration | types, `BusyNeverRefuses`, `FreeListSound`, `WorkTableExact` with objects reused and events outliving them; 3.1 million states |
| `links_return` | pool 6, 3 accepts, 1 command, fair | every call returns (`CallsReturn`) |
| `links_free` | pool 6, 2 commands | violated: an object is in the free list twice |
| `pool_serves` | 3 workers, 3 packages, a stop | order, no stranded package, implements `TaskQueue`, every package served, `StopAll` ends every thread not caught between test and wait |
| `tcp_send` | 1 administrator, 1 user with its forward connection, queue limit 1, limit of requests 0, 3 messages, 1 short send, 1 hang-up or reset, fair | types, `CountersConserved`, `NoLostWakeup`, `Drained`, implements `Outbox`; 282 thousand states. An EPOLLOUT of a connection that is not marked is left to `tcp_wire` |
| `tcp_wire` | a user's connection, 2 messages of 4 bytes with a head of 1, 2 sends that fall short, `throwSendCount` down to -1, 1 reset, fair | types, `OneAtATime`, `WholeMessages`, `Resumes` |
| `send_quota` | queue limit 2, request limit 1, 3 messages | violated: a user over its limit with nothing waiting |
| `udp_send` | limit 1, 6 packages | no lost wake-up, implements `BoundedFifo` with liveness |
| `udp_relay` | 2 objects, 1 user port, 1 administrator, 2 clients (symmetric), ids 0..1, 3 registrations, 2 openings, 1 closing, at most 2 packages and answers under way | types, `TablesPaired`, `FreeListSound`, `RightClient`, `NothingLeaks`, as long as `sound` holds; 725 thousand states |
| `relay_expiry` | the same, without the constraints | violated: the expiry of a registration whose port was closed crashes the worker |
| `master_reap` | 3 workers, 1 signal from outside, fair | types, `ZombieAnnounced`, `PortsBound`, `Reaped`; 432 thousand states |

Why the bounds suffice: a link takes three accepts (administrator, forward
connection, user) and one command; the fourth accept, the second administrator
or the second command is what can disturb it. A pool of 5 or 6 holds the two
listeners, a port's listener and two or three connections, so objects are
reused and the pool does run empty. Batches of two contain the event that
outlives its object. `MaxDepth` bounds nested shutdowns; a cascade that is not
a cycle has three levels (administrator, user, forward connection). In
`udp_send`, limit + 2 packages fill queue and consumer and two more are refused.
In `tcp_send` three messages fill a queue of limit 1 and jam it, or one is in hand
or postponed while the others wait, for the same connection or another; one break
can hit any of the three connections at any step, and makes the ids that are found
and then gone; a limit of requests of 0 shuts a connection down with one message
waiting. In `tcp_wire` the second message is what a rest of the first can be mixed
up with; a user's message has three bytes to send, so two sends that fall short
leave a rest of a rest, of one byte and of two, or a rest of each message, by
either thread; `MaxFlush` lets one EPOLLOUT in vain count the mark below zero. In `udp_relay` two objects make the second
opening reuse the first one's; three registrations with two ids wrap; one closing
by any of the three threads races the other two and the expiry. What the
bounds leave out is left to the theorems, above all `CONSTRAINT FewUnderWay`: with two
packages or answers under way one can be looked up while another's registration
is made, expires or is freed. In `master_reap` three deaths coalesce
into one or two SIGCHLD, while another signal nests.
`Ready` limits how often a descriptor no object knows any more is reported,
which in the code goes on for ever.

`WhileSound` loses nothing for the properties that say nothing of a state that is
not `sound` (`FreeListSound`, `PortTableExact`, `TablesPaired`, `RightClient`): TLC still checks the first state after
`sound` is lost and `sound` never becomes true again. `WorkConserved` is not
conditional: beyond the constraint it rests on its proof, and on `links_reuse`,
which has no constraint and checks `BusyNeverRefuses`, its consequence. `NothingLeaks`
is not conditional either: beyond the constraint it rests on the theorem
`RegistrationsAccounted`.

Deadlock is not checked: a behaviour ends when the process died, when a bound on
accepts, commands, ports, messages or signals is reached and everybody sleeps, or
when the pool has stopped. The code does stop there: it waits for clients.

What the violations mean is under "findings" in `PROJECT.json`, each with the
line it contradicts.

### Other disagreements the model shows

These follow from the models too and have no run of their own. Where a definition
is named, adding it as INVARIANT (or PROPERTY) to a copy of the module's cfg
reproduces it.

- `TcpLinks!GrowsOnDemand` (`Connection.cpp:93-98`): "如果空闲链表中没有链接 创建一个返回";
  the object made when the pool is empty is zeroed, its strings included, and the
  worker dies.
- `TcpLinks!NoOrphanPort` (`Connection.cpp:144`): an open command that runs while
  its administrator is shut down leaves a port nobody owns.
- `TcpLinks!NoStrayUser` (`TcpSock.h:191`): a user linked while its port is closed
  stays connected.
- `ThreadPool!AllThreadsExit` (`ThreadPool.h:19`): `StopAll` sets its flag without the
  mutex; a worker between test and wait is joined for ever. `StopsUnlessDozing`
  is what remains true.
- `UdpSend!AtMostMaxSend` (`UdpSock.h:190`): one package more than `m_MAX_Send` waits.
- `Master!Restarted` (`SigHandle.cpp:78`, "以便主机程恢复"): no worker is ever started
  again, and no other takes over the port a dead worker had.
- `Request.cpp:333`, `378`: a full tcp queue stays locked for ever (`Outbox!Jam`).
- `Request.cpp:534`: the head of a message to a user is skipped by
  `m_PKG_Hlen` heads, not bytes (`TcpWire!Start`).
- `TcpWire!WholeMessages`, `OneAtATime` and `Resumes` without their conditions on
  `astray`: `SendProc` returns a bool that `Write_requestHandle` (268-302) takes for a
  length. A connection may be marked for ever: when a rest of one byte stays,
  `SendProc` counts to 2 and the branch for a length of 1 clears EPOLLOUT and counts to
  1, and no event comes to count on.
- `UdpRelay`: after a port was closed and opened again, a late answer goes to a
  client that has its id now, and the expiry of an old registration erases a new
  client's entries; an empty datagram closes the forward port, which nobody opens again.
- `UdpRelay`: a registration expires, or its administrator leaves and the heartbeat
  thread frees it, between the lookup of a sender thread and its use (`ForwardTo`,
  `Request_w.cpp:472`; `SendTo`, 394): memory is read after it was freed, and if a new
  registration has it by then, the answer goes to that client (`astray` # {}).
- `CreateSonProc.cpp:179` says "放开接收所有信号" (let all signals in) and blocks an empty
  set: workers keep the mask the master set before fork.
- With `work_process_num` above 1 the control and the forward port may belong to
  different workers, whose tables know nothing of each other (`Master!Binds`); a port whose bind fails is
  missing for as long as the workers live.
- The handlers of `SigHandle.cpp` log through functions that are not safe there.

## Fairness

`FairSpec` of `TcpLinks` assumes that a thread with a pending call goes on: no
call waits for anything but short critical sections (`m_connectMutex`,
`m_memberLock`) as long as the tcp sending queues are not full; a full one
returns with its mutex locked (`Request.cpp:333`), which `TcpSend` has.
Nothing makes clients connect or events come. The same holds for `Finish` of `ThreadPool`:
its fairness says that `ThreadReceive_Proc` returns, so `Served` and
`StopsUnlessDozing` speak of a pool whose answers do not meet a full tcp queue. `ThreadPool` and
`UdpSend` assume weak fairness of each thread's own steps, as the system's
scheduler gives it, and none for arrivals, for spurious wake-ups or for the call of
`StopAll`. `Lock` is weakly fair only: with three workers and finitely many
packages nobody can take a mutex infinitely often from a worker that waits for it.
`TcpSend` assumes the same of producers' calls and sender threads; nothing makes
a socket writable (`Flush` is not fair: a peer may never read), messages come or
connections end, so `Drained` lets a message wait whose own connection waits.
In `TcpWire` both threads go on, and epoll reports a connection that waits for EPOLLOUT
and is writable: `Resumes` is about a peer that reads.
`Master` assumes that the master runs and that the kernel delivers a signal that
is pending and not blocked; nobody has to die or to send. `UdpRelay` states no
liveness: a datagram that is not answered is not an error.

## What is proved

For any size of the pool (at least 3), any disjoint sets of administrators and
users, any ports and all bounds (the named assumptions of `TcpLinks`):

- `TcpLinksProofs!TypeCorrect`. `TypeOK` is not inductive: the peer of
  `Id_Distribute` is written to `admin`, which must not be a user's address, and
  `Link` looks up the port of its connection, which must be a user port. `Typed`
  adds that every pending call is `Legal`: `Distribute*` and `Link` are pending on the
  epoll thread only, with an administrator's address for any other than a user's
  connection, and a user port for `Link`. A port of an object only ever
  changes to a user port while the other thread runs, so legal calls stay legal
  (`LegalGrows`). One lemma per action (`...Typed`), combined in `StepTyped`.
- `TcpLinksProofs!WorkIsConserved`: `WorkConserved` is inductive with `Typed`.
  `FreeConnection` adds one to the free list and takes one from the counter,
  `Accept` the reverse; `Establish` and `AcceptFails` take an object and count in
  `count.open` and `count.fail` instead.
- `TcpLinksProofs!NeverBusy` follows: the counter is at most
  `WorkConnections - 2`, because nothing else in the sum is negative.

`TcpLinksSoundProofs` proves, from the same assumptions, `FreeListSound`,
`WorkTableExact` and `PortTableExact` from one invariant, `sound => Good`. It follows an
object through the pool:

- Taken from the free list an object is `Young`: one call has it in hands, no entry
  of `m_workconn` leads to it and no pending call releases it. The calls that have
  one are on top of their stack (`YoungOnTop`); what they know of it is `NewUser` and
  `NewListener`. It stays young until `Link`, `DistributeAdmin` or `Publish` puts it
  into a table, or its own call shuts it down.
- Released, it is closed before it is given back, by the call right above in the
  same stack (`ClosedFirst`), and at most one pending call gives it back
  (`FreedOnce`). So what enters the free list is closed and not there yet
  (`Distinct`, `FreeIdle`).
- A listener is released only above the erasing of its port (`Doomed`), and above an
  erasing only calls stand that shut down no administrator and close no other port
  (`UnderErase`): so an entry of `m_admin` is an open listener or about to be erased.
- `FieldsAgree` says which fields go together: a shutdown that follows
  `forwardConn` meets an object with an id, hence no listener and none that is young.

`Placed` and `Fits` say what a step does to a stack; a lemma per action (`...Good`)
uses them, combined in `StepGood`. `links_reuse` and `links_commands`, with `sound => Good` as
a further invariant, found no violation.

`ThreadPoolProofs` proves, for any non-empty finite set of workers and any
number of packages, types, `MutualExclusion`, `TakenInOrder`, `NoStranded` and
`Spec => ImplementsTaskQueue` from one invariant. `NoStranded` needs
`MutualExclusion`: a worker about to sleep holds the mutex, so no package can come
between its test and its sleep (`SleepOnEmpty`); nor can anyone pop between the test of a
worker about to take a package and the taking (`TakeFinds`: `front` is never called
on an empty list). The refinement adds that a worker has a package exactly from
`Take` to `Finish` (`Holding`) and that only one is about to take one (`OneTakes`),
so setting the flag leaves at most one to be handed out.

`UdpSendProofs` proves types, `NoLostWakeup` and `Spec => Fifo!Spec`, the safety
part of `ImplementsFifo`, for every limit: each action is shown to be an
`Accept`, a `Refuse`, a `Complete` or a stutter of `BoundedFifo` under the mapping.

`TcpSendProofs` proves, for any ids, limits, message sizes and bounds:

- `NoWakeupLost`. `NoLostWakeup` is inductive with the types of the queues
  (`Typed`): a sender goes to sleep only on an empty queue with the mutex free, and
  a push leaves its caller at "notify".
- `QueuesAreOutboxes`: `Spec => ImplementsOutbox`. `Effect` says what a step may do to
  the messages kept in one queue (nothing, push, jam, rotate, shrink); each action
  has a lemma that it has such an effect. That a pushed message is not there
  already needs `Fresh`: numbers in a queue are at most `offered`, a call about to
  push has a number that is in no queue and no other call's (`FreshStep`).
- `TypesHold`: `TypeOK` is inductive with `InHands`, that a message is in the hands of
  calls and senders at work only.
- `RequestsCounted`: `CountersConserved` is inductive with the types. Each step has one of
  the `Effect`s above, so it changes the number of waiting messages of one id by one or of
  none: an accepted message is counted up on its id's own end (`PushConserved`), a
  loaded one down on an end of the same id (`LoadConserved`), and a dropped one
  belongs to an id that is no longer known, of which nothing is promised. Ids are
  only ever forgotten.

`MasterProofs` proves types, `ZombieAnnounced` and `PortsBound` for any number of
workers and signals. `FramesSound` says that handlers run only while the master is
suspended and that one that calls `waitpid` handles SIGCHLD: so a handler that
has reaped one worker and goes on announces the others. `PortsBound` (theorem `BoundOncePast`) is
inductive with the types: one who comes past a port leaves it bound or `refused`
(`BindsPort`), and until somebody dies nothing unbinds it. `NextExists` says that while
the master forks there is a worker left to fork.

The proofs about `UdpRelay` hold for any number of objects, administrators,
clients, ids, registrations, openings and closings and any finite set of user
ports, in two steps.

- `UdpRelayProofs`: types (`TypeCorrect`) and `RegistrationsAccounted`, for every
  state. `NothingLeaks` is inductive with `Placed`: a registration is in at most one
  place of one table, under its own address. So `Delete` and `Expire`, which
  erase that place, leave no other entry that leads to it.
- `UdpRelaySoundProofs`: what holds while `sound` does. `FreeObjectsUnused` needs
  `EntriesSound`: the object a port is entered with has that port in its field, and one
  about to be released is closed; so `FreeConnection`, which erases the entry
  of its object's port, leaves no other entry that leads to the object. `TablesInverse` needs `IdsBelow`: ids are given out in
  order, so a new one is in no table. The entries in `made` are no part of the
  tables there, so that lookups only touch what is paired with nothing.
  `AnswersReach` rests on both: openings are numbered (`Numbered`), the id of a
  package in any queue was given to its client and in that opening to nobody else
  (`MailSound`), and what the sender has looked up so far, at whichever of its
  accesses it is, is still that client's, or is gone (`SenderSound`).

Only model-checked: the invariants of `TcpWire` (a connection has few states, and
nothing in it grows but the number of messages), and all liveness (`CallsReturn`,
`Served`, `StopsUnlessDozing`, `Drained`, `Resumes`, `Reaped`, the liveness half of
`ImplementsFifo`), which the installed
provers do not reach: ENABLED and fairness are outside them, and so are induction
over data and RECURSIVE operators, which these modules do not use.

## Plan

1. `TcpLinks` over `TaskQueue`: the pool is proved to be one (`PoolIsTaskQueue`); that the
   commands of `TcpLinks` are taken from one is read off `TakeCommand`, not yet stated.
2. `TcpSend` with objects that are reused, as in `TcpLinks`: a rest kept for one
   client must not reach the next.
3. `OneAtATime` and `WholeMessages` of `TcpWire` as theorems, for every length of a
   message and any number of short sends.

## Not modelled

- `TestFlood`: a counter per connection that only the epoll loop touches. In `TcpLinks`
  and `TcpSend` a read may be refused at any time, whatever the counter says.
- Start-up, configuration, process title, daemon: sequential, before any thread.
- The log, the checksum, the formatting of commands and answers, the receive buffers:
  no property speaks of them; a package is whole and well-formed, or refused.
- `ClearConnections`, `ClearSendQueue` and both `WrokProcRelevent_Off`: nothing reaches
  them, the loops before them never end.
- Iterators stepped before the beginning of a vector (`Conn_w.cpp:104`,
  `Request_w.cpp:226`), two threads inside one `unordered_map`: undefined behaviour
  below the level of these models; the queues are sets, a table operation is one step.
