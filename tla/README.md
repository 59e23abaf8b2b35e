# TLA+ models of msgbroker

TLA+ modules that model msgbroker, TLC runs that check them on small instances,
and TLAPS proofs of the central invariants for every instance. Paths below are
relative to the repository's `src/` directory of C code.

## The system and its parts

msgbroker is a messaging library in layers: public API, protocols, core, AIO,
transports, distributed part, memory, utilities, platform layer.

| Part | Code | Modules |
|---|---|---|
| Socket table, public API | `core/global.c` | `Lifecycle`, `SocketHandle`, `Cluster` |
| Socket object, endpoints, pipes | `core/sock.c`, `ep.c`, `pipe.c` | `Lifecycle`, `Wakeup`, `Patterns`, `Inproc` |
| Device | `core/device.c` | `Patterns` |
| Inproc queue | `transport/inproc/msgqueue.c` | `MsgQueue`, `MsgFifo`, `FifoOps` |
| Inproc session, event descriptor | `transport/inproc/sinproc.c`, `pal/efd.c` | `Wakeup`, `Inproc` |
| Inproc endpoints, registry | `transport/inproc/ins.c`, `inproc_*.c` | `Inproc` |
| Sessions of ipc/tcp, tls, ws/wss | `ipc/sipc.c`, `tls/stls.c`, `ws/sws.c` | `StreamCall`, `Sipc`, `Stls`, `Sws`, `Streams` |
| Connectors and binders of the same | `cipc.c`, `bipc.c`, `ctcp.c`, ... | `Connectors`, `Binders`, `Endpoints` |
| Protocols | `protocol/*` | `ReqRep`, `Requests`, `PubSub`, `Survey`, `OneToMany`, `Patterns` |
| Load balancer, fair queue, trie | `utils/lb.c`, `fq.c`, `trie.c` | `Balancers`, `Trie` |
| Slab, arena, message pool | `memory/slab.c`, `arena.c`, `pool.c` | `Mempool` |
| Gossip, discovery, cluster, ring | `distributed/` | `Ring`, `Cluster` |

An application thread calls the API with a descriptor; `mb_global_hold_socket`
turns it into a counted pointer under `g_self.lock`; the call then works on the
socket under `sock->ctx`, and through the protocol object on the pipes. A pipe
is one end of an inproc pair or a session of a stream transport, made by an
endpoint. `mb_close` unpublishes the descriptor, waits for the count to reach
zero and frees the socket. `PROJECT.json` lists every component and every
hazard at its line.

## Modules

**`Lifecycle`** models `core/global.c` and the teardown part of `core/sock.c`
and `core/ep.c`. State: the table (`socks`, `unused`, `nsocks`, `flags`,
`inited`), each allocation of a socket (`alloc`, `holds`, `stopping`,
`state`), each endpoint, and per thread a program counter with the local
variables of its frames. A section under `g_self.lock` or `sock->ctx`, or one
access to an atomic, is one action. Sockets and endpoints are allocations used
once, so a stale pointer is visible as a pointer to a `"freed"` one; descriptors
are reused. An API call that fails at once changes nothing and is no step.
`crashed` records the dereference of a table that is NULL. **`SocketHandle`** is
the abstract promise of that table: open, acquire, release, close, free, with
free only after the last release.

**`MsgQueue`** models every function of `msgqueue.c` on chunks, cursors and the
spare chunk; allocation may fail. **`MsgFifo`** is the same queue as one
sequence with a byte limit; **`FifoOps`** holds its operators, which `Wakeup`
uses as well, so `Wakeup` rests on the refinement that `MsgQueueProofs` proves.

**`Wakeup`** models two connected inproc PAIR sockets, one direction: a sender,
a receiver and a thread in `mb_setsockopt(MB_RCVBUF)`. A call is a stack of
frames, each a single access to shared state (the queue under its mutex, the
option read without a lock, the flag of `mb_efd`, the eventfd). The option is
set to any of the limits, so that a stale one can be applied after a new one.

**`Mempool`** models the slab's next-index allocation, `mb_slab_free`, the
arena fallback and the 16-byte tag of which the message covers the second half.

**`Patterns`** joins sockets of every protocol by inproc pipes. The protocols
are operators on a socket's state and its view of its pipes, one per function of
the sockbase: **`ReqRep`**, **`Survey`**, **`PubSub`**, **`OneToMany`** (PAIR,
PIPELINE, BUS), each with its raw variants, over **`Balancers`** and **`Trie`**.
`Patterns` adds what `sock.c` does around them and the device. A queue is that of
`MsgFifo`: bounded in bytes, with the size of the last push it refused, on which
`can_send` depends. A call holds its socket's context and looks at each pipe once,
so it is one step; `mb_pub_send` looks at its pipes repeatedly and takes a step for
each pass. `mb_sock_setopt` does not take the context (`sock.c:228`): a
subscription is changed between the calls of its socket, and what a receive sees
of a trie that changes under it is not modelled. Pipes connect when both ends are
between calls. The allocation of a retained message never fails in the model.
**`Requests`** is what REQ promises its application.

**`Inproc`** models the address registry, binders and connectors, lazy connects,
and the sessions with `pipe.c`, `ep.c` and `sock.c` around them. The registry
has no lock, so `mb_bind` and `mb_connect` take three steps: they look for the
owner of the address (`Begin`), register or connect (`MbBind`, `ConnectLazy`,
`ConnectOwned`, `ConnectRefused`), and hand the endpoint to the socket under its
context (`Publish`), or take it down if the socket was closed meanwhile. `mb_close`
waits for the calls on its socket; the teardown takes a step for each endpoint
and three for each session. All of these interleave. An operation on one of the
registry's lists is not torn. An owner that was looked up, or a peer that was
read, may be freed before it is used (`OwnerAlive`, `PeerAlive`); the step that
would use it is not taken, since what a program does after it read freed memory
has no meaning. Identifiers are given out again once nobody holds them.

**`Streams`** joins two sessions by a connection whose kernel buffers are
smaller than a frame. A unit stands for a byte: its role in the frame, its value
and the mask it carries. **`StreamCall`** is one call into a session;
**`Sipc`**, **`Stls`** and **`Sws`** are the sessions, function by function. TLS
is a record layer that hides what it has read; a mask key is one bit; the three
length encodings of WebSocket start at small lengths. A foreign WebSocket peer
follows a script of frames, among them fragments, frames without a mask and
lengths whose upper half is not zero. The allocation of an
incoming message, and of the copy of an outgoing frame, may fail.

**`Endpoints`** models one endpoint and the threads that meet in it: a caller
inside a session, the thread that connects or accepts, and the closer.
**`Connectors`** and **`Binders`** say what each function does while it holds
the endpoint's lock, for all five transports. A thread that takes a lock it
holds itself is stuck, and `lock` keeps its name. With fault `"events"` the event
functions, which run when a pipe is added or removed, meet a second session that
is broken (`MeetsLoss`): in the publication of a session, in a binder's callback
and in a binder's stop. The closer begins while no caller is inside the endpoint,
because `mb_close` and `mb_shutdown` wait for the calls on the socket
(`core/global.c:323`, `528`).

**`Ring`** holds the operators of `ring.c`, with failing growth and rollback, and
the reference definition of a lookup (nearest virtual node clockwise).
**`Cluster`** models the gossip and discovery threads, the condition variables
that end their sleep, the cluster's callbacks with the lock released, and
`mb_cluster_join`/`mb_cluster_leave` of the API. Times are ages relative to the
clock, with a `lag` for a clock read before the lock.

`*Proofs` modules hold the proofs, `LifecycleInv` what those of `Lifecycle` share;
`MC*` modules give TLC its constants.

## Runs

| Run | Instance | Shows |
|---|---|---|
| `Lifecycle` | 3 threads, every call, 2 descriptors, 2 sockets, 1 endpoint | the free stack, exact reference counts, no use after free; the body of `mb_sock_stop` runs once and leaves no endpoint; an endpoint of an open socket is not freed before `mb_ep_start`; once TERMED no descriptor is in use; the table implements `SocketHandle` |
| `LifecycleLive` | 3 threads, 1 socket, finite and infinite timeouts | `mb_close`, `mb_shutdown`, `mb_term` return under blocked calls, if coroutines are resumed |
| `MsgQueue` | 4 chunks of 2 slots | no chunk leaked, implements `MsgFifo` |
| `Wakeup` | messages of size 2, limits 2 and 3 | a message that stays is announced; room for a message is announced, or used up or taken away by a smaller limit |
| `Mempool` | 4 chunks, 2 arena chunks | no chunk is lost |
| `Patterns` | 21 networks of 1 to 4 sockets | requests travel as one token, replies go to who asked, no message arrives twice, an announced send or receive does not answer EAGAIN, the trie is a multiset, priorities are kept, REQ implements `Requests` |
| `PatternsLive` | 4 networks, sockets that ask for ever | requests are answered, surveys end, accepted messages arrive, through a device too |
| `Inproc` | 2 sockets, 2 callers, 3 endpoints, 4 sessions, 1 address | sessions are paired, owned once and freed once; an endpoint is listed once, and registered only while it exists |
| `Streams` | every kind of session, with small buffers, closes, limits, scripts | messages arrive whole and in order, no input stays hidden, what was taken arrives, pings are answered |
| `Endpoints` | the ten endpoints, with and without faults | sessions are owned once and not freed under a call at work, one thread reconnects, stop is final and returns, a connector finds its way back |
| `Cluster` | 4 networks of 1 to 3 peers | keys are routed right after every change of the ring, a stop wakes its threads, join and leave return, a silent peer is forgotten |
| `StreamsLinger` | both ends may stop, linger on | **violation**: see below |

Each module also has a type invariant. Those of `Lifecycle`, `Inproc`, `MsgQueue`
and `Mempool` are proved; the others document the shape of the state and are in no
run.

`StreamsLinger` finds that a stop with `MB_LINGER > 0` need not end: when the
peer has closed, the flush fails, `mb_sipc_report_error` calls
`mb_cipc_on_disconnect`, and that takes the lock `mb_cipc_stop` holds
(`transport/ipc/sipc.c:289`). `tests/unit/test_linger.c:4` says "linger > 0 :
mb_close blocks until outbuf drains or deadline expires".

### Bounds

* Three threads: the protocols of `Lifecycle` involve a closer, a shutdown or
  term, and a call in flight. Two allocations for one or two descriptors, so a
  descriptor is reused while the old socket is still closing. A finite timeout
  is two 1 ms rounds, an infinite one has none. Threads, sockets and endpoints
  are symmetric; the liveness runs use no symmetry.
* `EpAlive` speaks of sockets that are not closed; with an `mb_close` in between
  `mb_shutdown` does not wait (below).
* `MsgQueue`: sizes 0, 1, 2 and one larger than every limit, limits 2 and 5:
  chunk boundaries, recycling, refusal and failing allocation all occur.
* `Wakeup`: messages of size 2 and limits 2 and 3: a queue is empty or full, a
  queue with a message and limit 3 has room for 1 but not for the refused message,
  and each limit can replace the other at every point of a call.
* `Mempool`: `MaxLent = 2` callers of a chunk are enough to see it lent twice.
* `Patterns`: two or three sockets make a balanced, a fair-queued and a fan-out
  topology; a queue of two bytes is filled by a message of size 2 or by two of size
  1, and has room for 1 after a refused message of size 2; `Priorities` has four
  sends, as three buckets and a full queue need. A network sends one to four messages
  and, in `PatternsLive`, for ever. There clients stay connected:
  `mb_fq_activate` puts a new pipe in front, so one that asks, leaves and comes
  back for ever would keep the other waiting.
* `Inproc`: two callers race in the registry and with the teardown of either
  socket or of both; a socket accepts one pipe and is its own peer, the other accepts
  three and is not, so that connects succeed, are refused by the protocol and fail at
  either end. A socket is opened twice in all, so that one can close and open again.
* `Streams`: the kernel takes 1 to 3 units, a frame has more; messages of 0, 1
  and 2 units are empty, short and long.
* `Endpoints`: three sessions (in the socket, failed, being made); a peer that
  goes and comes back; intervals 0, constant, growing and above their maximum.
* `Cluster`: suspect at age 0, dead at age 1, a lag of at most 1; two virtual
  nodes, initial capacities 1, hash values 0 to 6 with a collision. One network
  has three peers and failing allocation, one two ageing peers, one an ageing
  peer and a leave, one two joins with parts that fail to start.

Deadlock is checked in `Wakeup`, whose calls go on for ever. The other runs end
when their messages, allocations or endpoints are used up.

### Fairness

* `LifecycleLive`: weak fairness of each thread's step inside a call. The
  operating system schedules runnable threads, and the code's waits are sleeps
  of 1 ms in loops. Nothing obliges an application to begin a call. A coroutine that
  has yielded goes on only when its owner resumes it, which the library does not
  guarantee: that step is not fair, and `CallsReturn` speaks of the behaviours in
  which every coroutine that has yielded is resumed in the end (`Resumed`).
* `Wakeup`: the same for the steps of a call that has begun.
* `PatternsLive`: each socket's application goes on serving it (it receives what
  is announced and answers), the clock goes on, the device's loop is scheduled.
* `Streams`: the applications of the networks that name one stay in `mb_recv` or
  poll; descriptors that are ready are noticed; a foreign peer goes on.
* `Endpoints`: the caller inside a session, the endpoint's thread and a stop that
  has begun are scheduled. Nothing obliges the closer to begin.
* `Cluster`: threads, calls and the clock go on; strong fairness for a pause
  between discovery packets, because the inner loop of `discovery.c` does not
  look at `running` while packets come without one.

## Proofs

All theorems are about the specification without fairness (`Spec`, in `Cluster`
`Safe`), which the fair one implies.

| Module | Theorems |
|---|---|
| `LifecycleProofs` | `TypeCorrect`, `FreeStackCorrect`, `RefCountExact`, `SafeReclamation` (`NoUseAfterFree`), `TableImplementsHandle` (`ImplementsHandle`), `OneTeardown` (`TeardownOnce`), `EndpointOutlivesCreation` (`EpAlive`), `TermLeavesNothing` (`TermClosesAll`) |
| `EndpointsProofs` | `SessionsAlwaysOwned` (`SessionsOwned`), `OneReconnectorAlways` (`OneReconnector`), `StopIsFinal` (`StopFinal`), `CallerAlwaysSafe` (`CallerSafe`) |
| `ClusterProofs` | `StopWakesAlways` (`StopWakes`) |
| `MsgQueueProofs` | `QueueTyped` (`TypeOK`), `NothingLeaks` (`NoLeak`), `QueueImplementsFifo` (`ImplementsFifo`) |
| `InprocProofs` | `EndpointsKept` (`EndpointsListed`), `SessionsKept` (`SessionsOwned`), `PipesPaired` (`Paired`), `InprocTyped` (`TypeOK`) |
| `MempoolProofs` | `TypeCorrect`, `NoSlotLostCorrect` (`NoSlotLost`) |

### The socket table

For any finite set of threads and any number of sockets, endpoints and
descriptors (`LifecycleAssumption`). The inductive invariant is `IInv` in
`LifecycleInv`: types with `holds` an integer, the shape of the frames at each
program counter, the table (`nsocks` is the number of slots in use, and the
stack), the reference count, and a zero count for sockets that are not live.
`holds >= 0` is not inductive alone: a release needs to know that the releasing
frame is counted, which is what `RefCount` says. `NoUseAfterFree` then follows,
because a frame that owns a reference makes the set of holders non-empty, and
`mb_close` frees only after it has seen zero.

`LifecycleTableProofs` handles the types and the frames, and the stack, the slots
and the count in the steps that open and close a socket; `LifecycleProofs` the
count in the other steps, and puts them together.

*Refinement.* `LifecycleProofs` shows for each action that it is a step of
`SocketHandle` or leaves phases and holders alone: `mb_socket` opens,
`mb_global_hold_socket` acquires, the release of a frame releases, `mb_close`
closes when it unpublishes and frees at `cl_free`, where `RefCount` gives the
abstract guard that nobody holds the socket. A coroutine call holds its socket
twice, in its outer and its inner frame, and these are two users.

*Teardown and `mb_term`.* These need a second invariant, `SInv` of
`LifecycleStopProofs`, proved on top of `IInv`:

* `Stops`: a socket is `STOPPING_EPS` exactly while one thread is in the body of
  `mb_sock_stop`, and is back at `INIT` before it is freed. Without the second
  half a late `mb_shutdown` could find a freed socket in the wrong state.
* `EpsKept`, `Owners`: each endpoint that has memory has somebody responsible for
  it: the call that made it, the list of an `ACTIVE` socket, or the thread that
  has taken the list.
* `Alone`: past its wait, the `mb_shutdown` of a published socket is its only
  user. This is where `holds > 3` is used, with `RefCount`: two permanent
  references and its own.
* `Sweep`: the slots below the cursor of `mb_term` are empty and stay so, since
  `mb_socket` fails once `TERMING` or `TERMED` is set.

### The endpoints of the stream transports

For every set of nets of the ten kinds, with at least one session and integer
intervals (`NetsAssumption`): any number of sessions, any combination of faults,
any number of changes of the peer. The function tables reduce to one form for the
connectors and one for the binders (`ConnectorTable`, `BinderTable`). The
inductive invariant is `EInv`:

* `Owned`: a session is in the list iff its memory is live, among the zombies iff
  it is stopped, with the thread iff it is fresh. `SessionsOwned` follows;
* `Making`: the thread has a session exactly from its allocation to its
  publication. Without it the thread could drop or publish somebody else's;
* `Calling`: what the memory of a call's session is, and that a caller about to
  start the thread finds none running. `CallerSafe` follows: the thread that frees
  the zombie cannot start before the caller has left `join`;
* `OneReconnector` and `OneSession`: a connector that reconnects has no session,
  so the callback of the session it has always finds the flag clear;
* `Closing`: what the closer has done so far, in the order of a connector (free,
  then join) or a binder (join, then free). `StopFinal` follows: a connector that
  was stopped before its thread publishes drops the session, because publication
  looks at `run` under the lock.

`UnwindSafe`, which goes one step further than `CallerSafe`, does not hold
(below); the proof shows where the line is.

### The inproc queue

For any set of chunks, any number of slots in one, any sizes and limits
(`MsgQueueAssumption`), and with every outcome of each allocation. The inductive
invariant `QInv` says that the queue is `Good` with the messages `Contents`, that
`count` is their number and, until `mb_msgqueue_term`, `mem` what they are
charged. `Good` has five parts:

* `Typed`: cursors and links are chunks and slots;
* `Shape`: the links lead from the read chunk through distinct chunks to the
  write chunk, where they end. `Linked` at the end and the step of `Pop` to the
  next chunk keep it;
* `Owned`: what is allocated is the chain and the spare chunk, which is not in it;
* `Filled`: a slot of the chain holds a message exactly if it is not before the
  read cursor of the first chunk and not after the write cursor of the last, and
  the spare chunk is empty. Without it a recycled chunk, which is not zeroed,
  could bring back an old message;
* `Listed`: `count` steps from the read cursor visit each filled slot once and end
  at the write cursor, and the messages met are `Contents`. A full chunk whose
  eager allocation failed is the case that needs care: the write cursor is then
  past the last slot, and the steps end one place before it.

`NoLeak` follows from `Owned` and `Listed`. For the refinement, `StepImplements`
shows for each action that it is the step of `MsgFifo` of the same name: a push
appends to `Contents` (`PushAppends`), a pop takes its head (`PopTakesFirst`),
`Settle` sees the same sum of charges on both sides. The sums and the walks along
the chain are recursive functions; that they satisfy their equations for every
length is proved by induction, for which `Least` and `Induct` state the
well-foundedness of `<` for sets.

### The inproc transport

For any number of sockets, callers, addresses, endpoints and sessions, any pipe
limits and any relation of peers (`InprocAssumption`), with every outcome of each
allocation and handshake, and with binds, connects and teardowns that interleave
at every step of the model. The inductive invariant `IInv` of `InprocProofs` has
these parts:

* `Typed`, `Calls`: endpoints, sessions, teardowns and calls are records of their
  kind;
* `Registry`: binders that exist are in one list, lazy connectors that exist in the
  other, as `in_lazy_list` says;
* `Listing`, `Divided`: a socket lists its own endpoints and a call the one it has
  made, no endpoint is in two lists, and a binder that is being stopped has left
  the registry. `EndpointsListed` follows. The binder of a call whose socket was
  closed meanwhile is the case to watch: it is in the registry before it is in any
  socket's list;
* `Keeping`: a session is in one place of one endpoint, and a teardown works on a
  session of the endpoint it is stopping. `SessionsOwned` follows;
* `Pairing`: the pipes of a socket are exactly its sessions that have a peer, these
  are the active ones, and peers point at each other. `Paired` follows. A handshake
  refused at the second end is the hard case: the first end is in its socket's list
  until `mb_pipebase_cancel` and both sessions are freed (`Handshake`,
  `PipesUndone`);
* `Recall`: a peer that a teardown has read before the locks is still the peer of its
  session when it has them, or the teardown of the other end has parted the two, or
  it has been freed. In the second case `mb_sinproc_stop` finds both ends idle and
  changes nothing (`StopParted`). This is what makes teardowns from both ends safe
  for the pairing.

The theorems speak of executions up to the first use of an owner or a peer that has
been freed: there the code's behaviour is undefined and the model takes no step.
That such a use can come is what `OwnerAlive` and `PeerAlive` are about (below).

### Cluster and message pool

`StopWakesAlways`: while a call waits for the threads it told to stop, none of
that kind sleeps out its interval, for any set of peers, any number of joins and
any number of threads left over by a second join. The invariant `StopInv` adds
that threads are records of a known kind and that a call waits only once it has
cleared the flag, which a thread reads under the lock before it sleeps.

`MempoolProofs` is for a slab of any capacity: the index stays in bounds and no
chunk is lost, from the invariant that the chunks before the index are stamped
and that a stamped chunk is in use.

### Only model-checked

* Liveness, in every run: fairness and `ENABLED` are outside the prover's reach.
* `RoutesRight` of `Cluster`: the ring is a sequence that is sorted, grown and
  rolled back with folds that take an operator as argument.
* `Patterns` and `Streams`: `PubSub` and `Sws` contain recursive operators, with
  which the prover's SMT backend cannot be used.
* The bounds on intervals and on the sizes of the lists in the `TypeOK` of
  `Endpoints`.

## Other disagreements met while modelling

Properties that are defined in the modules and do not hold. Each is refuted when
it is checked as an invariant with the configuration named.

| Property | With | The code, against the text where there is one |
|---|---|---|
| `ShutdownWaitsForCalls` | `Lifecycle.cfg` | "holds = 2 permanent + this call's hold. Wait for other in-flight send/recv" (`core/global.c:526`): `mb_shutdown` waits while `holds > 3`, but a concurrent `mb_close` has dropped the two permanent references |
| `HoldFailsCleanly` | `Lifecycle.cfg` | "Unpublish first so concurrent hold_socket fails with EBADF" (`core/global.c:311`): a lookup after the last close reads a table that is NULL (`1152`) |
| `NoLostPollOut` | `Wakeup.cfg` | "Inproc peers may be blocked on the old maxmem - wake them" (`core/sock.c:266`): a stale `MB_RCVBUF` is applied after the new one (`sinproc.c:35`) |
| `NoStickyPollIn` | `Wakeup.cfg` | "otherwise sync would sticky-POLLIN after drain" (`core/sock.c:21-24`): a signal raised after the drain leaves MB_RCVFD readable with an empty queue (`sinproc.c:171`) |
| `OneOwner` of `Mempool` | `Mempool.cfg` | "skip 5/10 - now owned by r2/r1" (`tests/unit/test_slab.c:31`): a freed chunk moves the index back over chunks in use (`memory/slab.c:127`) |
| `PublishedOnce` | `Patterns.cfg` | "The PUB retains messages rejected by all peers" (`protocol/pubsub/pub.c:17`): a send refused with EAGAIN has been retained, and the retry publishes it again (`pub.c:295`) |
| `SurveyNotContaminated` | `Patterns.cfg` | replies are drained "so a closed survey cannot contaminate the next one" (`protocol/survey/surveyor.c:31`): one still on its way answers the next survey (`surveyor.c:172`) |
| `PeerAlive` | `Inproc.cfg` | "Lock both socks in address order to avoid A-B deadlock when both ends close concurrently" (`sinproc.c:113`): the peer is read before the locks are taken (`sinproc.c:103`) |
| `OneOwner` of `Inproc` | `Inproc.cfg` | "erase the lazy slot so this bind claims the address cleanly" (`ins.c:97`): the registry has no lock, and two calls that found the address free both enter it |
| `OwnerAlive` | `Inproc.cfg` | "Peer is either a real bind-side binproc or a lazy-owner cinproc" (`inproc_cinproc.c:56`): the owner that a connect has found is freed by a teardown before it is used |
| `LazyGainsPeer` | `Inproc.cfg` | "the existing lazy connectors keep their wires attached and gain a matching bind-side peer" (`ins.c:17`): the upgrade only erases the slot (`ins.c:101`) |
| `UnwindSafe` | `Endpoints.cfg` | "deferred so the caller's stack (still inside sipc_recv/send) can unwind safely" (`ctcp.c:30`): the thread that `on_disconnect` has started frees the zombie when it begins, without waiting for the caller |
| `NeverRelocks` | `Endpoints.cfg` | "Defer the callback: it re-enters cipc_on_disconnect which takes cipc->lock" (`sipc.c:246`): so does the event function of a second broken session, which `mb_sock_pipe_add` and `mb_sock_pipe_rm` run (`core/sock.c:605`) under that lock (`bipc.c:52`) |
| `RoutedAreMembers` | `Cluster.cfg` | a node that keys are routed to is a member: joins and leaves take the gossip lock and the ring lock in turn (`cluster.c:92-108`), and one of each can cross |
| `NoEarlyDeath` | `Cluster.cfg` | a member declared dead has been silent for `dead_ms`: `now` is read before the lock (`gossip.c:196`), so for a node added in between the unsigned difference wraps (`227`) |
| `DeathsReported` | `Cluster.cfg`, a network with two ageing peers and `cap` 1 | a member found dead is removed: a tick looks at a death once and drops it when its report is full (`gossip.c:239`) |

Seen in the code and not stated as a property:

* `core/global.c:265-269`: the mutex is to be created "exactly once", with
  "pthread_once semantics", but nothing guards the first `mb_socket` of two threads.
* `Inproc`: an endpoint freed after a failed `mb_ep_init` stays counted in
  `current_ep_errors`; dead sessions stay in `binproc->sinprocs` until the binder
  closes.
* `Streams`: in a polling application a ping that came while a frame was pending
  may stay unanswered; a PONG written in part is retried from its start
  (`sws.c:171`, `481`); a CLOSE may be cut into a frame; `linger_outcome` is one
  per socket and the last session wins (`global.c:327`); with linger 0 it is 1
  though a frame was dropped; `MB_HWM` above 1 has no effect; the GUID in `bws.c`
  differs from RFC 6455.
* `Patterns`: a message larger than `MB_RCVMAXSIZE` of every peer makes a fan-out
  send answer EAGAIN while OUT is announced.
* `Endpoints`: an error callback on another endpoint's thread that races a stop can
  start a thread after the join.
* `Cluster`: being announced again does not refresh
  `last_seen`; a second join starts second threads over the handles of the first,
  and if it fails it stops the gossip of a cluster that stays ACTIVE;
  `mb_gossip_start` leaves `running` set when its thread does not start; the local
  node is never in the ring.

## Not modelled

* **Text and encodings**: HTTP upgrade, SHA-1 and base64, addresses and name
  resolution, packets of the cluster protocol (nothing sends them). They are
  stages that succeed or fail.
* **Libraries and the platform**: the TLS library beyond its record layer,
  certificates, system-call wrappers, clocks and sleeping, coroutine contexts.
* **Event loop, timers, thread pool, lock-free queues**: no socket traffic runs
  through them in this version, and the queues' correctness is a matter of memory
  order, which interleaving of atomic steps leaves out.
* **Chunks and messages**: payloads are values here; the reference counts of shared
  chunks (`memory/chunk.c`) are not modelled.
* **`core/poll.c`**, **`core/limits.c`**, hash table and lists: a loop over the events
  `Patterns`, `Streams` and `Wakeup` model, a table of constants, and containers.
* **The message assembly** of `mb_sendmsg` and `mb_recvmsg`, and options only the
  transports read.
* In `Cluster` a failed `pthread_create` leaves the handle untouched, an orphaned
  discovery thread whose descriptor is gone finds nothing to read, and a node's
  `last_seen` is taken as the moment of its insertion. `mb_cluster_term` has no
  caller.
