# Verification of messaging_playground

The repository is a collection of messaging experiments in C++, Python and
Rust. This directory holds TLA+ models of the parts of it that keep state and
run concurrently, TLC runs that check them on small instances, and TLAPS proofs
for all instances. `PROJECT.json` names, for every definition that models code,
the lines it stands for, and lists the runs, the findings, the hazards and the
theorems.

## Inventory

| component | state | operations | what is hard | what makes it correct |
|---|---|---|---|---|
| `grpc/comms_v2_bundles`, packet path | accessors with one bundle per end point, a bounded submit queue, a reap queue per accessor, writer threads | `comms_submit`, `comms_submit_flush`, `comms_reap`, `comms_accessor_destroy`, the writer loop, `comms_shutdown` | several application and writer threads, full queues, retried RPCs, a stop flag read after the queue | no packet vanishes, doubles or goes to the wrong accessor; the result reported for a packet is that of its RPC; calls and shutdown end |
| `grpc/comms_v2_bundles`, start and shutdown | reader, receiver, writer and catch threads, condition variables, gRPC server and completion queue | `comms_start`, `comms_wait_for_start`, `comms_shutdown`, `CallData::Proceed` | waits without loops, joins under locks, a server that cannot be built | start and shutdown end and mean what they say, threads end in the order of use |
| `grpc/comms_v2` | the same without bundles, one shared reap queue, short-circuited local end points | as above, and catch and release | the same, and a release queue nobody drains | as above |
| `grpc/comms`, `grpc/comms_async` | a queue and a sender thread per end point, a receiver | send, receive, shutdown | packets reaped before they are sent, flags initialised after the thread starts | as above |
| `etcd/synchronization`, barrier | cached states of all processes, global state, etcd keys and leases | `sync_start`, `sync_set_state`, `sync_wait_for_global_state`, the watch callback | two threads without a lock, restarts, expired leases, broken streams | the barrier opens neither early, as far as the code can keep that, nor never |
| `etcd/synchronization`, streams | the state machines of lease and watch, keep-alive timer, completion queue | `Lease::proceed`, `keep_alive`, `revoke`, `Watch::proceed`, `cancel`, `sync_t::destroy` | three threads, one tag for all operations of a stream | no operation is begun twice, nothing is freed in use, destroy ends |
| `etcd/libetcd` | none but handles | single RPCs | | |
| `grpc/discovery` | a cache of services, etcd leases and keys, expiry timers | register, unregister, keep alive, expiry, watch callback, synchronisation after an outage | asyncio: state read before an await and used after it | cache and etcd agree in the end, a live service stays registered |
| `grpc/saiteki` | permits, counters and thresholds of an optimisation client, latch of its context | submit, objective, done, shutdown | permits on error and shutdown paths | permits are conserved, shutdown ends |
| `grpc/python/server_pool` | pool of channels and stubs, futures | submit, shutdown | a failing RPC | a stub returns to the pool, every future is resolved |
| `rabbitmq/rabbitmq-fuse` | directory table, open file handles, publisher confirms | mkdir, mknod, lookup, write, sync, release | confirms that arrive late, names that exist | table and confirms are consistent |
| `rabbitmq/python/work_distribution` | tasks on a pool, acknowledgements | on_message, acknowledge | acknowledgement from a worker thread | every task is acknowledged once |
| `moodycamel::ConcurrentQueue` (vendored, in both `comms_v2*`) | producers with their blocks and block index, a free list of blocks, hash tables from thread id to producer | `try_enqueue`, `try_enqueue_bulk`, `try_dequeue`, `try_dequeue_bulk`, with and without producer token | no locks: counters read apart, reused blocks, tables that grow under readers, enqueues that fail halfway | every element is taken once, every block has one owner, every thread has one producer |
| generated `*_pb2*`, tutorials (flatbuffers, fmt, logging, mosquitto, protobuf, rabbitmq 01-06, sockets, zeromq, Rust hello), fonts, vim | | | | |

The C++ parts interact as follows. An application thread owns an *accessor* and
passes packets to it; the accessor puts bundles into the queue of the `comms_t`
object, writer threads take them out, call the `Send` RPC of a peer and put
every packet into the reap queue whose address the packet carries. A peer's
receiver thread serves `Send` from a completion queue. All queues of `comms_v2`
and `comms_v2_bundles` are `moodycamel::ConcurrentQueue`s, whose two copies are
the same file; those of `comms` and `comms_async` are `std::queue`s under a
mutex. The barrier does not use
comms: its processes see each other only through keys of an etcd server.

## Modules

| module | models | run as |
|---|---|---|
| `CommsBundles` | packet path of `comms_v2_bundles` | `MCCommsBundles` |
| `PacketLedger` | what the packet path promises about a packet (abstract) | through `CommsBundles!LedgerSpec` |
| `CommsBundlesProofs` | proofs about `CommsBundles` | tlapm |
| `CommsLifecycle` | start and shutdown of `comms_v2_bundles` (the code is the same in `comms_v2`) | itself |
| `CommsLifecycleProofs` | proofs about `CommsLifecycle` | tlapm |
| `CommsV2` | `comms_v2` and its driver: packet path, catch thread, order of shutdown | itself |
| `CommsV2Proofs` | proofs about `CommsV2` | tlapm |
| `CommsEarly` | `comms` and `comms_async` with their drivers | `MCCommsEarly` |
| `CommsEarlyProofs` | proofs about `CommsEarly` | tlapm |
| `ConcurrentQueue` | producers of the vendored queue and their blocks | `MCConcurrentQueue` |
| `ConcurrentQueueProofs` | proofs about its counters, blocks and cells | tlapm |
| `FreeList` | its lock-free list of empty blocks | itself |
| `FreeListProofs` | proofs about `FreeList` | tlapm |
| `ProducerHash` | its table of producers by thread id | `MCProducerHash` |
| `ProducerHashProofs` | proofs about `ProducerHash` | tlapm |
| `SyncBarrier` | the barrier of `etcd/synchronization` with etcd as environment | `MCSyncBarrier` |
| `SyncStreams` | lease, watch and `sync_t::destroy` | itself |
| `SyncProofs` | proofs about `SyncBarrier` and `SyncStreams`, which share no variable | tlapm |

The modules about the queue justify what those about the layers take for
granted: `CommsBundles` and `CommsV2` use a queue as one FIFO per producer with
a bound, `ConcurrentQueue` shows how a producer gets there with its free list as
a set, `FreeList` that the list behaves as a set, `ProducerHash` that a thread
has one producer. They are not composed in one specification: a step of
`FreeList` is one access to one word, and the product of the two would not be
checkable.

Definitions with a suffix, as `ReapRoom_OneShort`, are faulty variants of the
definition of that name. Each property is known to fail when the variant
listed for it in `PROJECT.json` replaces the definition. Some definitions are
there to be varied only: what they say (`TRUE`, an operator's body) is the code.

### CommsBundles

`held[a]` are the packets the application may submit, `batch` and `todo` what
remains of the loops of `submit_n` and `submit_flush`, `bundles` the arrays of
the accessor, `submitQ` the submit queue, `cargo[w]` the bundle writer `w`
works on, `reapQ` the reap queues. The loops are interleaved packet by packet
and end point by end point. The submit queue is one sequence per producer, as
`moodycamel::ConcurrentQueue` orders the elements of one producer only.
`header[p]` is the union of `submit.dst` and `reap.rc`. `deliveries[p][e]`, how
often peer `e` got a packet, and `lost` are history variables. A writer sends every
bundle through `end_points_[0]` (`comms_writer.cc:48`), here `Gateway`, whatever end
point it was filled for. `ShutdownRule`
says what the application waits for before `comms_shutdown`: nothing, the end
of its flushes, or all its packets. The two locals in which an application can
get an index wrong, a packet count larger than the array and a destination
without end point, are left out.

Where a packet is, is deliberately several sets and not one location: that a
packet is in one place is a property (`OnePlace`), and what the code would
break.

`PacketLedger` knows a status per packet only: accepted, pending, settled,
collected. It says that of all peers only that of the first end point gets
packets, that success is reported only of a packet it got, that it gets one at most
`RetryCount + 1` times for a submission, and that only settled packets return. It
does not say that a packet reaches the peer it was for, which the code does not do. `LedgerSpec` maps a packet that is neither with the
application nor in a reap queue to pending.

### CommsLifecycle

`pc[t]` is the control state of a thread, `asleep[t]` the condition variable it
is blocked on. All waits of this code are a test of a flag and one `wait`, so
`pc[t]` is already past the wait when `t` falls asleep. Test and wait are one
step, and so are the change of a flag and the notification, because both are
under the mutex. `wait_for_shutdown` keeps the mutex for the join; `Locked` is
what the thread that ends sees of it. The receiver's `CallData` objects are
counters. The first is made after the start was announced (`ReceiverRequests`), so
that a shutdown may be over before it. `met` records the faults so far: a port that cannot be bound, one
spurious wake-up. Between `comms_start` and `comms_shutdown` `main` may skip
`comms_wait_for_start`, as the interface allows.

### CommsV2

Packets are counted and not told apart, since what can go wrong here is a
matter of numbers: the driver reaps what there is and submits the whole array
again, so that packets it did not reap travel twice. `buffer` is the accessor's
packet buffer, `sent` the queue the driver fills, `back[p]` the part of the reap
queue that catch thread or writer `p` filled, `hands[p]` what `p` works on. One
of two configurations is run, `dst`: all packets for the local end point (catch
queue, catch thread) or all for another one (submit queue, writers). A queue
has a length and the offset of its head in a block, because the library counts
room in blocks: an implicit producer (the driver, the catch thread) has a block
index of fixed size, a producer token (the writers') the blocks of the pool,
here `PoolBlocks` for each. With the code's `IMPLICIT_INITIAL_INDEX_SIZE` of 256
and `BLOCK_SIZE` of 1024 an implicit producer holds 262144 packets, whatever
size the constructor of the queue was given (`1 << 21`).

`transmit_n` is called with the capacity of the writer's array and not with the
number of packets dequeued (`comms_writer.cc:54`); as payloads are left out this
does not show. Likewise the destination, overwritten by the result code in the
same word. The starts of the threads are one step each; waits, spurious
wake-ups and a `writers_` read while it grows are in `CommsLifecycle`, whose
code is the same. The driver's accessor buffer divides its array (1024 and
1024): nothing flushes a buffer that is not full, and with other numbers `Drain`
would wait for ever.

### CommsEarly

The two first versions have the same threads and queues, so they are one module
with two configurations. `main` is the thread that constructs the receivers and
senders, starts the driver's thread and waits on a condition variable; `driver`
the thread that reaps, submits and shuts down. A packet is the number of its
creation; `sendQ`, `reapQ`, `driver.array` and the batches of a sender
are sequences of packets. `SafeQueue`'s operations are one step each (they are
under a lock), the wait of `dequeue_n` ends after its millisecond. `Send`
and `Call` put the packets into the reap queue before the RPC. In `comms` nothing
depends on it but that it returns. In `comms_async` it returns when the sender finds
a completion in the queue of the first end point, which all senders share with one
tag: `calls[s]` counts the calls of `s` whose completion nobody has taken, and
`Complete` takes any.

Both versions start a thread in the constructor of the object it runs on, before
members declared later are initialised. `Construct` is the rest of a receiver's
constructor, which overwrites `server_` when the thread was faster; `flag`
begins as anything; in `comms_async` the thread of a sender clears its flag
itself. `mishap` records the five things after which the program may not end:
"server lost", "stop lost", "lost notify", "crash" (a null or deleted server used) and
"stolen", the completion of another's call taken, which too may be a crash, since
the sender's own call then writes to a context and a response that are gone.

### ConcurrentQueue

The library is modelled at the grain of its atomic accesses, for the calls the
two programs make: the `try_` functions, which never allocate. `q[p]` holds the
counters of a producer (`tailIndex`, `headIndex`, `dequeueOptimisticCount`,
`dequeueOvercommit`), the published slot of its block index and its ring;
`entry[p]` the block index, `blk[b]` the cells of a block and its count of
dequeued elements. `plan[p]` and `take[c]` are the enqueue and dequeue calls in
progress. A producer is implicit or explicit, by choice in `Init`; the writers
of `comms_v2` use the explicit code through a `ProducerToken`, everybody else the
implicit one.

Three loads at the beginning of a dequeue, which decide only how much it asks
for, are one step; so are an entry that is cleared and the block that goes to the free
list after it (`GiveUp`, `ImplicitUndo`), since no call looks for that entry's number
any more; a single enqueue is the bulk one with one element (the code
has both, doing the same). Memory is sequentially consistent and indices do not
wrap at 2^64. `Borrow` and `Restore` stand for all other producers of the queue.
Which producer a consumer turns to, by its token or by size, is a free choice.
`undone` is history: that an enqueue of an explicit producer failed halfway.
The destructors are operators over the state, `ExplicitDestroyed` and
`ImplicitDestroyed` being the elements they would destroy.

### FreeList

`word[n]` is `freeListRefs`, a reference count with the bit `Should`; `top` the
head, `loc[t]` the locals of a thread in `add` or `try_get`. Every access is a
step, arithmetic on the word wraps. The threads add nodes they own and take
others, without end. `Chain(n)` are the nodes reached from `n`, as the least set
that follows the links, and `Should` is larger than the references there can be
(`ListAssumption`; in the code it is 2^31).

### ProducerHash

`table` are the hash tables ever allocated, `mainHash` the newest, `next` and
`listTail` the list of producers that dequeues walk along. `call[t]` is a call of
`get_or_add_implicit_producer`. An id that is compared and swapped into a slot
is one step with the probe before it. In this build
`MOODYCAMEL_CPP11_THREAD_LOCAL_SUPPORTED` is not defined, so producers of ended
threads are not recycled. `Fail` is an allocation, of a table or of a
producer, that returns null. `NewCapacity` is the set with the smallest doubled
capacity that fits, `List` the least set of producers that follows `next` from the
tail.

### SyncBarrier

One process is an application thread (`main`) and the completion queue thread
(`watch`), with `state` shared. etcd is the list `log` of the events on the
keys, `keys` with the lease each belongs to, and the live `leases`. The steps
of a `Put` are the call, the application by etcd and the return, since watch
events may come in between. `Receive` is a response with any number of new
events; `HandleEvent` one turn of the loop of `watch_callback`. In
`global_state_change_check`, `BeginScan` and `CompareEntry` are `std::min_element`,
one step per entry of `state_`, `TakeMin` reads the entry found once more, and
`Publish`, alone under the mutex, stores it. `set_state` may write the process's own
entry between any two of them; the history variables `overtaken` and `doubtful` say
that it did so during a scan, and that the global state is from such a scan. The entries
are plain integers, so a build may also compare with a value read earlier; only an
overtaken scan could tell. `Watched` computes the watched range from the
decimal digits as etcd compares keys. A stopped process may start again and
then reads the events from revision 1 on, as `start_revision` asks; its old
lease expires later. A key is only written by one process, so `log` holds
states of this run and of earlier ones.

`faults`, chosen at first from `FaultSets`, says what may happen to which process:
`stop` (crash or destroy), `restart`, `expire` (the lease runs out
while the process lives), `rpc` (a Put fails before or after etcd applied it),
`break` (the watch stream fails and its last response is handled again and
again, because `run_completion_queue_` ignores `ok`).

### SyncStreams

`lstate` and `wstate` are the two `next_state_`, `ops` counts the outstanding
gRPC operations per kind. All operations of an object have the object as tag, so
`LeaseProceed(op)` and `WatchProceed(op)` take whatever operation completed and
do what `next_state_` says. The keep-alive is two steps (test, write), `revoke`
is test, wait, close. The alarm set by `cancel` is destroyed at the end of
`cancel`, which makes its tag come with `ok = false`; as `ok` is ignored this
is the same. Operations begun on a drained completion queue and exceptions on
its thread end the process (`aborted`).

## Runs

| run | instance | shows |
|---|---|---|
| `CommsBundlesSafety` | 2 accessors with 2 and 1 packets, 1 writer, 2 end points, bundles of 2, submit queue of 1, no retry; 1.1 M states | `TypeOK`, `Kept` (no packet vanishes, no array is overrun), `StaysHome`, `OnePlace`, `HeaderIsValid` (address or code as read, reap queue alive), refinement `LedgerSpec` |
| `CommsBundlesLiveness` | 1 accessor with 2 packets, 2 writers, 1 end point, 1 retry; 179 k states | `CallsReturn`, `DepositComesBack` |
| `CommsLifecycleRun` | 1 reader, 2 writers, 1 request, both faults; 88 k states | `Served`, `StopsInOrder`, `ReliedOnIsUp`, `StartReturns`, `ShutdownReturns` |
| `CommsLifecycleBind` | 1 reader, 1 writer, the port may be taken | violated: `StartAlwaysReturns` |
| `CommsV2Run` | 2 writers, 1 reader, arrays and blocks of 2, an index of 2 and 3 pool blocks, 1 retry, 14 packets; 192 k states | `Accounted`, `QuietShutdown`, `DriverEnds` |
| `CommsEarlyRun` | `comms` with 2 end points and 1 sender and with 1 and 2, `comms_async` with 1 and 2; arrays of 2; 171 k states | `OneOwner`, `ComesBack`, `EndsUnless` |
| `ConcurrentQueueRun` | 1 producer of either kind, 2 consumers, 3 blocks of 2 elements, calls for 1 and 3, 7 elements; 1.6 M states | `NeverOverdrawn`, `RightElement`, `OneOwner`, `Settles` |
| `FreeListRun` | 3 threads, 2 nodes; 216 k states | `OnlyOnce`, `NothingLost`, `LockFree` |
| `ProducerHashRun` | 3 threads, two of whose ids collide, tables from 2 slots on, 1 failed allocation; 327 k states | `OneProducerEach`, `FreeSlot`, `OnTheList`, `CallReturns` |
| `SyncBarrierRun` | 2 processes, states 0 and 1, one observer; either its stream breaks and the other stops, expires, fails, or it stops and starts again; 514 k states | `TypeOK`, `Truthful` (caches, acknowledged states), `BarrierHolds`, `EarlyOnlyOvertaken`, `WaitReturns` |
| `SyncBarrierTorn` | 2 processes, no fault | violated: `NeverTooEarly` |
| `SyncStreamsDestroy` | 3 responses with events; 2.7 k states | `Orderly`, `SafeToDelete`, `KeepAliveGoesOn`, `DestroyEnds` |

Bounds. *`CommsBundles`*: a submit queue of one bundle with three packets in
flight makes every deposit branch happen: success, refusal, a refusal that must
wait for the reap queue. Bundles of two can be empty, half full and full; two
accessors and two end points are the least in which packets can go to the wrong
one. A second writer matters to shutdown and to liveness and is in that run; the
number of writers does not matter to the properties proved, which hold for
any number. The reap queues hold as many packets as their accessor has, which is an
assumption on the application: a writer, as one implicit producer of the reap
queue, can have 262144 packets there (256 blocks of 1024). With less room packets
are lost, because the writers ignore the result of `try_enqueue`
(`comms_writer.cc:54`). Two packets of one
accessor are interchangeable (`Twins`), in a run without liveness properties.

*`CommsV2`*: fourteen packets through queues of four and six: the driver waits
for room, the movers wait for room, packets travel twice, and the head of a
queue is at either place of a block. *`CommsEarly`*: two packets per array and
at most three sent, so that a packet is used again; a second sender makes flags
and batches two, a second end point makes a sender's round two RPCs.
*`ConcurrentQueue`*: seven elements in blocks of two go once round a ring of
three and an index of two or four; an enqueue of three needs two blocks and so can
fail halfway; two consumers suffice for an overcommit, and `MaxOver` bounds how
many calls add to it. *`FreeList`*: two nodes and three threads have the
interleaving the list is built against, a node taken and put back while a third
thread holds its old successor. *`ProducerHash`*: three ids in a table of two
make it grow twice with threads left behind in an older table. *`SyncBarrier`*:
two processes are a barrier with a first and a last; a third adds no kind of
step. One observer suffices because observers share nothing. The breaking stream and
the restart are two sets of faults and not one, which would be too many states. *`SyncStreams`*:
three responses are enough for one before, one during and one after the
cancellation.

Deadlock. `CHECK_DEADLOCK FALSE` stands where the system may stop: processes
wait for a state nobody sets (`SyncBarrier*`), a receiver that could not bind its
port leaves the writers asleep (`CommsLifecycle*`), `sync_destroy` before the
watch was created hangs (`SyncStreams*`), the program has ended (`CommsV2Run`,
`CommsEarlyRun`) or the elements of the bound are used up (`ConcurrentQueueRun`).
`CommsBundles`, `FreeList` and `ProducerHash` are checked for deadlock.

Fairness. Weak fairness of every thread that is inside a call or a loop of the
library: the operating system schedules them and the code has no spin that
depends on another spin. The application need not call anything and never needs
to shut down. An RPC answers at some time (gRPC reports a failure), but
`TransmitError` may happen instead of `TransmitOk` for ever within the retry
bound. In `CommsV2` a bulk dequeue may find fewer elements than there are when
others dequeue too; that the writers together do not miss for ever is strong
fairness of their `Take`. In `CommsEarly` the main thread need not wake
spuriously. `FreeList` assumes only that some thread runs (`WF_vars(Next)`), as
lock-freedom asks; `ProducerHash` weak fairness of each thread in a call, since
a thread waits there for another one's table. In `SyncStreams` gRPC delivers
every tag, etcd confirms the creation and the cancellation of a watch, but need
not send events.

### What the violated properties show

`StartAlwaysReturns`: a receiver whose `BuildAndStart` returned null does not
notify `started_cv_`; `comms_wait_for_start` never returns (`grpc/comms_v2_bundles/main.cc:107` "Wait
until comms layer has started.").

`NeverTooEarly`: `global_state_change_check` scans `state_` with `std::min_element`
and dereferences the iterator at the end (`sync.cc:159`), without the mutex. Both
processes are at 0 and the scan has found the process's own entry to be smallest;
`set_state` raises it to 1 (`sync.cc:201`); the minimum read is 1, and
`sync_wait_for_global_state(1)` returns although the other process is at 0
(`etcd/synchronization/main.cc:55` "Wait for global state to reach state 3."). There
is no other way: `EarlyOnlyOvertaken`, which holds, excepts only a global state from
a scan that `set_state` overtook.

### Further observations

Seen while modelling. Each is outside what the properties of the passing runs
state: by a parameter of the run, by an exception in the property or by the
bounds.

- `comms_v2_bundles`: a writer finds the queue empty, the application deposits its
  last bundle and calls `comms_shutdown`, the writer then reads `shutting_down_`
  and ends (`comms_writer.cc:40`). The bundle is never sent, although the accessor
  was flushed as the error text at `comms.cc:312` asks (`DepositComesBack` ends at
  `closing`).
- The same: the benchmark submits its whole array again although it reaped only a
  part of it (`main.cc:181`); the rest of the array, an uninitialised local of the
  loop, travels too. The driver of `comms_v2` does the same, which `CommsV2` models
  with what the build leaves there: the packets of an earlier round.
- The same: a bundle for another end point than the first is deposited there and sent
  to the first one's peer all the same (`comms_writer.cc:48`), and success is
  reported of it (`PacketLedger` says of which peer). The benchmark uses end point 0
  only (`main.cc:135`, `main.cc:177`).
- The same: the receiver announces its start before it requests the first call
  (`comms_receiver.cc:37`, `comms_receiver.cc:42`). With a `comms_shutdown` in between the
  request comes on a completion queue that is shut down, which gRPC answers with an
  assertion: the program crashes without any fault before (`Served` is about the time
  after the first request).
- The same: after a spurious wake-up `wait_for_shutdown` joins a thread with the
  mutex locked that the thread needs (`ShutdownReturns` excludes it by `met`).
- Barrier: `watch_callback` also writes the process's own entry of `state_`
  (`sync.cc:176`). A late event sets it back, and `sync_set_state` accepts a state
  below the published one (`sync.cc:279`); `AppRule` is "increasing" in the runs.
- Barrier with eleven processes: the end of the watched range, key `prefix11`, is
  before `prefix2` in string order (`sync.cc:98`), so `CaughtUp`, the first part of
  `Truthful`, does not hold of the others.
- Barrier: a restarted process may get 0 from `sync_set_state` for a state that
  only its earlier run published (`AckedIsStored` is about the first run).
- Lease: a keep-alive write that races with `revoke` completes in the state that
  waits for `WritesDone` (`Lease.cc:85` against `Lease.cc:72`).
- `sync_destroy` before the watch was confirmed hangs (`Watch.cc:87`).
- Queue: a dequeue that came in vain has raised `dequeueOptimisticCount` before it
  raises `dequeueOvercommit` to match (`concurrentqueue.h:2030`); between the two
  another dequeue finds nothing although an element has arrived. The callers all
  try again.
- Queue: after a bulk enqueue of an explicit producer failed halfway, which
  needs a writer's array larger than a block and an empty pool,
  `pr_blockIndexSlotsUsed` does not count the blocks it left in the ring
  (`concurrentqueue.h:1775`); the destructor then looks for the half-dequeued
  block from the wrong entry. `Settles` excepts it by `undone`.
- `comms`: the barrier on `server_built_` that `Receiver.cc:46` speaks of does not
  help when the constructor overwrites `server_` after the thread built it
  (`EndsUnless` excepts it as "server lost").
- `comms_async`: with two senders, one takes the completion of the other's call and
  destroys the context of its own while that goes on (`comms_async/EndPoint.cc:80`;
  `EndsUnless` excepts it as "stolen").

## Proofs

Every theorem below holds for all values of the constants that satisfy the
module's assumption, which bound nothing but what must be finite or positive. A
few need one thing more, which is a hypothesis of the theorem and named here. Each
proof is an inductive invariant, checked by TLC on the instance of the run before
it was proved, with a lemma per action.

`CommsBundlesProofs` (any packets, accessors, writers, sizes, retries).
`IInv` is `TypeOK`, `OnePlace` and `StaysHome` with two facts more: a bundle in
the submit queue carries the reap queue of its producer (`Stamped`: without it
`HandBack` could return a packet to a wrong accessor), and the packets of a
batch have an end point as header (`Addressed`: without it `AddPacket` could
index `bundles` with a result code). `PathInv` adds how full a bundle may be
between two calls (`Bundled`: the test for equality at `comms_accessor.cc:52`
is enough because a full bundle is flushed or its packet refused at once), that a
writer without bundle holds nothing and none works after the shutdown
(`Quitting`), and how deliveries and retries of a packet count up (`Counted`).
From these follow `NoOverrun`, `HeaderIsValid`, and, if each reap queue has
room for all packets of its accessor (`Roomy`; without it packets are lost, see
Bounds), `Kept`. `ImplementsLedger` is the refinement of `PacketLedger`: the
status of a packet is a function of where it is (`Status`), and each action is a
step of the ledger or changes no status.

`CommsLifecycleProofs` (any number of readers, writers and requests, both
faults): `Served`, `StopsInOrder`, `ReliedOnIsUp`. `StartInv` and `StopInv` say
how far `comms_start` and `comms_shutdown` got in their lists of threads, `CallInv`
counts the `CallData` objects, from none before the first request on, `WakeInv` says that who was woken finds the flag
set. `ReliedOnIsUp` needs a writer (`NWriters > 0`): it is the writers who wait
for the receiver. `writer_thread_count` comes from an `atoi` (`comms.cc:221`); with
0 of them nobody waits for the server, and `comms_shutdown` may call it before
it is built.

`SyncProofs`, the barrier (any universe, restarts and faults). `EarlyOnlyOvertaken`: the
log of etcd only grows, so what a process published once stays published; `IInv`
says that the cached states, the minimum taken and the global state of every
process, and the argument of a Put that etcd has applied, are backed by an event
of each process they speak of (`BackedOK`). During a scan so is the entry found
smallest so far, for every process the scan has passed: `CompareEntry` keeps that,
and `TakeMin` reads the entry at the end. A `set_state` in between raises the own
entry and breaks it for the others but not for the process itself (`Vouched`), which
is why the property still says something of an overtaken scan. The loop of
`wait_for_global_state` only leaves when the global state is high enough. `CaughtUp`, `Truthful` and `BarrierHolds`
need the other direction, `ExactInv`: a key has the value of its last event, a
cached state that of the last event handled. `CaughtUp` and `Truthful` assume
that the watched range is the universe (`Watched = Ids`), which the order of
strings grants for 1 to 9, 90 to 99, 990 to 999 processes and not for others (see
Further observations); `Truthful` and `BarrierHolds` that the application only
asks for more (`AppRule = "increasing"`), as `CaughtUp` and `EarlyOnlyOvertaken` do not.

`SyncProofs`, the streams (any number of responses): `Orderly`, `SafeToDelete`. The
invariant says for each state which operations of a stream are outstanding,
with the two exceptions that make the proof: a `keep_alive` past its test when
`revoke` runs, and the alarm and the outstanding read of which exactly one
begins the cancel request.

`FreeListProofs` (any nodes and threads): `OnlyOnce` and `NothingLost`. The
invariant says where a node is and what its word is there (`Counts`): owned, it
counts the threads that refer to it; listed or on its way on or off, one more;
otherwise the bit is set and somebody who refers to it will put it on the list.
Therefore a node referred to is not linked again, and the successor a thread
read before its exchange of the head is still the successor (`Links`), which
answers the ABA problem.

`ProducerHashProofs` (any threads, hash function, sizes, failed allocations):
`OneProducerEach`, `FreeSlot`, `OnTheList`. `ProbeInv` says that an id is behind
taken slots only; `CallInv` what a search has excluded so far. `FullInv` is the
reason for a free slot: of the calls counted up to a number m, together with the
ids a table has or will get, there are at most m, or they fit under the table's
limit, for every m at once.

`ConcurrentQueueProofs` (any producers of either kind, consumers, blocks, sizes
and counts): `NeverOverdrawn`, `OneOwner`, `RightElement`, `Settles`, and that the
counts agree again when no dequeue runs, whatever enqueues do (`CountsAgree`). What
calls have claimed and not yet given back or advanced the head by is a sum over
consumers (`Balance`). What they will get of it depends on the tail each reads
later, so `Cover` bounds the sum of it for every tail that may come; with a claim
it holds because the overcommit the call loaded is not larger than it is
(`Snapshot`) and nobody gets more than it claimed.

`OneOwner` needs to know where every block is, `BlockInv`. The block with number
`n` of a producer holds its indices from `n * BLOCK_SIZE` on, and its entry is in
slot `n` modulo the size of the index, from whatever slot and key a call finds it
(`Good`). `Rem(p, n)` are the indices of that block still to be dequeued: those
from the head on, and those a call claimed and has not counted yet, which are
disjoint for different calls (`Apart`). A block with such indices is in its entry,
in its place in the ring of an explicit producer, and counts all the others as
dequeued (`Live`). So the call that counts the last one is alone with it, and the
block an explicit producer finds counted full ahead of the tail is nobody's any
more. For the enqueue under way `Building` says what it got so far, where it is
and what a failure will undo, `Room` that the next slot of the index is free or
holds a block that is done with. That the index is large enough for every block
comes from the assumption `PowerOfTwo`, a fact of arithmetic that takes an
induction.

`RightElement` rests on `BlockInv` and on `CellInv`: an element that the tail shows
and that no call has moved out yet (`Waiting`) is in the cell of its index, and no
cell has another (`Holds`). A fill
writes the cells of the new indices only, because two blocks with elements to come
or just got are different blocks (`HeldApart`), and two indices of one block have
different cells. An entry that is written meanwhile belongs to a number behind the
tail block (`EntryKept`), so a call still finds the block it looks for.

`Settles` adds that nothing is lost, `KeepInv`. Every block has an owner (`Owned`).
An entry of an implicit producer with a block is of a number in use or just got,
in its slot (`ImplicitKept`), so that the destructor, which goes through the
numbers from the head's to the tail's, meets them all. In the ring of an explicit
producer a block behind the tail block is in use or counted empty, those got by an
enqueue under way are counted empty until all are there (`OnlyUsed`), and as long
as no enqueue failed halfway the producer counts as used the blocks it has, whose
entries precede the tail's one by one (`InOrder`), so that the destructor finds the
half-dequeued block (`HalfFound`). With no call running (`AtRest`) the elements
left are those from head to tail (`LeftAtRest`) and the destructors find these.

`CommsV2Proofs` (any threads, sizes, retries): `QuietShutdown` and `Accounted`.
Sums over threads are the cardinality of a set of units (`Total`), so that the
library's facts about finite sets say what a sum of two functions is
(`TotalSum`). `Balance` is the first half of `Accounted`, every submission being
reaped or somewhere, and gives `QuietShutdown`, since `Drained` is all that the
driver waits for (`Emptied`). The second half, how much can travel, has `BoundInv`:
what an array still has to submit is counted with what travels, and at a submission
of packets that were not all reaped the reap queue is empty, so that only what
`Fits` the driver's queue and what the movers hold is on its way. It needs
`Configured`, as the driver is: the buffer divides the array, without which packets
stay in the buffer from one array to the next, and the arrays submitted at first
fit the queue (256 times 1024, as many as 256 blocks of 1024 hold).

`CommsEarlyProofs` (any configurations of both versions, batch sizes and numbers of
packets): `OneOwner`. The places are a family of lists, of which a step changes one,
two or a sender's batches; `Transfer` says that only those need be looked at. `Take`
is the step with an algorithm in it: that `Fill`, which puts one packet after the
other into a batch, sorts the list (`BatchesSort`) is shown by the least n for which
the first n packets are not sorted, as an induction theorem could not be applied.
It needs that the batches begin empty, and `Send` that a sender of `comms_async`,
which sends the first batch only, has filled no other (`BatchInv`). For what is freed
at the end, `JoinInv` says that a thread the driver has passed in its list has
ended, and `DriverInv` that the driver runs, without a packet, only after main has
started all threads.

Model-checked only. The properties under fairness and the lock-freedom of
`FreeList`, which are temporal and out of the prover's reach. Every invariant of a
passing run is a theorem.

## Not modelled

- `comms_catch` and `comms_release` of `comms_v2_bundles`: nothing reaches the
  catch queue in this build (`COMMS_SHORT_CIRCUIT` is 0). Those of `comms_v2` are
  in `CommsV2`.
- The timeouts of `comms_wait_for_start`. Payloads, lanes, arenas, logging, the
  reading of configuration. `sync_get_state`, which only reads.
- Of the queue: calls that allocate, moving and swapping queues, consumer tokens
  and the choice of a producer, recycling of producers (not compiled in), weak
  memory orders.
- The discovery service, saiteki, `server_pool`, `rabbitmq-fuse` and
  `work_distribution`: they have state and concurrency worth a model each; the
  C++ layers and the queue they rest on came first.
- `etcd/libetcd`: wrappers around one RPC each, whose watch stream has no
  implementation. Tutorials and the other playgrounds: linear scripts. Generated
  code.

## Plan

Modules: the discovery service (cache, expiry timers and etcd under asyncio
interleavings; abstractly, a registry in which a live service stays
registered), the saiteki client (permits), `rabbitmq-fuse` (table and
confirms), the server pool and work distribution.
