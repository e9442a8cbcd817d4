# A verification of the concurrent core of acl

`acl` is a C and C++ library for network servers. Its own concurrent core has
three parts: `lib_fiber`, cooperative fibers with their locks, semaphores,
channels, timers and descriptors inside one thread; the primitives of `lib_acl`
by which threads talk to each other, a mailbox, a queue and a pool of workers;
and the master process, which forks the server processes and shares a listen
socket with them. This directory holds TLA+ models of that core, the TLC
configurations that check them on small instances, and proofs of their main
properties for every instance.

`PROJECT.json` lists the components, the runs, the source lines of every
definition, the findings, the hazards and the theorems.

## 1. Inventory

| Component | State | Operations | Hard behaviour | What makes it correct |
|---|---|---|---|---|
| Intrusive ring, `acl_ring.c` | links, parent, length in each node | init, append, prepend, detach, pop | one node per object, so one ring at a time; detach of a detached node | both directions agree, the length counts the members |
| Fiber scheduler, `fiber.c` | ready and dead rings, table of fibers, running fiber; per fiber status, flag, signum, slot, link | create, yield, ready, switch, signal/kill, exit, schedule | every fiber in every queue through one node; blocks reused after death; a kill reaches into any ring | rings well formed, FIFO run queue, table exact, no starvation |
| Fiber mutex, `fiber_lock.c` | owner, waiting ring | lock, trylock, unlock | hand-over before the waiter runs; kill while waiting | exclusion, first come first served, nobody waits for a free lock |
| Fiber read/write lock, `fiber_lock.c` | readers, writer, two waiting rings | (try)rlock, (try)wlock, runlock, wunlock | hand-over to many readers | exclusion, counts match the holders |
| Fiber semaphore, `fiber_sem.c` | num, tid, waiting ring | wait, trywait, post, set_tid | a unit given to a waiter bypasses the counter | units conserved, nobody waits while a unit is free |
| Channel, `channel.c` | ring buffer, queued sends and receives | send, recv and their `_nb` forms | rendezvous through the stack of a suspended fiber | FIFO, exactly once, nobody blocked needlessly |
| Mailbox, `acl_mbox.c` on `acl_ypipe.c` | lock-free pipe, lock, socket pair | send, read with timeout | sleep/wake decided by one compare and swap; stale wake bytes after a timeout | no lost wake-up, FIFO, bounded bytes |
| Queue chunks, `acl_yqueue.c` | chunks, the spare chunk | push, pop | spare chunk swapped between threads | no slot lost or shared |
| Fiber IO and timers, `fiber_io.c`, `event.c`, `event_epoll.c` | timer ring, io_count, nsleeping, event table | wait_read, wait_write, delay, timers, io loop | kill during a wait, deferred deletion, truncated clock | whoever waits is woken once |
| Fiber locals, `fiber.c` | keys, values, destructors | set/get specific | values of a reused fiber | destructors run once |
| Hooks, `hook_io.c`, `hook_net.c` | table of original functions | read, write, accept, connect, poll, epoll | timeouts of poll and epoll | return values of the system calls |
| Thread queue, `acl_aqueue.c` | list, quit flag | push, timed pop, set_quit, free | quit flag outside the lock, free under poppers | no lost item, quit is noticed |
| Thread pool, `acl_pthread_pool.c` | job queue, workers, counts | add, worker loop, stop | idle timeout against delivery | every job runs once |
| Master, `master/framework` | per service: available, total, throttled | spawn, reap, status, listen | children die at any time | listens exactly when somebody may serve |
| Connection pool of `lib_acl_cpp` | connections, count, alive flag | peek, put, check idle | destruction while connections are out | the count is exact |
| The rest | containers, parsers, protocol clients, templates, applications | | sequential, or wrappers of system calls | |

How they interact: every queue of `lib_fiber` (ready, dead, waiting rings of
mutexes, rwlocks and semaphores, timers) is a ring over the one node
`ACL_FIBER.me`. Locks, semaphores and channels suspend the running fiber by
queueing it and calling `acl_fiber_switch`, and resume another by
`acl_fiber_ready`; `acl_fiber_signal` takes a fiber out of whatever it waits
in. The IO loop is itself a fiber: it yields to everybody else, polls when
nobody can run, and makes ready the fibers whose descriptor or time has come.
Threads share none of this; they exchange messages through the mailbox or the
thread queue, or hand jobs to a pool. The master and its children are
processes: the master hears from a child through a pipe of status messages and
through its death, a child hears from the master when the pipe is gone, and
both watch the same listen socket.

## 2. Modules

| Module | What it is |
|---|---|
| `QueueOps` | removal from the middle of a queue, which the abstract queues share |
| `AclRing` | the ring as operators on a ring memory (links, parents, lengths), aliasing included |
| `FiberSched` | the scheduler of one thread; the base of all fiber modules |
| `FiberRunQueue` | abstract: one FIFO queue of fibers that can run |
| `FiberMutex` | the mutex, composed with the scheduler |
| `FifoLocks` | abstract: locks with a hand-over to the longest waiter |
| `FiberSem`, `FiberChannel`, `FiberRwlock` | semaphore, channel, read/write lock, each composed with the scheduler |
| `FiberIO` | waiting for descriptors and for time: event table, sleepers, timers and the polling fiber, composed with the scheduler |
| `AclMbox` | mailbox, pipe and wake bytes, senders and reader interleaved |
| `AclAqueue` | thread queue: list, mutex, condition variable, any number of threads |
| `Mailbox` | abstract: one queue of messages; both of them implement it |
| `AclPthreadPool` | the thread pool: workers, clients, idle list, job queue |
| `JobBag` | abstract: jobs that each run once, a limited number at a time |
| `MasterServ` | one service of the master with its children, pipe and listen socket |
| `MC*` | small instances for TLC |
| `FiberSched_proofs`, `FiberMutex_proofs`, `AclMbox_proofs`, `AclAqueue_proofs`, `AclPthreadPool_proofs`, `MasterServ_proofs` | the theorems about the module of that name |
| `FiberSync_proofs` | the theorems about `FiberSem`, `FiberChannel`, `FiberRwlock` and `FiberIO` |
| `Iteration` | the lemmas on loops they share |

### How the state and the actions correspond to the code

*Fibers.* A fiber is named by its `ACL_FIBER` block. `ring` is the memory of
all ring nodes: one per block and one per ring head. `status` tells free
memory, living fibers (the code stores one status for all of them, even the
running one) and ended ones. `running` is `__thread_fiber->running`, with
`Original` for the NULL it holds while the context that called
`acl_fiber_schedule` executes. `fibers` and `slot` are the table.

Scheduling is cooperative, so an action is the code that runs from one context
switch to the next: `acl_fiber_yield`, `Suspend` (a bare `acl_fiber_switch`),
`WaitIn` (queue in a waiting ring, then switch), `acl_fiber_signal`,
`fiber_exit` with the part of `fiber_swap` that an ended fiber goes through.
The operators `acl_fiber_ready` and `acl_fiber_switch` are called by all of
them on the memory as it has been changed so far, in the order of the C
statements. `acl_fiber_schedule` is a loop, so it is four actions.

*Locks and semaphores.* They are named by the head of their waiting ring. A
function that blocks is two actions: up to the switch, and from the return of
the switch on (`LockReturn`, `WaitReturn`, `ChanReturn`). Between the two the
fiber may be resumed by its waker or by a signal, and the model, like the code,
does not know which. What the callers believe (`held`, `units`, `has`) is part
of the model; they unlock and post only what they believe to have, and end
only when they have nothing. `Checks` selects callers that test
`acl_fiber_killed` after a blocking call, as `samples/fiber_kill` does.

*Channel.* The alts of blocked operations are sets of fibers, as the peer is
drawn with `rand()`. Messages are numbers in the order of their send calls.

*Read/write lock.* The model has the detaches of the code, which act on the
head of the ring (section 5). Past the point where `FIRST_FIBER` would return
a ring head, which C takes for a fiber, there is no step.

*Fiber IO.* `ev` is the `EVENT`: masks, contexts, the arrays of deferred
deletions with the pointers into them (`defers`, `place`), and what epoll has
been told (`kernel`). `inside` says what a fiber waits for. A wait is again two
actions, `fiber_wait` or `acl_fiber_delay` up to the switch, and `IoWaitReturn`.
The polling fiber `Io` is one of the fibers; its callbacks run on its stack and
only link fibers, so a whole pass of `fiber_io_loop` from one yield to the next
is the action `IoPass`: carry out the deferred deletions, poll, let any set of
watched events fire in any order epoll allows, wake at most one sleeper. A
deadline is the time left to it, which `Tick` and `IoPass` let go by; the code
only compares deadlines. `Careful` selects programs that do not signal a fiber
that waits for a descriptor, do not wait twice for one direction, do not close
under a waiter and do not reset a timer that sleeps.

*Mailbox.* Here threads run in parallel. A sender's steps are: write under the
lock, compare and swap, set the shared end, load and store `nsend`, write the
byte. A reader's: the test for prefetched messages, the compare and swap, the
wait for a byte or the timeout, and both tests again. `slot` is the queue under
the pipe; its chunks are not modelled, an unwritten slot is NULL because the
code clears chunks.

*Thread queue.* What a thread does between taking the mutex and giving it back,
or waiting, is one action (`Take`, `PopQuits`, `Block`, `acl_aqueue_push`).
Steps of their own are what the code does outside: the reset of the error field
on entry, the signal of a push, the error a pop stores after its timeout, the
quit flag. The items are blocks of memory with their links; `Chain` follows
them.

*Thread pool.* The same grain. `pc` of a worker says where it is: not there,
starting, at the top of its loop, running a job, waiting, and awake from the
wait without the mutex yet (signalled or timed out). `cpc` does that for a
client. `own` is the one job a worker was given, `thr_first`, `nxt` and `prv`
the list of idle workers, whose links a worker keeps when it leaves, as in the
code. A batch holds the mutex (`lock`) over several calls. `may` is the
circumstances of a run: idle timeouts, batches, threads that cannot be
created, `worker_init_fn` that fails.

*Master.* The master is one thread with an event loop, so a handler is an
action: start, an event on the listen socket, a status message, `SIGCHLD`, the
throttle timer, a reload, the removal of the service. `m` is all the handlers
work on (flags, counts, the table of children, whether the listen socket is
watched), and the functions they call are operators from `m` to `m`, in the
nesting of the code; `luck` says how many forks still succeed in the handler.
`os` is what really goes on: each process accepts, says so, serves, says so
again (`acl_single_server.c`), may end or crash anywhere, and loses the master
at a reload. `pipe` holds messages nobody has read; the dead's stay in it.

## 3. Runs

| Run | Asks | Instance |
|---|---|---|
| `MCFiberSched` | Do rings, table and cache stay consistent; is it a FIFO run queue; does every ready fiber run | 3 blocks, a waiting ring, kills, a cache of 1 |
| `MCFiberMutex` | Ownership, hand-over, FIFO, everybody served | 3 fibers, 1 lock, kills, callers that check |
| `MCFiberSem` | Units conserved, no idle unit, nobody stranded, a waiter gets a unit | 3 fibers, 1 unit posted by somebody who held none, kills, callers that check |
| `MCFiberChannel` | FIFO, exactly once, nobody blocked needlessly | 3 fibers, buffers of 0, 1 and 2, 5 messages |
| `MCFiberRwlockTry` | Exclusion with the try functions | 3 fibers |
| `MCFiberIO` | Does the event table watch what fibers wait for; who wakes when; does every wait end | the polling fiber and 2 others, 2 sockets, sleeps of 1 and 2, timers |
| `MCAclMbox` | Wake-ups, bytes, order, everything received | 2 senders, 7 messages |
| `MCAclAqueue` | Wake-ups, order, timed pops return | 2 threads pop, 2 push, 3 items, 2 messages |
| `MCAclPthreadPool` | The idle list, no job left, each job once, stop and destroy | 3 workers, 2 clients, 3 jobs; with idle timeouts, with batches, with threads that cannot be created, with failing `worker_init_fn` |
| `MCMasterServ` | Counts, listening, gossip, every connection accepted | 4 pids, 3 configurations, 2 connections, 2 deaths, 1 failed fork, 1 reload |
| `MCFiberRwlockExcl`, `MCMasterServPreforks` | the findings 1 and 2 of section 5: each is violated | as above |

Why the bounds are enough. Three fibers are a running one and a queue of two,
or a holder and two waiters: the first size at which an order can be wrong, a
third party can interfere with a hand-over, and an entry can be taken from the
middle of a ring. A cache limit of 1 is reached, exceeded by the one block the
code allows, and reduced. Five messages let a buffer of two wrap twice, with a
blocked sender or receiver at either point. Two sockets let the last deferred
deletion move into the place of another, and sleeps of two lengths let a later
sleeper wake first. Seven messages with two senders let more bytes accumulate
than `BytesBounded` allows, if the code let them; one message value is enough,
as the order is in the slot numbers and `MboxImplementsMailbox` is proved for
any set of messages. With two threads on each side of the thread queue a signal
can be overtaken by another pop; items are reused. Three workers are the first
size at which a worker leaves the idle list from its middle, and two clients
let a delivery, a batch and a stop overlap. Two children and a spare let a
service reach its limit while one dies; four pids let a pid be used again while
a message of its first owner is in the pipe.

`MaxFresh` bounds the units posted by contexts that have none, `MaxMsgs` and
`MaxJobs` messages and jobs, `MaxDelay` sleeps, `MaxConns`, `MaxDeaths`,
`MaxForkFails` and `MaxRestarts` what happens to a service; `MaxWaits` and
`MaxReaders` are where counters saturate on which nothing depends in the
passing runs. Symmetry over fibers and locks is used only in runs without
liveness properties.

Deadlock is checked in the runs of the fiber modules. Elsewhere the instance
may end where the program would go on: readers, poppers and workers wait for
messages and jobs the bounds do not allow any more, and a queue that was freed,
a pool that was destroyed and a service that was removed do nothing.

The runs of the channel and of the read/write lock have no signals. Elsewhere
what a signal may do is not excluded from the runs but from the claims: in
`MCFiberMutex` the property `WaiterServed` speaks of the behaviours in which
`Unsignalled` holds throughout, and `UnitsConserved` names the steps that may
change the balance. `ReadyRuns` excuses only behaviours in which signals never
stop: a signal puts its target and its sender in front.

The type invariants are not among the listed properties: they are proved, each
as part of the inductive invariant of its module (section 4); of the read/write
lock and of fiber IO, for the clients and the variables the theorems are about.

Further configurations belong to no listed run. `MCFiberSemUnits` is the
semaphore with three units; it holds. The others each show a step the code
takes and a claim of its documentation, and are violated: `MCFiberSchedSignum`,
`MCFiberMutexTrust`, `MCFiberChannelKill`, `MCFiberIOSignal`, `MCFiberIOReset`,
`MCAclMboxMixed`, `MCAclAqueueQuit`, `MCAclPthreadPoolInit`,
`MCMasterServRemoved` (section 5, findings 3 to 11).

### Fairness

* `FairSpec` of `FiberSched` is weak fairness of the whole next-state relation:
  the thread runs. It is enough because the ready ring is FIFO; fibers that
  compute for ever without yielding are outside cooperative scheduling.
* `MutexFairSpec` adds strong fairness of unlocking for each fiber and lock,
  and of waking suspended fibers: a holder that runs again and again unlocks.
  No lock keeps a promise without that of its users. Nothing is assumed of
  `LockReturn` or of the hand-over, which are the code's part.
* `SemFairSpec` assumes that no context keeps the thread for ever (posts and
  trywaits do not switch), that holders give back, and that the semaphore comes
  back to its thread.
* `IoFairSpec`: the thread runs, no fiber of the program keeps it for ever, and
  time goes by in epoll. For a descriptor it assumes that what is watched again
  and again becomes ready some time: no wait without a timeout promises more.
  `epoll_wait` returns by itself, as `event_process` never gives it an infinite
  timeout, so passes in which nothing fires are fair too. `WaitersWoken` is
  stated for programs that let the loop poll again and again (`[]<>Idle`).
* `FairSpec` of `AclMbox`: the system schedules the reader and any sender that
  is inside `acl_mbox_send`, and the reader keeps calling. No sender has to
  start another send.
* `FairSpec` of `AclAqueue`: threads inside a call are scheduled, and a deadline
  is reached even by a thread that is woken again and again: strong fairness of
  `Expire`. Nobody has to push or pop, and spurious wake-ups are not assumed.
* `FairSpec` of `AclPthreadPool`: workers, and clients inside a call, are
  scheduled, and jobs return. Nothing is assumed of timeouts or of spurious
  wake-ups.
* `FairSpec` of `MasterServ`: the event loop gets to every kind of event, and
  children are scheduled. Deaths, failures and reloads need not happen.

Each passing property has a mutant in `PROJECT.json`: a plausible error in a
definition of the model that makes TLC find the property violated.

## 4. Proofs

All proofs are for every value of the constants: any number of fibers, locks,
signals, threads, messages, workers, jobs, any cache limit. Assumptions on
constants are named in the modules that declare them: heads are distinct from
fibers and from each other, NULL is no fiber, fatal signals are signals, sets of
threads are finite, there are at least `parallelism` blocks for workers.

*Scheduler* (`FiberSched_proofs`). The inductive invariant `IInv` is `TypeOK`,
`RingsWellFormed`, `RingsMatchStatus` and `TableExact` together. None is
inductive alone: that an insertion keeps the links right needs that the node
is not linked, which is known of the running fiber from `RingsMatchStatus`;
that a popped entry is a living fiber needs the links; that the table stays
exact when its last entry moves needs to know who is alive. Lemmas on each ring
operation say what it preserves for a detached node. From it follow
`TypeCorrect`, `RingsSafe`, `RingsStatusSafe` and `TableSafe`.

`IInv` does not say that the links of a ring are one cycle: two cycles whose
nodes have the same parent satisfy it. `QInv` does: for each ring there is a
sequence, without repetition, of exactly the nodes that have it as parent, and
the links follow it (`Order`). Such a sequence is the only one, and it is what
walking the ring yields (`OrderIsWalk`). A lemma for each ring operation says
what it does to the sequence: append puts at the end, prepend in front, a pop
takes the head, a detach takes the node out and closes the gap. Hence
`RingsCompleteSafe`, and `RunQueueRefined`: with `fiberPhase` and the walk of
the ready ring as the abstract variables, each step of the scheduler is one of
`FiberRunQueue`.

*Mutex* (`FiberMutex_proofs`). `MutexImplementsSched` shows each step to be a
scheduler step or a stutter, which brings `IInv` along. `OwnInv` adds that only
waiting fibers are in the ring of a lock, and that a waiter found outside the
ring owns the lock or was killed. Then `OwnershipSafe`: if nobody is signalled,
or all signals are fatal and callers check, whoever a lock call returned to is
the owner; `MutexSafe`: hence no two fibers hold a lock. `NoLostWaiterSafe`
needs no such condition, and neither does `FifoLocksRefined`, in which the
abstract queue of a lock is the walk of its ring; that an unlock hands over to
the head of that queue, and that a signal may take a waiter from its middle,
comes from `QInv`.

*Semaphore* (`FiberSync_proofs`). `SemImplementsSched` as for the mutex;
`NoIdleUnitSafe` and `NobodyStrandedSafe` hold with or without signals. The
second needs `LeftEmpty`: the waiting ring of a semaphore that belongs to
another thread is empty.

*Channel* (`FiberSync_proofs`). `ChanInv` says where every message is: those
sent are those taken followed by the content of the ring buffer, read from its
offset (`InOrder`); the messages of blocked senders are numbered later than all
of them and differ from each other (`Numbered`); each alt in the channel is that
of a living fiber suspended in the call, and each fiber suspended in a call has
its alt there unless it was served (`Arrays`, `DeliveredOnce`). From it follow
`FifoDeliverySafe`, `NobodyBlockedSafe`, `QueuedSuspendedSafe` and
`DeliveredOnceSafe`. They are about behaviours in which `Unsignalled` holds
throughout, as are the runs: a fiber that is killed or signalled in
`channel_alt` leaves its alt in the channel (finding 5), and nothing can be
promised after that.

*Read/write lock* (`FiberSync_proofs`). `RwExclusionSafe` is about clients that
only try, as with others the property is false (finding 1). `RwInv` says that
`writer` is the fiber that has the lock for writing, `readers` the number of
those that have it for reading, and that nobody waits, so that the detaches of
the unlocks are never reached.

*Fiber IO* (`FiberSync_proofs`). `EvInv` is about the event table alone and holds
for any program: the arrays of deferred deletions and the pointers into them are
inverse to each other (`Paired`), what is deferred is in the mask, and epoll
knows the masks. The step that needs it is the move of the last entry into the
gap: that entry's pointer must be the one changed, which it is as no descriptor
is in an array twice. This is `DefersSafe`. `IoInv` joins it with `IInv`, and
says of each event that is registered and not to be deleted that it belongs to
the fiber suspended in the wait for it, and conversely (`Matched`, `Owned`).
The pass of the loop depends on this: a callback may call `acl_fiber_ready` only
on a living fiber that is in no ring, and one pass does so for any number of
events in any order; since each event has a fiber of its own, those still to be
made ready stay outside the rings while others are linked. `WatchedSafe` is for
careful programs, which the code needs: finding 6 is what happens otherwise.

*Mailbox* (`AclMbox_proofs`). `PipeInv` orders the indices, says which slots
are written and who has the lock; `MInv` adds `Awakened`: when the reader is
about to wait and the shared end is not NULL, a byte is there or coming. From it
`WakeupSafe`. `FInv` counts sleeps against bytes for a reader that has never
used a timeout: `ForeverSafe`, which says that such a reader gets a message from
every call. `BytesSafe` bounds the bytes of a reader that does use timeouts.
What is bounded is `Due`: the bytes in the socket, one for each sender that is
about to write one, and one more while the reader is marked asleep. It is at
most one more than there are senders, and one more again while the reader waits:
a reader that goes to sleep raises it by one, but then either takes a byte or
finds none, and if none is there only senders still to write count.
`MboxImplementsMailbox` maps a flush to a put, taking the front to a take, a
NULL result to giving up, and every other step to a stutter.

*Loops* (`Iteration`). The models write a loop of the code as a function on
`0 .. n`, each value computed from the one before. Neither the existence of
such a function nor what holds of all its values follows without induction, and
the library's induction rule cannot be used with these provers. Both are
derived instead from the well-foundedness of the natural numbers, by taking the
least index at which the claim fails: `LeastElement`, `HoldsThroughout`,
`AgreeThroughout` and `Repeats`. They carry the walks of rings and lists, the
callbacks of one pass of the IO loop, the removal of a worker from the idle list
and the loop of `master_prefork`.

*Thread queue* (`AclAqueue_proofs`). `AInv` says that the list from `first` has
`qlen` items, all different, none cleared, ends at `last`, and that `last` is
NULL when it is empty; `Iteration` gives the list its meaning. `ListSafe` is its
invariance. `WakeupSafe` adds that the items never outnumber those who will
come for them, as long as somebody sleeps: a push adds one of each, a pop that
takes an item is one of those that come, a signal passes its role on to the one
it wakes, and a thread goes to sleep only before an empty list. Then
`AqueueImplementsMailbox`: a push puts at the end of the list, `Take` takes its
head.

*Thread pool* (`AclPthreadPool_proofs`). `PInv` has seven parts. `CallsFit`:
the calls under way never exceed `MaxJobs`, so a job gets a new number.
`CountExact`: `count` is the number of threads that exist, hence at most
`parallelism`. `RunningRun`: exactly the workers inside `worker_run` have a
running job. `OnePlace`: a job is in one place and in one only, of the queue, a
worker's own, a worker's running, and those that ended; and only jobs that were
added are anywhere. `OneStops` and `LockInBatch` say who may stop the pool and
who holds the mutex. None is inductive without the others: that a job taken from
the queue runs nowhere else needs `OnePlace`, that a new thread respects the
limit needs `CountExact`, that the pool is closed with nobody running needs
`OneStops` to know that the count cannot rise again. From `PoolSafe` follows
`PoolImplementsJobBag`: taking a job starts it, its return finishes it, the end
of destroy closes the bag.

`ListInv` is about the idle list: there is a sequence of workers, without
repetition, that the links follow in both directions (`Row`), and it is that of
the idle workers who have not been given a job, with the count `idle` (`Holds`).
A worker that leaves keeps its own links, as in the code, so nothing is said of
those outside. `IdleListSafe` holds for all circumstances, timeouts and batches
together included. `JInv` adds that no job is ever lost (`AllJobs`), and for a
pool that has idle timeouts or batches but not both (`Separate`), `Calm`: a
worker that was given a job is awake or will be signalled, by its client or by
the end of the batch; as long as a job is in the queue some thread is awake; and
what a batch looks at is a thread that runs. From it follow `NoStrandedJobSafe`
and `DestroyedIsQuietSafe`. With both, a batch may look at a thread that has
ended (section 5, the last paragraph), and give it a job.

*Master* (`MasterServ_proofs`). The handlers are functions of the master's
state, so what a handler does is proved function by function, from the inside
out. `Sane` is the type with `Counts`: `total` and `avail` are the numbers of
children and of idle children, but for the children that are being deleted.
`Grown` says what a function may do to the table: leave entries alone, delete
them, or make new ones, of a pid no process has, with a generation of their own.
The loop of `master_prefork` is covered by an invariant on its turns (`Upto`); a
fork finds no pid only where all are taken, and then fails. `Fresh` says that
without a reload the total is within the limit, and `LOK` that whoever has no
idle child and may fork listens, which the functions restore before they return
to the event loop. `CountsSafe` and `ListensSafe` follow. For `GossipSafe`,
`Gossip` says of each living child whose master has not changed that the last
message of its pid and generation in the pipe, or the table if there is none,
tells the status it is in (`Hears`); `Stamped`, that no message has a generation
not yet given out, so what the dead left in the pipe is never taken for a word
of the new owner of their pid.

So every invariant of the passing runs is a theorem, as are the five
refinements of abstract queues, locks and bags. Checked by TLC only:

* liveness (`ReadyRuns`, the two `WaiterServed`, `WaitersWoken`, `AllReceived`,
  `PopsReturn`, `JobsEnd`, `StopReturns`, `ConnsAccepted`), which the prover does
  not reach;
* `UnitsConserved`, an action property on a sum over fibers: the sum is a fold
  of the community modules, which is defined by recursion over a set, and that it
  changes by what one fiber's share changes by takes an induction over sets;
* `SleptEnough`: it needs the ring of sleepers to be sorted, hence what
  `acl_fiber_delay` inserts in its middle, in the terms of `Order`. For
  programs that reset a timer that sleeps it is false (finding 7).

The theorems of the channel, those under `Careful` and those under `Separate`
are conditional. Their conditions are those under which the runs are made,
which fire every action of these modules, and outside of them the properties
fail: in `MCFiberChannelKill`, `MCFiberIOSignal` and `MCFiberMutexTrust`.

## 5. Findings

The first two are runs of this project; for each other one, the configuration
named shows it.

1. `acl_fiber_rwlock_runlock` and `wunlock` detach the head of the ring instead
   of the waiter (`fiber_lock.c:176`, `197`, `203`). `MCFiberRwlockExcl` ends
   with two fibers holding a write lock. With a waiting reader the loop of
   `wunlock` (196-200) cannot end.
2. A fork that fails inside `master_prefork` throttles the service, and the loop
   forks on (`master_avail.c:37`, `54`) until `acl_master_spawn` panics
   (`master_spawn.c:145`): `MCMasterServPreforks`.
3. `acl_fiber_signum` tests its argument the wrong way round (`fiber.c:458`),
   and so returns the caller's signal, where `lib_fiber.h:107-109` promises that
   of the fiber given: `MCFiberSchedSignum`.
4. A fiber killed in `acl_fiber_mutex_lock` returns without the lock, and the
   function returns nothing (`fiber_lock.c:42-52`): `MCFiberMutexTrust`.
   `acl_fiber_sem_wait` does the same with a value that says success
   (`fiber_sem.c:67`).
5. A fiber killed in a channel operation leaves its alt, a pointer to its
   stack, in the channel (`channel.c:300`): `MCFiberChannelKill`.
6. A fiber signalled in `fiber_wait_read` or `fiber_wait_write` leaves its event
   registered (`fiber_io.c:317-365`). If it waits again, both events may fire in
   one poll, and it is linked twice: `MCFiberIOSignal`. `lib_fiber.h:100` offers
   the signal for fibers that sleep because of IO.
7. `acl_fiber_reset_timer` changes the deadline of a fiber that is linked by the
   old one (`fiber_io.c:289-300`), so the ring is no longer sorted and the loop,
   which looks at its head, wakes it late: `MCFiberIOReset`. `lib_fiber.h:171`
   says that a timer not yet woken may be reset.
8. A mailbox read that is to wait for ever may return NULL after an earlier
   read timed out (`acl_mbox.c:127`): `MCAclMboxMixed`.
9. `acl_aqueue_set_quit` wakes nobody (`acl_aqueue.c:326`): a pop without a
   timeout that sleeps already does not learn of it, `MCAclAqueueQuit`.
10. A worker whose `worker_init_fn` fails lowers the count and signals nobody
    (`acl_pthread_pool.c:425-434`), so `acl_pthread_pool_stop` may wait for ever:
    `MCAclPthreadPoolInit`.
11. `acl_master_delete_children` releases the throttle after the last child is
    gone, which preforks again for a service that is being removed
    (`master_spawn.c:421`; the comment at 398 says it deletes all of them):
    `MCMasterServRemoved`.

Read in the code, and not run: a reader of the rwlock blocks while a writer
waits (`fiber_lock.c:111`), where `lib_fiber.h:261-263` says it may share a lock
that is held for reading; `nsend++` of the mailbox is outside the lock
(`acl_mbox.c:78`), so the count may fall behind; a deadline of the thread queue
may have a second's worth of nanoseconds (`acl_aqueue.c:214`), which the model
has as a wait that fails at once, and the error of a pop may be overwritten by
another pop's entry (196); a batch reads the first idle worker before it takes
the mutex (`acl_pthread_pool.c:709`), which with idle timeouts may be a worker
that has been freed, and counts idle workers that are not (880-890); `poll` that
times out leaves events registered that point to its stack (`hook_net.c:532`).

## 6. Not modelled, and why

Of the modules here: in the fiber modules, errno and the context switch itself,
which carry no protocol; the termination of the process by `acl_msg_fatal` and
`assert` (a step that would abort has no action); signals to fibers that have
already ended, which the code does not test and which would need dangling
pointers. In `FiberIO`, `io_count`, `nsleeping`, `maxfd` and `ev->timeout`, which
end in a log line or in how long one poll takes, and descriptors epoll refuses.
The mailbox, the thread queue and the pool assume sequentially consistent
memory, and that the mutexes, condition variables and sockets do not fail. The
pool has no poller thread, no overload sleep, and runs either batches or idle
timeouts. `MasterServ` has one service; several share a table of children and
one generation counter, which no step of one service reads for another. Its
children are those of `acl_single_server.c`; the other templates send the same
two messages at other moments.

Of the system:

* The `poll`, `select` and `epoll_wait` hooks keep their entries on the stack of
  the caller, and what they do wrong is to leave pointers to it; a model would
  be about stale memory and little else. The rest of the hooks forward to libc.
* Fiber locals, and the chunks under the mailbox's pipe: allocation, sequential
  but for one exchanged pointer.
* The connection pool of `lib_acl_cpp`: every operation is one critical section
  of one lock, and what can go wrong (`set_delay_destroy`, the idle check that
  sets the count to zero with connections out at `connect_pool.cpp:241`) is
  the lifetime of C++ objects.
* The event engine and the asynchronous streams of `lib_acl`: large, over five
  operating system interfaces, with callbacks supplied by the application; what
  the master needs of it is that handlers are called one at a time.
* Containers, parsers, protocol clients, the other templates, applications and
  vendored libraries (most of the repository's lines) have no protocol of their
  own: they are sequential, or wrappers of system calls.

## 7. What would come next

`acl_threads_server` on top of `AclPthreadPool` and `MasterServ`; the chunks of
`acl_yqueue.c` under `AclMbox`; the `poll` hook with stack frames that go away.
Among the proofs: the order of the sleepers, and from it `SleptEnough`; sums over
fibers for `UnitsConserved`; the first-in first-out order of a channel as the
refinement of an abstract queue; the read/write lock of clients that block,
up to the first unlock with a waiter.
