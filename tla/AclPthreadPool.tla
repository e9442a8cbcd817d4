--------------------------- MODULE AclPthreadPool ---------------------------
(***************************************************************************)
(* The thread pool of lib_acl, acl_pthread_pool.c.  A worker that finds no *)
(* job links itself in the list of idle workers and waits on a condition   *)
(* variable of its own; a job goes straight to an idle worker, or to the   *)
(* queue of the pool, with a new thread while there are fewer than         *)
(* parallelism of them.                                                    *)
(*                                                                         *)
(* Everything a thread does under worker_mutex is one action, but for a    *)
(* batch, which holds the mutex over several calls.  What the code does    *)
(* without the mutex is a step of its own: the signal of job_deliver, the  *)
(* read of thr_first in acl_pthread_pool_bat_add_begin, the store at the   *)
(* end of acl_pthread_pool_bat_add_end, and the job itself.                *)
(***************************************************************************)
EXTENDS Integers, Sequences, FiniteSets

CONSTANTS
  Workers,      \* the blocks of memory that hold a thread_worker
  Clients,      \* the threads that use the pool
  Nil,          \* the null pointer
  parallelism,  \* the limit of threads
  wait_count,   \* timeouts of an idle worker before it ends
  Circumstances,\* a set of sets: what may happen in a run, see may
  MaxJobs       \* bound of the model: jobs that are ever added

ASSUME PoolAssumption ==
  /\ IsFiniteSet(Clients)
  /\ IsFiniteSet(Workers) /\ Cardinality(Workers) >= parallelism
  /\ parallelism \in Nat \ {0} /\ wait_count \in Nat \ {0} /\ MaxJobs \in Nat
  /\ Nil \notin Workers \cup Clients \cup Nat
  /\ Circumstances \subseteq SUBSET {"expire", "batch", "nothread", "noinit"}

Jobs == 1 .. MaxJobs

VARIABLES
  may,         \* "expire": idle_timeout is set; "batch": bat_add is used;
               \* "nothread": pthread_create may fail; "noinit": worker_init_fn may
  pc, running, \* where each worker is, and the job it runs
  own,         \* thr->job_first: the job given to the worker (at most one)
  waits,       \* idle_count in worker_wait
  thr_first, nxt, prv,  \* the list of idle workers
  thr_iter,    \* the worker a batch looks at
  queue,       \* the queue of the pool
  count, idle, \* its threads, and the number it takes for idle
  quit, valid, \* its flags; valid is 0 while it is being stopped
  freed,       \* acl_pthread_pool_destroy: not called, called, returned
  lock,        \* who holds worker_mutex over a step: a batch, or nobody
  cpc, target, \* where each client is, and the worker job_deliver signals
  added, ran   \* the jobs added so far, the jobs that ended

poolVars == <<may, pc, running, own, waits, thr_first, nxt, prv, thr_iter, queue,
              count, idle, quit, valid, freed, lock, cpc, target, added, ran>>

workerVars == <<pc, running, own, waits>>
listVars   == <<thr_first, nxt, prv>>
flagVars   == <<may, quit, valid, freed>>
clientVars == <<lock, cpc, target, added, thr_iter>>

Init ==
  /\ may \in Circumstances
  /\ pc = [w \in Workers |-> "none"]
  /\ running = [w \in Workers |-> Nil] /\ own = [w \in Workers |-> Nil]
  /\ waits = [w \in Workers |-> 0]
  /\ thr_first = Nil
  /\ nxt = [w \in Workers |-> Nil] /\ prv = [w \in Workers |-> Nil]
  /\ thr_iter = Nil
  /\ queue = <<>> /\ count = 0 /\ idle = 0
  /\ quit = FALSE /\ valid = TRUE /\ freed = "no"
  /\ lock = Nil
  /\ cpc = [c \in Clients |-> "idle"] /\ target = [c \in Clients |-> Nil]
  /\ added = 0 /\ ran = {}

CallerAt(c, here, there) == cpc[c] = here /\ cpc' = [cpc EXCEPT ![c] = there]

(* Faulty variant: the prev of the worker behind is not mended.            *)
UnlinkedForwards(l, w) ==
  IF l.first = w THEN [l EXCEPT !.first = l.next[w]]
                 ELSE [l EXCEPT !.next[l.prev[w]] = l.next[w]]

(* The list of idle workers.  A worker that leaves it keeps its own links. *)
Unlinked(l, w) ==
  IF l.first = w
    THEN [l EXCEPT !.first = l.next[w]]
    ELSE [l EXCEPT !.next[l.prev[w]] = l.next[w],
                   !.prev = IF l.next[w] = Nil THEN @ ELSE [@ EXCEPT ![l.next[w]] = l.prev[w]]]

List == [first |-> thr_first, next |-> nxt, prev |-> prv]

SetList(l) == thr_first' = l.first /\ nxt' = l.next /\ prv' = l.prev

Unlink(w) ==
  LET l == Unlinked(List, w)
  IN  SetList(IF thr_first = w /\ nxt[w] # Nil THEN [l EXCEPT !.prev[nxt[w]] = Nil] ELSE l)

LinkFirst(w) ==
  SetList([first |-> w,
           next  |-> [nxt EXCEPT ![w] = thr_first],
           prev  |-> [v \in Workers |->
                        IF v = w THEN Nil ELSE IF v = thr_first THEN w ELSE prv[v]]])

(* The workers met from a worker on along the links, in order.             *)
Most == Cardinality(Workers) + 1

Chain(first) ==
  LET at[i \in 0 .. Most] ==
        IF i = 0 THEN first ELSE IF at[i - 1] = Nil THEN Nil ELSE nxt[at[i - 1]]
  IN  [i \in {k \in 1 .. Most : at[k - 1] # Nil} |-> at[i - 1]]

IdleList == Chain(thr_first)

(* pthread_cond_signal on the condition variable of each worker in ws.     *)
Signal(ws) ==
  pc' = [w \in Workers |-> IF w \in ws /\ pc[w] = "wait" THEN "woken" ELSE pc[w]]

-----------------------------------------------------------------------------
(* worker_thread: worker_init_fn, then the loop.                           *)
WorkerStarts(w) ==
  /\ pc[w] = "init"
  /\ pc' = [pc EXCEPT ![w] = "look"]
  /\ UNCHANGED <<running, own, waits, listVars, queue, count, idle, flagVars, clientVars, ran>>

(* The thread ends, and tells nobody.                                      *)
WorkerInitFails(w) ==
  /\ pc[w] = "init" /\ "noinit" \in may
  /\ lock = Nil
  /\ pc' = [pc EXCEPT ![w] = "none"]
  /\ count' = count - 1
  /\ UNCHANGED <<running, own, waits, listVars, queue, idle, flagVars, clientVars, ran>>

HasLock(w) == lock = Nil /\ pc[w] \in {"look", "woken", "expired"}

(* A worker that left worker_wait by itself takes itself off the list.     *)
LeaveList(w) ==
  IF pc[w] = "look" THEN UNCHANGED <<listVars, idle>> ELSE Unlink(w) /\ idle' = idle - 1

(* Faulty variant: thr->job_first is not cleared.                          *)
RunOwnKept(w) ==
  /\ HasLock(w)
  /\ own[w] # Nil
  /\ running' = [running EXCEPT ![w] = own[w]]
  /\ pc' = [pc EXCEPT ![w] = "run"]
  /\ UNCHANGED <<own, waits, listVars, queue, count, idle, flagVars, clientVars, ran>>

(* worker_run, up to the call of the job: its own job first; whoever gave  *)
(* it took the worker off the list.                                        *)
RunOwn(w) ==
  /\ HasLock(w)
  /\ own[w] # Nil
  /\ running' = [running EXCEPT ![w] = own[w]]
  /\ own' = [own EXCEPT ![w] = Nil]
  /\ pc' = [pc EXCEPT ![w] = "run"]
  /\ UNCHANGED <<waits, listVars, queue, count, idle, flagVars, clientVars, ran>>

RunQueued(w) ==
  /\ HasLock(w)
  /\ own[w] = Nil /\ queue # <<>>
  /\ running' = [running EXCEPT ![w] = Head(queue)]
  /\ queue' = Tail(queue)
  /\ pc' = [pc EXCEPT ![w] = "run"]
  /\ LeaveList(w)
  /\ UNCHANGED <<own, waits, count, flagVars, clientVars, ran>>

(* The job returns; the worker goes for worker_mutex.                      *)
JobEnds(w) ==
  /\ pc[w] = "run"
  /\ ran' = ran \cup {running[w]}
  /\ running' = [running EXCEPT ![w] = Nil]
  /\ pc' = [pc EXCEPT ![w] = "look"]
  /\ UNCHANGED <<own, waits, listVars, queue, count, idle, flagVars, clientVars>>

NoJobFor(w) == own[w] = Nil /\ queue = <<>>

(* worker_wait begins.                                                     *)
BeginWait(w) ==
  /\ HasLock(w) /\ pc[w] = "look"
  /\ NoJobFor(w) /\ ~quit
  /\ LinkFirst(w)
  /\ idle' = idle + 1
  /\ waits' = [waits EXCEPT ![w] = 0]
  /\ pc' = [pc EXCEPT ![w] = "wait"]
  /\ UNCHANGED <<running, own, queue, count, flagVars, clientVars, ran>>

(* Its time is up; it may be signalled before it has the mutex again.      *)
Expire(w) ==
  /\ pc[w] = "wait" /\ "expire" \in may
  /\ pc' = [pc EXCEPT ![w] = "expired"]
  /\ UNCHANGED <<running, own, waits, listVars, queue, count, idle, flagVars, clientVars, ran>>

(* pthread_cond_wait may return unsignalled; a signal that job_deliver     *)
(* sends late may reach a condition variable that has a new owner.         *)
WakeSpuriously(w) ==
  /\ pc[w] = "wait"
  /\ pc' = [pc EXCEPT ![w] = "woken"]
  /\ UNCHANGED <<running, own, waits, listVars, queue, count, idle, flagVars, clientVars, ran>>

Enough(w) == pc[w] = "expired" /\ waits[w] + 1 >= wait_count

WaitAgain(w) ==
  /\ HasLock(w) /\ pc[w] # "look"
  /\ NoJobFor(w) /\ ~quit /\ ~Enough(w)
  /\ waits' = [waits EXCEPT ![w] = IF pc[w] = "expired" THEN @ + 1 ELSE 0]
  /\ pc' = [pc EXCEPT ![w] = "wait"]
  /\ UNCHANGED <<running, own, listVars, queue, count, idle, flagVars, clientVars, ran>>

(* Faulty variant: thr_pool->cond is not signalled.                        *)
WorkerEndsSilently(w) ==
  /\ HasLock(w)
  /\ NoJobFor(w) /\ (quit \/ Enough(w))
  /\ LeaveList(w)
  /\ waits' = [waits EXCEPT ![w] = 0]
  /\ pc' = [pc EXCEPT ![w] = "none"]
  /\ count' = count - 1
  /\ UNCHANGED <<running, own, queue, flagVars, clientVars, ran>>

(* The thread ends: the pool stops, or it waited long enough.              *)
WorkerEnds(w) ==
  /\ HasLock(w)
  /\ NoJobFor(w) /\ (quit \/ Enough(w))
  /\ LeaveList(w)
  /\ waits' = [waits EXCEPT ![w] = 0]
  /\ pc' = [pc EXCEPT ![w] = "none"]
  /\ count' = count - 1
  /\ cpc' = [c \in Clients |->
               IF quit /\ cpc[c] = "stopwait" THEN "stopwoken" ELSE cpc[c]]
  /\ UNCHANGED <<running, own, queue, flagVars, lock, target, added, thr_iter, ran>>

Worker(w) ==
  \/ WorkerStarts(w) \/ WorkerInitFails(w)
  \/ RunOwn(w) \/ RunQueued(w) \/ JobEnds(w)
  \/ BeginWait(w) \/ WaitAgain(w) \/ WorkerEnds(w)

-----------------------------------------------------------------------------
(* The calls that have a job to add, and the room MaxJobs leaves beside    *)
(* them.                                                                   *)
Calls == {c \in Clients : cpc[c] \in {"add", "batlock", "batfirst"}}

Room == added + Cardinality(Calls) < MaxJobs

(* A new thread if there are fewer than parallelism; it may not be had.    *)
MoreThreads ==
  \/ /\ count < parallelism
     /\ \E w \in Workers : pc[w] = "none" /\ pc' = [pc EXCEPT ![w] = "init"]
     /\ count' = count + 1
  \/ /\ count >= parallelism \/ "nothread" \in may
     /\ UNCHANGED <<pc, count>>

Enqueue == queue' = Append(queue, added + 1) /\ MoreThreads

(* acl_pthread_pool_add_one, add_job, dispatch: the test of valid.         *)
AddBegins(c) ==
  /\ CallerAt(c, "idle", "add")
  /\ valid /\ Room
  /\ UNCHANGED <<workerVars, listVars, queue, count, idle, flagVars, lock, target, added, thr_iter, ran>>

Idler == thr_first # Nil /\ own[thr_first] = Nil

(* job_add with an idle worker: job_deliver, up to its unlock.             *)
JobDeliver(c) ==
  /\ CallerAt(c, "add", "signal")
  /\ lock = Nil
  /\ Idler
  /\ own' = [own EXCEPT ![thr_first] = added + 1]
  /\ added' = added + 1
  /\ target' = [target EXCEPT ![c] = thr_first]
  /\ Unlink(thr_first)
  /\ idle' = idle - 1
  /\ UNCHANGED <<pc, running, waits, queue, count, flagVars, lock, thr_iter, ran>>

(* Faulty variant: the worker is not signalled.                            *)
DeliverSilently(c) ==
  /\ CallerAt(c, "signal", "idle")
  /\ target' = [target EXCEPT ![c] = Nil]
  /\ UNCHANGED <<workerVars, listVars, queue, count, idle, flagVars, lock, added, thr_iter, ran>>

DeliverSignal(c) ==
  /\ CallerAt(c, "signal", "idle")
  /\ Signal({target[c]})
  /\ target' = [target EXCEPT ![c] = Nil]
  /\ UNCHANGED <<running, own, waits, listVars, queue, count, idle, flagVars, lock, added, thr_iter, ran>>

(* job_add without one.                                                    *)
JobQueue(c) ==
  /\ CallerAt(c, "add", "idle")
  /\ lock = Nil
  /\ ~Idler
  /\ Enqueue
  /\ added' = added + 1
  /\ UNCHANGED <<running, own, waits, listVars, idle, flagVars, lock, target, thr_iter, ran>>

(* acl_pthread_pool_bat_add_begin reads thr_first, then locks.             *)
BatBegins(c) ==
  /\ "batch" \in may
  /\ CallerAt(c, "idle", "batlock")
  /\ valid /\ Room
  /\ thr_iter' = thr_first
  /\ UNCHANGED <<workerVars, listVars, queue, count, idle, flagVars, lock, target, added, ran>>

BatLocks(c) ==
  /\ CallerAt(c, "batlock", "batfirst")
  /\ lock = Nil
  /\ lock' = c
  /\ UNCHANGED <<workerVars, listVars, queue, count, idle, flagVars, target, added, thr_iter, ran>>

InBatch(c) == lock = c /\ (cpc[c] = "batfirst" \/ Room) /\ cpc' = [cpc EXCEPT ![c] = "bat"]

(* The memory of a thread that has ended is not the code's to look at.     *)
IterAlive == thr_iter # Nil => pc[thr_iter] # "none"

Given(w) == own[w] # Nil

(* job_append finds a worker with no job of its own from thr_iter on.      *)
BatGive(c) ==
  /\ InBatch(c) /\ IterAlive
  /\ \E i \in DOMAIN Chain(thr_iter), w \in Workers :
       /\ w = Chain(thr_iter)[i]
       /\ ~Given(w) /\ \A k \in 1 .. i - 1 : Given(Chain(thr_iter)[k])
       /\ own' = [own EXCEPT ![w] = added + 1]
       /\ thr_iter' = nxt[w]
  /\ added' = added + 1
  /\ UNCHANGED <<pc, running, waits, listVars, queue, count, idle, flagVars, lock, target, ran>>

(* job_append finds none.                                                  *)
BatQueue(c) ==
  /\ InBatch(c) /\ IterAlive
  /\ \A i \in DOMAIN Chain(thr_iter) : Given(Chain(thr_iter)[i])
  /\ thr_iter' = Nil
  /\ Enqueue
  /\ added' = added + 1
  /\ UNCHANGED <<running, own, waits, listVars, idle, flagVars, lock, target, ran>>

(* What bat_add_end leaves of the idle list: the workers that were given a *)
(* job leave it, in its order.  idle is left as it is, and so is the prev  *)
(* of a new first worker.                                                  *)
RestOfList ==
  LET rest[i \in 0 .. Most] ==
        IF i = 0 THEN List
        ELSE IF i \in DOMAIN IdleList /\ Given(IdleList[i])
          THEN Unlinked(rest[i - 1], IdleList[i]) ELSE rest[i - 1]
  IN  rest[Most]

(* Whom it signals: those, and of the others as many, from the first on,   *)
(* as there are jobs in the queue.                                         *)
Woken ==
  {IdleList[i] : i \in {k \in DOMAIN IdleList :
     \/ Given(IdleList[k])
     \/ Cardinality({n \in 1 .. k : ~Given(IdleList[n])}) <= Len(queue)}}

(* Faulty variant: nobody is signalled for the jobs in the queue.          *)
BatEndHalf(c) ==
  /\ CallerAt(c, "bat", "batclear") /\ lock = c
  /\ Signal({w \in Woken : Given(w)})
  /\ SetList(RestOfList)
  /\ lock' = Nil
  /\ UNCHANGED <<running, own, waits, queue, count, idle, flagVars, target, added, thr_iter, ran>>

(* acl_pthread_pool_bat_add_end.                                           *)
BatEnd(c) ==
  /\ CallerAt(c, "bat", "batclear") /\ lock = c
  /\ Signal(Woken)
  /\ SetList(RestOfList)
  /\ lock' = Nil
  /\ UNCHANGED <<running, own, waits, queue, count, idle, flagVars, target, added, thr_iter, ran>>

(* Its last store, after the unlock.                                       *)
BatClear(c) ==
  /\ CallerAt(c, "batclear", "idle")
  /\ thr_iter' = Nil
  /\ UNCHANGED <<workerVars, listVars, queue, count, idle, flagVars, lock, target, added, ran>>

(* acl_pthread_pool_stop, never during a batch: a call of a batch that     *)
(* finds the pool not valid ends the program.                              *)
Stop(c) ==
  /\ CallerAt(c, "idle", "stop")
  /\ valid /\ \A d \in Clients : cpc[d] \notin {"batlock", "batfirst", "bat"}
  /\ valid' = FALSE
  /\ UNCHANGED <<workerVars, listVars, queue, count, idle, may, quit, freed, lock, target, added, thr_iter, ran>>

(* acl_pthread_pool_destroy, called when nobody uses the pool any more.    *)
Destroy(c) ==
  /\ CallerAt(c, "idle", "stop")
  /\ valid /\ \A d \in Clients : cpc[d] = "idle"
  /\ valid' = FALSE /\ freed' = "soon"
  /\ UNCHANGED <<workerVars, listVars, queue, count, idle, may, quit, lock, target, added, thr_iter, ran>>

(* The end of both: stop makes the pool valid again, destroy frees it.     *)
Stopped(c) ==
  /\ cpc' = [cpc EXCEPT ![c] = "idle"]
  /\ valid' = (freed = "no")
  /\ freed' = IF freed = "soon" THEN "yes" ELSE freed

(* wait_worker_exit: quit, a signal for every idle worker, and the wait.   *)
WaitWorkers(c) ==
  /\ cpc[c] = "stop" /\ lock = Nil
  /\ quit' = TRUE
  /\ IF count = 0
       THEN Stopped(c) /\ UNCHANGED pc
       ELSE /\ Signal({IdleList[i] : i \in DOMAIN IdleList})
            /\ cpc' = [cpc EXCEPT ![c] = "stopwait"]
            /\ UNCHANGED <<valid, freed>>
  /\ UNCHANGED <<running, own, waits, listVars, queue, count, idle, may, lock, target, added, thr_iter, ran>>

(* Faulty variant: count is not looked at again.                           *)
WaitWorkersOnce(c) ==
  /\ cpc[c] = "stopwoken" /\ lock = Nil
  /\ Stopped(c)
  /\ UNCHANGED <<workerVars, listVars, queue, count, idle, may, quit, lock, target, added, thr_iter, ran>>

WaitWorkersWoken(c) ==
  /\ cpc[c] = "stopwoken" /\ lock = Nil
  /\ IF count > 0
       THEN cpc' = [cpc EXCEPT ![c] = "stopwait"] /\ UNCHANGED <<valid, freed>>
       ELSE Stopped(c)
  /\ UNCHANGED <<workerVars, listVars, queue, count, idle, may, quit, lock, target, added, thr_iter, ran>>

(* What a client does once it has called.                                  *)
Client(c) ==
  \/ JobDeliver(c) \/ DeliverSignal(c) \/ JobQueue(c)
  \/ BatLocks(c) \/ BatGive(c) \/ BatQueue(c) \/ BatEnd(c) \/ BatClear(c)
  \/ WaitWorkers(c) \/ WaitWorkersWoken(c)

Next ==
  \/ \E w \in Workers : Worker(w) \/ Expire(w) \/ WakeSpuriously(w)
  \/ \E c \in Clients : Client(c) \/ AddBegins(c) \/ BatBegins(c) \/ Stop(c) \/ Destroy(c)

Spec == Init /\ [][Next]_poolVars

(* The threads run; worker_mutex is held for a bounded time; batches end;  *)
(* jobs return.                                                            *)
Fairness ==
  /\ \A w \in Workers : WF_poolVars(Worker(w))
  /\ \A c \in Clients : WF_poolVars(Client(c))

FairSpec == Spec /\ Fairness

-----------------------------------------------------------------------------
TypeOK ==
  /\ may \in Circumstances
  /\ pc \in [Workers -> {"none", "init", "look", "run", "wait", "woken", "expired"}]
  /\ running \in [Workers -> Jobs \cup {Nil}] /\ own \in [Workers -> Jobs \cup {Nil}]
  /\ waits \in [Workers -> 0 .. wait_count]
  /\ {thr_first, thr_iter} \subseteq Workers \cup {Nil}
  /\ nxt \in [Workers -> Workers \cup {Nil}] /\ prv \in [Workers -> Workers \cup {Nil}]
  /\ queue \in Seq(Jobs)
  /\ count \in Int /\ idle \in Int
  /\ quit \in BOOLEAN /\ valid \in BOOLEAN /\ freed \in {"no", "soon", "yes"}
  /\ lock \in Clients \cup {Nil}
  /\ cpc \in [Clients -> {"idle", "add", "signal", "batlock", "batfirst", "bat", "batclear",
                          "stop", "stopwait", "stopwoken"}]
  /\ target \in [Clients -> Workers \cup {Nil}]
  /\ added \in 0 .. MaxJobs /\ ran \subseteq Jobs

(* The list links exactly the workers that wait without a job of their own *)
(* (during a batch, also those it has just given one), each once, with     *)
(* prev right wherever unlinking reads it; idle counts them, but for what  *)
(* batches leave in it.                                                    *)
Idlers == {w \in Workers : pc[w] \in {"wait", "woken", "expired"}}

IdleListExact ==
  LET l  == IdleList
      on == {l[i] : i \in DOMAIN l}
  IN  /\ Len(l) = Cardinality(on)
      /\ {w \in Idlers : own[w] = Nil} \subseteq on /\ on \subseteq Idlers
      /\ lock = Nil => \A w \in on : own[w] = Nil
      /\ \A i \in 2 .. Len(l) : prv[l[i]] = l[i - 1]
      /\ idle >= Cardinality(on) /\ ("batch" \notin may => idle = Cardinality(on))

(* While the mutex is free no job is left to a worker that sleeps: not a   *)
(* job in the queue, unless no thread has come as far as the loop, and not *)
(* a job given to a worker, unless its signal is on the way.               *)
Awake == {w \in Workers : pc[w] \in {"look", "run", "woken", "expired"}}

Signalling == {w \in Workers : own[w] # Nil /\ \E c \in Clients : cpc[c] = "signal" /\ target[c] = w}

NoStrandedJob ==
  lock = Nil =>
    /\ queue # <<>> =>
         Awake \cup Signalling # {} \/ \A w \in Workers : pc[w] \in {"none", "init"}
    /\ \A w \in Workers : own[w] # Nil => w \in Awake \cup Signalling \/ pc[w] = "init"

(* When destroy has returned no thread is left, and no job unless a thread *)
(* could not be started.                                                   *)
DestroyedIsQuiet ==
  freed = "yes" =>
    /\ \A w \in Workers : pc[w] = "none"
    /\ may \cap {"nothread", "noinit"} = {} => ran = 1 .. added

(* The pool is a bag of jobs of which at most parallelism run.             *)
Waiting == {queue[i] : i \in DOMAIN queue} \cup {own[w] : w \in {v \in Workers : own[v] # Nil}}
Running == {running[w] : w \in {v \in Workers : running[v] # Nil}}

Bag == INSTANCE JobBag WITH
  Limit <- parallelism, pending <- Waiting, running <- Running, done <- ran,
  closed <- (freed = "yes")

ImplementsJobBag == Bag!BagSpec

(* Every job that was added ends, if threads can be had.                   *)
JobsEnd ==
  may \cap {"nothread", "noinit"} = {} => \A j \in Jobs : (j \in Waiting) ~> (j \in ran)

(* acl_pthread_pool_stop and acl_pthread_pool_destroy return, the first    *)
(* unless worker_init_fn fails.                                            *)
StopAlwaysReturns == \A c \in Clients : (cpc[c] = "stop") ~> (cpc[c] = "idle")

StopReturns == "noinit" \notin may => StopAlwaysReturns
=============================================================================
