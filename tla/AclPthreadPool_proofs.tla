------------------------- MODULE AclPthreadPool_proofs -------------------------
(***************************************************************************)
(* Proofs about AclPthreadPool: types, the limit of threads, and that the  *)
(* pool is a bag of jobs, each of which is started once and ends once, at  *)
(* most parallelism at a time; then that its idle list is a proper list of *)
(* the workers that wait, and that no job is left to sleepers, nor any     *)
(* thread to a pool that was destroyed.                                    *)
(***************************************************************************)
EXTENDS AclPthreadPool, FiniteSetTheorems, FunctionTheorems, SequenceTheorems, Iteration

-----------------------------------------------------------------------------
(* A call that was let in has room for its job.                            *)
CallsFit == added + Cardinality(Calls) <= MaxJobs

(* count is the number of threads.                                         *)
Threads == {w \in Workers : pc[w] # "none"}

CountExact == count = Cardinality(Threads) /\ count <= parallelism

RunningRun == \A w \in Workers : running[w] # Nil <=> pc[w] = "run"

(* A job is in one place.                                                  *)
OnePlace ==
  /\ \A i, k \in DOMAIN queue : queue[i] = queue[k] => i = k
  /\ \A w, u \in Workers : own[w] # Nil /\ own[w] = own[u] => w = u
  /\ \A w, u \in Workers : running[w] # Nil /\ running[w] = running[u] => w = u
  /\ \A i \in DOMAIN queue, w \in Workers : queue[i] # own[w] /\ queue[i] # running[w]
  /\ \A w, u \in Workers : own[w] # Nil => own[w] # running[u]
  /\ (Waiting \cup Running) \cap ran = {}
  /\ Waiting \cup Running \cup ran \subseteq 1 .. added

(* One client stops the pool at a time, and nobody uses it while it is     *)
(* being destroyed.                                                        *)
Stopping(c) == cpc[c] \in {"stop", "stopwait", "stopwoken"}

OneStops ==
  /\ valid => \A c \in Clients : ~Stopping(c)
  /\ \A c, d \in Clients : Stopping(c) /\ Stopping(d) => c = d
  /\ freed # "no" => ~valid /\ \A c \in Clients : cpc[c] = "idle" \/ Stopping(c)
  /\ freed = "yes" => Threads = {} /\ \A c \in Clients : cpc[c] = "idle"

(* A client that holds worker_mutex over a step is in a batch.             *)
LockInBatch == \A c \in Clients : lock = c => cpc[c] \in {"batfirst", "bat"}

PInv ==
  TypeOK /\ CallsFit /\ CountExact /\ RunningRun /\ OnePlace /\ OneStops /\ LockInBatch

-----------------------------------------------------------------------------
(* The list of idle workers: whatever is done to it, its fields hold       *)
(* workers or nothing.                                                     *)
Lists == [first : Workers \cup {Nil}, next : [Workers -> Workers \cup {Nil}],
          prev : [Workers -> Workers \cup {Nil}]]

LEMMA ListTyped == ASSUME TypeOK PROVE List \in Lists
BY DEF TypeOK, List, Lists

LEMMA SetListTyped ==
  ASSUME NEW l \in Lists, SetList(l)
  PROVE  /\ thr_first' \in Workers \cup {Nil}
         /\ nxt' \in [Workers -> Workers \cup {Nil}]
         /\ prv' \in [Workers -> Workers \cup {Nil}]
BY DEF SetList, Lists

LEMMA UnlinkedTyped ==
  ASSUME NEW l \in Lists, NEW w \in Workers
  PROVE  Unlinked(l, w) \in Lists
BY DEF Unlinked, Lists

LEMMA UnlinkTyped ==
  ASSUME TypeOK, NEW w \in Workers, Unlink(w)
  PROVE  /\ thr_first' \in Workers \cup {Nil}
         /\ nxt' \in [Workers -> Workers \cup {Nil}]
         /\ prv' \in [Workers -> Workers \cup {Nil}]
<1>1. Unlinked(List, w) \in Lists
  BY ListTyped, UnlinkedTyped
<1>2. [Unlinked(List, w) EXCEPT !.prev[nxt[w]] = Nil] \in Lists
  BY <1>1 DEF Lists
<1> QED BY <1>1, <1>2, SetListTyped DEF Unlink

LEMMA LinkFirstTyped ==
  ASSUME TypeOK, NEW w \in Workers, LinkFirst(w)
  PROVE  /\ thr_first' \in Workers \cup {Nil}
         /\ nxt' \in [Workers -> Workers \cup {Nil}]
         /\ prv' \in [Workers -> Workers \cup {Nil}]
BY DEF LinkFirst, SetList, TypeOK

(* There is a number of steps that is enough to walk the list.             *)
LEMMA MostNat == Most \in Nat /\ Most > 0
BY PoolAssumption, FS_CardinalityType DEF Most

(* The walk along the links, step by step.                                 *)
LEMMA ChainSteps ==
  ASSUME TypeOK, NEW first \in Workers \cup {Nil}
  PROVE  \E at \in [0 .. Most -> Workers \cup {Nil}] :
           /\ at[0] = first
           /\ \A i \in 1 .. Most : at[i] = IF at[i - 1] = Nil THEN Nil ELSE nxt[at[i - 1]]
           /\ Chain(first) = [i \in {k \in 1 .. Most : at[k - 1] # Nil} |-> at[i - 1]]
<1> DEFINE Null == Workers \cup {Nil}
           Step(s) == IF s = Nil THEN Nil ELSE nxt[s]
           Walks(f) == f = [i \in 0 .. Most |-> IF i = 0 THEN first ELSE Step(f[i - 1])]
           at == CHOOSE f : Walks(f)
<1>1. \E f : Walks(f)
  <2> DEFINE step == [i \in 1 .. Most |-> [s \in Null |-> Step(s)]]
  <2>1. step \in [1 .. Most -> [Null -> Null]] /\ first \in Null
    BY DEF TypeOK
  <2>2. PICK f \in [0 .. Most -> Null] :
          f[0] = first /\ \A i \in 1 .. Most : f[i] = step[i][f[i - 1]]
    <3> HIDE DEF step, Null
    <3>1. Most \in Nat
      BY MostNat
    <3> QED BY <2>1, <3>1, Repeats
  <2>3. ASSUME NEW i \in 1 .. Most PROVE f[i] = Step(f[i - 1])
    <3>1. i - 1 \in 0 .. Most
      BY MostNat
    <3>2. f[i - 1] \in Null
      BY <3>1, <2>2
    <3> QED BY <3>2, <2>2
  <2>4. Walks(f)
    BY <2>2, <2>3, MostNat
  <2> QED BY <2>4
<1>2. Walks(at)
  BY <1>1
<1>3. \A i \in 0 .. Most : at[i] \in Null
  <2> HIDE DEF at
  <2>0. PICK T : T = Null
    OBVIOUS
  <2>1. at[0] \in T /\ Most \in Nat
    BY <1>2, <2>0, MostNat
  <2>2. \A i \in 1 .. Most : at[i - 1] \in T => at[i] \in T
    BY <1>2, <2>0, MostNat DEF TypeOK
  <2>3. \A i \in 0 .. Most : at[i] \in T
    BY <2>1, <2>2, HoldsThroughout
  <2> QED BY <2>0, <2>3
<1>4. Chain(first) = [i \in {k \in 1 .. Most : at[k - 1] # Nil} |-> at[i - 1]]
  BY DEF Chain
<1> HIDE DEF at
<1>5. at \in [0 .. Most -> Null]
  BY <1>2, <1>3
<1>6. at[0] = first /\ \A i \in 1 .. Most : at[i] = Step(at[i - 1])
  BY <1>2, MostNat
<1> QED BY <1>4, <1>5, <1>6

(* Every element of the idle list is a worker.                             *)
LEMMA IdleListTyped ==
  ASSUME TypeOK
  PROVE  \A i \in DOMAIN IdleList : IdleList[i] \in Workers
<1>1. thr_first \in Workers \cup {Nil}
  BY DEF TypeOK
<1>2. PICK at \in [0 .. Most -> Workers \cup {Nil}] :
        IdleList = [i \in {k \in 1 .. Most : at[k - 1] # Nil} |-> at[i - 1]]
  BY <1>1, ChainSteps DEF IdleList
<1>3. \A i \in 1 .. Most : i - 1 \in 0 .. Most
  BY MostNat
<1> QED BY <1>2, <1>3

(* And what a batch leaves, worker by worker.                              *)
LEMMA RestSteps ==
  ASSUME TypeOK
  PROVE  \E rest \in [0 .. Most -> Lists] :
           /\ rest[0] = List
           /\ \A i \in 1 .. Most :
                rest[i] = IF i \in DOMAIN IdleList /\ Given(IdleList[i])
                            THEN Unlinked(rest[i - 1], IdleList[i]) ELSE rest[i - 1]
           /\ RestOfList = rest[Most]
<1> DEFINE Step(i, l) == IF i \in DOMAIN IdleList /\ Given(IdleList[i])
                           THEN Unlinked(l, IdleList[i]) ELSE l
           Walks(f) == f = [i \in 0 .. Most |-> IF i = 0 THEN List ELSE Step(i, f[i - 1])]
           rest == CHOOSE f : Walks(f)
<1>1. \A i \in Nat, l \in Lists : Step(i, l) \in Lists
  BY IdleListTyped, UnlinkedTyped
<1>4. RestOfList = rest[Most]
  BY DEF RestOfList
<1> HIDE DEF Step
<1>2. \E f : Walks(f)
  <2> DEFINE step == [i \in 1 .. Most |-> [l \in Lists |-> Step(i, l)]]
  <2>1. step \in [1 .. Most -> [Lists -> Lists]] /\ List \in Lists
    BY <1>1, ListTyped, MostNat
  <2>2. PICK f \in [0 .. Most -> Lists] :
          f[0] = List /\ \A i \in 1 .. Most : f[i] = step[i][f[i - 1]]
    <3> HIDE DEF step
    <3>1. Most \in Nat
      BY MostNat
    <3> QED BY <2>1, <3>1, Repeats
  <2>3. ASSUME NEW i \in 1 .. Most PROVE f[i] = Step(i, f[i - 1])
    <3>1. i - 1 \in 0 .. Most
      BY MostNat
    <3>2. f[i - 1] \in Lists
      BY <3>1, <2>2
    <3> QED BY <3>2, <2>2
  <2>4. Walks(f)
    BY <2>2, <2>3, MostNat
  <2> QED BY <2>4
<1>3. Walks(rest)
  BY <1>2
<1> HIDE DEF rest
<1>5. rest[0] = List /\ \A i \in 1 .. Most : rest[i] = Step(i, rest[i - 1])
  BY <1>3, MostNat
<1>6. \A i \in 1 .. Most : rest[i - 1] \in Lists => rest[i] \in Lists
  BY <1>1, <1>5, MostNat
<1>7. \A i \in 0 .. Most : rest[i] \in Lists
  BY <1>5, <1>6, ListTyped, MostNat, HoldsThroughout
<1>8. rest \in [0 .. Most -> Lists]
  BY <1>3, <1>7
<1> QED BY <1>4, <1>5, <1>8 DEF Step

(* What a batch leaves of the list is a list.                              *)
LEMMA RestTyped ==
  ASSUME TypeOK
  PROVE  RestOfList \in Lists
<1>1. PICK rest \in [0 .. Most -> Lists] : RestOfList = rest[Most]
  BY RestSteps
<1> QED BY <1>1, MostNat

LEMMA BatEndTyped ==
  ASSUME TypeOK, SetList(RestOfList)
  PROVE  /\ thr_first' \in Workers \cup {Nil}
         /\ nxt' \in [Workers -> Workers \cup {Nil}]
         /\ prv' \in [Workers -> Workers \cup {Nil}]
BY RestTyped, SetListTyped

-----------------------------------------------------------------------------
(* A call that adds a job has room for it.                                 *)
LEMMA CallsFinite == IsFiniteSet(Calls) /\ Cardinality(Calls) \in Nat
<1>1. Calls \subseteq Clients
  BY DEF Calls
<1> QED BY <1>1, PoolAssumption, FS_Subset, FS_CardinalityType

LEMMA CallFits ==
  ASSUME TypeOK, CallsFit, NEW c \in Clients, c \in Calls \/ Room
  PROVE  added + 1 \in Jobs /\ added + 1 \in 1 .. MaxJobs
<1>1. added \in Nat
  BY DEF TypeOK
<1>2. CASE c \in Calls
  <2>1. Cardinality(Calls) # 0
    BY <1>2, CallsFinite, FS_EmptySet
  <2>2. added + 1 <= MaxJobs
    BY <1>1, <2>1, CallsFinite, PoolAssumption DEF CallsFit
  <2> QED BY <1>1, <2>2, PoolAssumption DEF Jobs
<1>3. CASE Room
  <2>1. added + 1 <= MaxJobs
    BY <1>1, <1>3, CallsFinite, PoolAssumption DEF Room
  <2> QED BY <1>1, <2>1, PoolAssumption DEF Jobs
<1> QED BY <1>2, <1>3

(* The steps of a worker keep the types.                                   *)
LEMMA WorkerTyped ==
  ASSUME TypeOK, RunningRun, NEW w \in Workers, Worker(w) \/ Expire(w) \/ WakeSpuriously(w)
  PROVE  TypeOK'
<1> USE DEF TypeOK
<1>1. CASE WorkerStarts(w) \/ Expire(w) \/ WakeSpuriously(w)
  BY <1>1 DEF WorkerStarts, Expire, WakeSpuriously, listVars, flagVars, clientVars
<1>9. CASE WorkerInitFails(w)
  BY <1>9 DEF WorkerInitFails, listVars, flagVars, clientVars
<1>2. CASE RunOwn(w)
  BY <1>2 DEF RunOwn, HasLock, listVars, flagVars, clientVars
<1>3. ASSUME LeaveList(w)
      PROVE  /\ thr_first' \in Workers \cup {Nil}
             /\ nxt' \in [Workers -> Workers \cup {Nil}]
             /\ prv' \in [Workers -> Workers \cup {Nil}]
             /\ idle' \in Int
  <2>1. CASE UNCHANGED <<listVars, idle>>
    BY <2>1 DEF listVars
  <2>2. CASE Unlink(w) /\ idle' = idle - 1
    BY <2>2, UnlinkTyped
  <2> QED BY <1>3, <2>1, <2>2 DEF LeaveList
<1>4. CASE RunQueued(w)
  <2>1. Head(queue) \in Jobs /\ Tail(queue) \in Seq(Jobs)
    BY <1>4, HeadTailProperties DEF RunQueued
  <2> QED BY <1>4, <1>3, <2>1 DEF RunQueued, HasLock, flagVars, clientVars
<1>5. CASE JobEnds(w)
  <2>1. ran' \subseteq Jobs
    BY <1>5 DEF JobEnds, RunningRun
  <2> QED BY <1>5, <2>1 DEF JobEnds, listVars, flagVars, clientVars
<1>6. CASE BeginWait(w)
  <2>1. 0 \in 0 .. wait_count
    BY PoolAssumption
  <2> QED BY <1>6, <2>1, LinkFirstTyped DEF BeginWait, HasLock, flagVars, clientVars
<1>7. CASE WaitAgain(w)
  <2>1. waits' \in [Workers -> 0 .. wait_count]
    <3>1. waits[w] + 1 \in 0 .. wait_count \/ pc[w] # "expired"
      BY <1>7, PoolAssumption DEF WaitAgain, Enough
    <3>2. 0 \in 0 .. wait_count
      BY PoolAssumption
    <3> QED BY <1>7, <3>1, <3>2 DEF WaitAgain
  <2> QED BY <1>7, <2>1 DEF WaitAgain, HasLock, listVars, flagVars, clientVars
<1>8. CASE WorkerEnds(w)
  <2>1. 0 \in 0 .. wait_count
    BY PoolAssumption
  <2>2. cpc' \in [Clients -> {"idle", "add", "signal", "batlock", "batfirst", "bat", "batclear",
                              "stop", "stopwait", "stopwoken"}]
    BY <1>8 DEF WorkerEnds
  <2>3. count' \in Int /\ waits' \in [Workers -> 0 .. wait_count]
    BY <1>8, <2>1 DEF WorkerEnds
  <2> QED BY <1>8, <1>3, <2>2, <2>3 DEF WorkerEnds, flagVars
<1> QED BY <1>1, <1>2, <1>4, <1>5, <1>6, <1>7, <1>8, <1>9 DEF Worker

(* Those of a client that adds jobs.                                       *)
LEMMA EnqueueTyped ==
  ASSUME TypeOK, Enqueue, added + 1 \in Jobs
  PROVE  /\ queue' \in Seq(Jobs) /\ count' \in Int
         /\ pc' \in [Workers -> {"none", "init", "look", "run", "wait", "woken", "expired"}]
<1>1. queue' \in Seq(Jobs)
  BY AppendProperties DEF TypeOK, Enqueue
<1>2. CASE /\ count < parallelism
           /\ \E w \in Workers : pc[w] = "none" /\ pc' = [pc EXCEPT ![w] = "init"]
           /\ count' = count + 1
  BY <1>1, <1>2 DEF TypeOK
<1>3. CASE UNCHANGED <<pc, count>>
  BY <1>1, <1>3 DEF TypeOK
<1> QED BY <1>2, <1>3 DEF Enqueue, MoreThreads

LEMMA SignalTyped ==
  ASSUME TypeOK, NEW ws, Signal(ws)
  PROVE  pc' \in [Workers -> {"none", "init", "look", "run", "wait", "woken", "expired"}]
BY DEF TypeOK, Signal

LEMMA AdderTyped ==
  ASSUME TypeOK, CallsFit, NEW c \in Clients,
         \/ JobDeliver(c) \/ DeliverSignal(c) \/ JobQueue(c) \/ AddBegins(c) \/ BatBegins(c)
         \/ BatLocks(c) \/ BatGive(c) \/ BatQueue(c) \/ BatEnd(c) \/ BatClear(c)
  PROVE  TypeOK'
<1> USE DEF TypeOK, CallerAt
<1>1. CASE AddBegins(c) \/ BatBegins(c) \/ BatLocks(c) \/ BatClear(c)
  BY <1>1 DEF AddBegins, BatBegins, BatLocks, BatClear, workerVars, listVars, flagVars
<1>2. CASE JobDeliver(c)
  <2>1. added + 1 \in Jobs /\ added + 1 \in 0 .. MaxJobs
    BY <1>2, CallFits DEF JobDeliver, Calls
  <2>2. thr_first \in Workers
    BY <1>2 DEF JobDeliver, Idler
  <2> QED BY <1>2, <2>1, <2>2, UnlinkTyped DEF JobDeliver, flagVars
<1>3. CASE DeliverSignal(c)
  BY <1>3, SignalTyped DEF DeliverSignal, listVars, flagVars
<1>4. CASE JobQueue(c)
  <2>1. added + 1 \in Jobs /\ added + 1 \in 0 .. MaxJobs
    BY <1>4, CallFits DEF JobQueue, Calls
  <2> QED BY <1>4, <2>1, EnqueueTyped DEF JobQueue, listVars, flagVars
<1>5. CASE BatGive(c)
  <2>1. added + 1 \in Jobs /\ added + 1 \in 0 .. MaxJobs
    BY <1>5, CallFits DEF BatGive, InBatch, Calls
  <2> QED BY <1>5, <2>1 DEF BatGive, InBatch, listVars, flagVars
<1>6. CASE BatQueue(c)
  <2>1. added + 1 \in Jobs /\ added + 1 \in 0 .. MaxJobs
    BY <1>6, CallFits DEF BatQueue, InBatch, Calls
  <2> QED BY <1>6, <2>1, EnqueueTyped DEF BatQueue, InBatch, listVars, flagVars
<1>7. CASE BatEnd(c)
  BY <1>7, BatEndTyped, SignalTyped DEF BatEnd, flagVars
<1> QED BY <1>1, <1>2, <1>3, <1>4, <1>5, <1>6, <1>7

(* And those of a client that stops the pool.                              *)
LEMMA StopperTyped ==
  ASSUME TypeOK, NEW c \in Clients,
         Stop(c) \/ Destroy(c) \/ WaitWorkers(c) \/ WaitWorkersWoken(c)
  PROVE  TypeOK'
<1> USE DEF TypeOK, CallerAt, Stopped
<1>1. CASE Stop(c) \/ Destroy(c)
  BY <1>1 DEF Stop, Destroy, workerVars, listVars
<1>2. CASE WaitWorkers(c)
  BY <1>2, SignalTyped DEF WaitWorkers, listVars
<1>3. CASE WaitWorkersWoken(c)
  BY <1>3 DEF WaitWorkersWoken, workerVars, listVars
<1> QED BY <1>1, <1>2, <1>3

LEMMA NextTyped ==
  ASSUME TypeOK, RunningRun, CallsFit, [Next]_poolVars
  PROVE  TypeOK'
<1>1. CASE UNCHANGED poolVars
  BY <1>1 DEF poolVars, TypeOK
<1>2. CASE \E w \in Workers : Worker(w) \/ Expire(w) \/ WakeSpuriously(w)
  BY <1>2, WorkerTyped
<1>3. CASE \E c \in Clients : Client(c) \/ AddBegins(c) \/ BatBegins(c) \/ Stop(c) \/ Destroy(c)
  BY <1>3, AdderTyped, StopperTyped DEF Client
<1> QED BY <1>1, <1>2, <1>3 DEF Next

-----------------------------------------------------------------------------
(* No step lets in more calls than there is room for.                      *)
LEMMA CallsFiniteNext == IsFiniteSet(Calls') /\ Cardinality(Calls') \in Nat
<1>1. Calls' \subseteq Clients
  BY DEF Calls
<1> QED BY <1>1, PoolAssumption, FS_Subset, FS_CardinalityType

LEMMA NextCallsFit ==
  ASSUME TypeOK, CallsFit, [Next]_poolVars
  PROVE  CallsFit'
<1> USE DEF CallerAt
<1>0. added \in Nat /\ MaxJobs \in Nat
  BY PoolAssumption DEF TypeOK
<1>1. ASSUME Calls' = Calls, added' = added PROVE CallsFit'
  BY <1>1 DEF CallsFit
<1>2. ASSUME NEW c \in Clients, AddBegins(c) \/ BatBegins(c) PROVE CallsFit'
  <2>1. c \notin Calls /\ Calls' = Calls \cup {c} /\ added' = added /\ Room
    BY <1>2 DEF AddBegins, BatBegins, Calls, TypeOK
  <2>2. Cardinality(Calls') = Cardinality(Calls) + 1
    BY <2>1, CallsFinite, FS_AddElement
  <2> QED BY <1>0, <2>1, <2>2, CallsFinite DEF Room, CallsFit
<1>3. ASSUME NEW c \in Calls, Calls' = Calls \ {c}, added' = added + 1 PROVE CallsFit'
  <2>1. Cardinality(Calls') = Cardinality(Calls) - 1
    BY <1>3, CallsFinite, FS_RemoveElement
  <2> QED BY <1>0, <1>3, <2>1, CallsFinite DEF CallsFit
<1>4. ASSUME NEW c \in Clients, JobDeliver(c) \/ JobQueue(c) PROVE CallsFit'
  <2>1. c \in Calls /\ Calls' = Calls \ {c} /\ added' = added + 1
    BY <1>4 DEF JobDeliver, JobQueue, Calls, TypeOK
  <2> QED BY <2>1, <1>3
<1>5. ASSUME NEW c \in Clients, BatGive(c) \/ BatQueue(c) PROVE CallsFit'
  <2>1. added' = added + 1 /\ cpc' = [cpc EXCEPT ![c] = "bat"] /\ (c \in Calls \/ Room)
    BY <1>5 DEF BatGive, BatQueue, InBatch, Calls
  <2>2. CASE c \in Calls
    <3>1. Calls' = Calls \ {c}
      BY <2>1, <2>2 DEF Calls, TypeOK
    <3> QED BY <2>1, <2>2, <3>1, <1>3
  <2>3. CASE c \notin Calls
    <3>1. Calls' = Calls
      BY <2>1, <2>3 DEF Calls, TypeOK
    <3> QED BY <1>0, <2>1, <2>3, <3>1, CallsFinite DEF Room, CallsFit
  <2> QED BY <2>2, <2>3
<1>6. ASSUME NEW c \in Clients,
             \/ DeliverSignal(c) \/ BatLocks(c) \/ BatEnd(c) \/ BatClear(c)
             \/ Stop(c) \/ Destroy(c) \/ WaitWorkers(c) \/ WaitWorkersWoken(c)
      PROVE  Calls' = Calls /\ added' = added
  BY <1>6 DEF DeliverSignal, BatLocks, BatEnd, BatClear, Stop, Destroy, WaitWorkers,
     WaitWorkersWoken, Stopped, Calls, TypeOK
<1>7. ASSUME NEW w \in Workers, Worker(w) \/ Expire(w) \/ WakeSpuriously(w)
      PROVE  Calls' = Calls /\ added' = added
  <2>1. CASE WorkerEnds(w)
    BY <2>1 DEF WorkerEnds, Calls, TypeOK
  <2>2. CASE ~WorkerEnds(w)
    BY <1>7, <2>2 DEF Worker, WorkerStarts, WorkerInitFails, RunOwn, RunQueued, JobEnds,
       BeginWait, WaitAgain, Expire, WakeSpuriously, clientVars, Calls
  <2> QED BY <2>1, <2>2
<1>8. UNCHANGED poolVars => Calls' = Calls /\ added' = added
  BY DEF poolVars, Calls
<1> QED BY <1>1, <1>2, <1>4, <1>5, <1>6, <1>7, <1>8 DEF Next, Client

-----------------------------------------------------------------------------
(* count follows the threads: it is only changed with one.                 *)
LEMMA ThreadsFinite ==
  /\ IsFiniteSet(Threads) /\ Cardinality(Threads) \in Nat
  /\ IsFiniteSet(Threads') /\ Cardinality(Threads') \in Nat
<1>1. Threads \subseteq Workers /\ Threads' \subseteq Workers
  BY DEF Threads
<1> QED BY <1>1, PoolAssumption, FS_Subset, FS_CardinalityType

LEMMA SameThreads ==
  ASSUME CountExact, Threads' = Threads, count' = count
  PROVE  CountExact'
BY DEF CountExact

LEMMA ThreadEnds ==
  ASSUME TypeOK, CountExact, NEW w \in Workers, pc[w] # "none",
         pc' = [pc EXCEPT ![w] = "none"], count' = count - 1
  PROVE  CountExact'
<1>1. w \in Threads /\ Threads' = Threads \ {w}
  BY DEF Threads, TypeOK
<1>2. Cardinality(Threads') = Cardinality(Threads) - 1
  BY <1>1, ThreadsFinite, FS_RemoveElement
<1> QED BY <1>2, ThreadsFinite, PoolAssumption DEF CountExact

LEMMA EnqueueCounts ==
  ASSUME TypeOK, CountExact, Enqueue
  PROVE  CountExact'
<1>1. CASE UNCHANGED <<pc, count>>
  BY <1>1, SameThreads DEF Threads
<1>2. ASSUME count < parallelism, count' = count + 1,
             NEW w \in Workers, pc[w] = "none", pc' = [pc EXCEPT ![w] = "init"]
      PROVE  CountExact'
  <2>1. w \notin Threads /\ Threads' = Threads \cup {w}
    BY <1>2 DEF Threads, TypeOK
  <2>2. Cardinality(Threads') = Cardinality(Threads) + 1
    BY <2>1, ThreadsFinite, FS_AddElement
  <2> QED BY <1>2, <2>2, ThreadsFinite, PoolAssumption DEF CountExact
<1> QED BY <1>1, <1>2 DEF Enqueue, MoreThreads

LEMMA SignalThreads ==
  ASSUME TypeOK, NEW ws, Signal(ws)
  PROVE  /\ Threads' = Threads
         /\ \A w \in Workers : pc[w] = "run" <=> pc'[w] = "run"
BY DEF TypeOK, Signal, Threads

(* The threads and what they run.                                          *)
LEMMA NextCounts ==
  ASSUME TypeOK, CountExact, RunningRun, OnePlace, [Next]_poolVars
  PROVE  CountExact' /\ RunningRun'
<1> USE DEF CallerAt
<1>1. ASSUME NEW w \in Workers, WorkerInitFails(w) \/ WorkerEnds(w)
      PROVE  CountExact' /\ RunningRun'
  <2>1. CountExact'
    BY <1>1, ThreadEnds DEF WorkerInitFails, WorkerEnds, HasLock
  <2>2. RunningRun'
    BY <1>1 DEF WorkerInitFails, WorkerEnds, HasLock, RunningRun, TypeOK
  <2> QED BY <2>1, <2>2
<1>2. ASSUME NEW w \in Workers,
             \/ WorkerStarts(w) \/ RunOwn(w) \/ RunQueued(w) \/ JobEnds(w)
             \/ BeginWait(w) \/ WaitAgain(w) \/ Expire(w) \/ WakeSpuriously(w)
      PROVE  CountExact' /\ RunningRun'
  <2>1. Threads' = Threads /\ count' = count
    BY <1>2 DEF WorkerStarts, RunOwn, RunQueued, JobEnds, BeginWait, WaitAgain, Expire,
       WakeSpuriously, HasLock, Threads, TypeOK
  <2>2. ASSUME RunOwn(w) PROVE RunningRun'
    BY <2>2 DEF RunOwn, RunningRun, TypeOK
  <2>3. ASSUME RunQueued(w) PROVE RunningRun'
    <3>1. Head(queue) \in Jobs /\ Nil \notin Jobs
      BY <2>3, HeadTailProperties, PoolAssumption DEF RunQueued, TypeOK, Jobs
    <3> QED BY <2>3, <3>1 DEF RunQueued, RunningRun, TypeOK
  <2>4. ASSUME ~RunOwn(w), ~RunQueued(w) PROVE RunningRun'
    BY <1>2, <2>4 DEF WorkerStarts, JobEnds, BeginWait, WaitAgain, Expire,
       WakeSpuriously, HasLock, RunningRun, TypeOK
  <2> QED BY <2>1, <2>2, <2>3, <2>4, SameThreads
<1>3. ASSUME NEW c \in Clients, JobQueue(c) \/ BatQueue(c) PROVE CountExact' /\ RunningRun'
  <2>1. Enqueue /\ running' = running
    BY <1>3 DEF JobQueue, BatQueue
  <2>2. RunningRun'
    BY <2>1 DEF Enqueue, MoreThreads, RunningRun, TypeOK
  <2> QED BY <2>1, <2>2, EnqueueCounts
<1>4. ASSUME NEW c \in Clients, DeliverSignal(c) \/ BatEnd(c) \/ WaitWorkers(c)
      PROVE  CountExact' /\ RunningRun'
  <2>1. count' = count /\ running' = running
    BY <1>4 DEF DeliverSignal, BatEnd, WaitWorkers
  <2>2. pc' = pc \/ \E ws : Signal(ws)
    BY <1>4 DEF DeliverSignal, BatEnd, WaitWorkers
  <2>3. CASE pc' = pc
    BY <2>1, <2>3 DEF CountExact, RunningRun, Threads
  <2>4. CASE \E ws : Signal(ws)
    BY <2>1, <2>4, SignalThreads, SameThreads DEF RunningRun
  <2> QED BY <2>2, <2>3, <2>4
<1>5. ASSUME \/ UNCHANGED poolVars
             \/ \E c \in Clients :
                  \/ JobDeliver(c) \/ AddBegins(c) \/ BatBegins(c) \/ BatLocks(c)
                  \/ BatGive(c) \/ BatClear(c) \/ Stop(c) \/ Destroy(c) \/ WaitWorkersWoken(c)
      PROVE  CountExact' /\ RunningRun'
  <2>1. UNCHANGED <<pc, running, count>>
    BY <1>5 DEF poolVars, JobDeliver, AddBegins, BatBegins, BatLocks, BatGive, BatClear,
       Stop, Destroy, WaitWorkersWoken, workerVars
  <2> QED BY <2>1 DEF CountExact, RunningRun, Threads
<1> QED BY <1>1, <1>2, <1>3, <1>4, <1>5 DEF Next, Worker, Client

-----------------------------------------------------------------------------
(* A job moves from one place to the next: from the worker it was given to *)
(* into the running,                                                       *)
LEMMA OwnMoves ==
  ASSUME TypeOK, OnePlace, RunningRun, NEW w \in Workers, RunOwn(w)
  PROVE  /\ OnePlace' /\ own[w] \in Waiting
         /\ Waiting' = Waiting \ {own[w]} /\ Running' = Running \cup {own[w]}
<1> DEFINE j == own[w]
<1>1. /\ j \in Jobs /\ j # Nil /\ Nil \notin Jobs /\ running[w] = Nil
      /\ own' = [own EXCEPT ![w] = Nil] /\ running' = [running EXCEPT ![w] = j]
      /\ queue' = queue /\ ran' = ran /\ added' = added
  BY PoolAssumption DEF RunOwn, HasLock, RunningRun, TypeOK, clientVars, Jobs
<1>2. own \in [Workers -> Jobs \cup {Nil}] /\ running \in [Workers -> Jobs \cup {Nil}]
  BY DEF TypeOK
<1> HIDE DEF j
<1>3. /\ \A i \in DOMAIN queue : queue[i] # j
      /\ \A u \in Workers : (own[u] = j => u = w) /\ running[u] # j
  BY <1>1 DEF OnePlace, j
<1>4. j \in Waiting
  BY <1>1 DEF Waiting, j
<1>5. Waiting' = Waiting \ {j}
  BY <1>1, <1>2, <1>3 DEF Waiting, j
<1>6. Running' = Running \cup {j}
  BY <1>1, <1>2 DEF Running
<1>7. OnePlace'
  <2>1. /\ \A i, k \in DOMAIN queue' : queue'[i] = queue'[k] => i = k
        /\ \A i \in DOMAIN queue', u \in Workers : queue'[i] # own'[u] /\ queue'[i] # running'[u]
    <3>1. \A i \in DOMAIN queue : queue[i] # Nil
      BY <1>1 DEF TypeOK
    <3> QED BY <1>1, <1>2, <1>3, <3>1 DEF OnePlace
  <2>2. \A u, t \in Workers : own'[u] # Nil /\ own'[u] = own'[t] => u = t
    BY <1>1, <1>2 DEF OnePlace
  <2>3. \A u, t \in Workers : running'[u] # Nil /\ running'[u] = running'[t] => u = t
    BY <1>1, <1>2, <1>3 DEF OnePlace
  <2>4. \A u, t \in Workers : own'[u] # Nil => own'[u] # running'[t]
    BY <1>1, <1>2, <1>3 DEF OnePlace
  <2>5. /\ (Waiting' \cup Running') \cap ran' = {}
        /\ Waiting' \cup Running' \cup ran' \subseteq 1 .. added'
    BY <1>1, <1>4, <1>5, <1>6 DEF OnePlace
  <2> QED BY <2>1, <2>2, <2>3, <2>4, <2>5 DEF OnePlace
<1> QED BY <1>4, <1>5, <1>6, <1>7 DEF j

(* or from the queue,                                                      *)
LEMMA QueuedMoves ==
  ASSUME TypeOK, OnePlace, RunningRun, NEW w \in Workers, RunQueued(w)
  PROVE  /\ OnePlace' /\ Head(queue) \in Waiting
         /\ Waiting' = Waiting \ {Head(queue)} /\ Running' = Running \cup {Head(queue)}
<1> DEFINE j == Head(queue)
<1>1. /\ queue \in Seq(Jobs) /\ queue # << >> /\ Nil \notin Jobs /\ running[w] = Nil
      /\ queue' = Tail(queue) /\ running' = [running EXCEPT ![w] = j]
      /\ own' = own /\ ran' = ran /\ added' = added
  BY PoolAssumption DEF RunQueued, HasLock, RunningRun, TypeOK, clientVars, Jobs
<1>2. /\ j = queue[1] /\ 1 \in DOMAIN queue /\ DOMAIN queue = 1 .. Len(queue)
      /\ Len(queue) \in Nat
      /\ DOMAIN Tail(queue) = 1 .. Len(queue) - 1
      /\ \A i \in 1 .. Len(queue) - 1 : Tail(queue)[i] = queue[i + 1]
  BY <1>1, HeadTailProperties, LenProperties, EmptySeq
<1>3. own \in [Workers -> Jobs \cup {Nil}] /\ running \in [Workers -> Jobs \cup {Nil}]
  BY DEF TypeOK
<1>4. j \in Jobs
  BY <1>1, <1>2
<1> HIDE DEF j
<1>5. \A u \in Workers : own[u] # j /\ running[u] # j
  BY <1>2 DEF OnePlace
<1>6. \A i \in 1 .. Len(queue) - 1 : i + 1 \in DOMAIN queue /\ queue'[i] = queue[i + 1] /\ queue[i + 1] # j
  BY <1>1, <1>2 DEF OnePlace
<1>7. j \in Waiting
  BY <1>2 DEF Waiting
<1>8. Waiting' = Waiting \ {j}
  <2>1. {queue'[i] : i \in DOMAIN queue'} = {queue[i] : i \in DOMAIN queue} \ {j}
    <3>1. ASSUME NEW i \in DOMAIN queue, queue[i] # j
          PROVE  \E k \in DOMAIN queue' : queue'[k] = queue[i]
      <4>1. i # 1 /\ i - 1 \in 1 .. Len(queue) - 1 /\ (i - 1) + 1 = i
        BY <3>1, <1>2
      <4> QED BY <4>1, <1>1, <1>2, <1>6
    <3> QED BY <3>1, <1>1, <1>2, <1>6
  <2>2. j \notin {own[u] : u \in {t \in Workers : own[t] # Nil}}
    BY <1>5
  <2> QED BY <1>1, <2>1, <2>2 DEF Waiting
<1>9. Running' = Running \cup {j}
  BY <1>1, <1>3, <1>4 DEF Running
<1>10. OnePlace'
  <2>1. \A i, k \in DOMAIN queue' : queue'[i] = queue'[k] => i = k
    BY <1>1, <1>2, <1>6 DEF OnePlace
  <2>2. \A i \in DOMAIN queue', u \in Workers : queue'[i] # own'[u] /\ queue'[i] # running'[u]
    BY <1>1, <1>2, <1>3, <1>6 DEF OnePlace
  <2>3. \A u, t \in Workers : running'[u] # Nil /\ running'[u] = running'[t] => u = t
    BY <1>1, <1>3, <1>5 DEF OnePlace
  <2>4. \A u, t \in Workers : own'[u] # Nil => own'[u] # running'[t]
    BY <1>1, <1>3, <1>5 DEF OnePlace
  <2>5. \A u, t \in Workers : own'[u] # Nil /\ own'[u] = own'[t] => u = t
    BY <1>1 DEF OnePlace
  <2>6. /\ (Waiting' \cup Running') \cap ran' = {}
        /\ Waiting' \cup Running' \cup ran' \subseteq 1 .. added'
    BY <1>1, <1>7, <1>8, <1>9 DEF OnePlace
  <2> QED BY <2>1, <2>2, <2>3, <2>4, <2>5, <2>6 DEF OnePlace
<1> QED BY <1>7, <1>8, <1>9, <1>10 DEF j

(* from there to the jobs that ended.                                      *)
LEMMA EndMoves ==
  ASSUME TypeOK, OnePlace, RunningRun, NEW w \in Workers, JobEnds(w)
  PROVE  /\ OnePlace' /\ running[w] \in Running
         /\ Waiting' = Waiting /\ Running' = Running \ {running[w]}
         /\ ran' = ran \cup {running[w]}
<1> DEFINE j == running[w]
<1>1. /\ j \in Jobs /\ Nil \notin Jobs
      /\ running' = [running EXCEPT ![w] = Nil] /\ ran' = ran \cup {j}
      /\ own' = own /\ queue' = queue /\ added' = added
  BY PoolAssumption DEF JobEnds, RunningRun, TypeOK, clientVars, Jobs
<1>2. running \in [Workers -> Jobs \cup {Nil}] /\ own \in [Workers -> Jobs \cup {Nil}]
  BY DEF TypeOK
<1> HIDE DEF j
<1>3. \A u \in Workers : running[u] = j => u = w
  BY <1>1 DEF OnePlace, j
<1>4. j \in Running /\ j \notin Waiting
  BY <1>1 DEF Running, Waiting, OnePlace, j
<1>5. Waiting' = Waiting
  BY <1>1 DEF Waiting
<1>6. Running' = Running \ {j}
  BY <1>1, <1>2, <1>3 DEF Running, j
<1>7. OnePlace'
  <2>1. \A i \in DOMAIN queue : queue[i] # Nil
    BY <1>1 DEF TypeOK
  <2>2. /\ (Waiting' \cup Running') \cap ran' = {}
        /\ Waiting' \cup Running' \cup ran' \subseteq 1 .. added'
    BY <1>1, <1>4, <1>5, <1>6 DEF OnePlace
  <2>3. \A u, t \in Workers : running'[u] # Nil /\ running'[u] = running'[t] => u = t
    BY <1>1, <1>2 DEF OnePlace
  <2>4. \A i \in DOMAIN queue, u \in Workers : queue[i] # running'[u]
    BY <1>1, <1>2, <2>1 DEF OnePlace
  <2>5. \A u, t \in Workers : own[u] # Nil => own[u] # running'[t]
    BY <1>1, <1>2 DEF OnePlace
  <2> QED BY <1>1, <2>2, <2>3, <2>4, <2>5 DEF OnePlace
<1> QED BY <1>1, <1>4, <1>5, <1>6, <1>7 DEF j

-----------------------------------------------------------------------------
(* A job that is added is a new one, whether a worker is given it          *)
LEMMA GiveSubmits ==
  ASSUME TypeOK, OnePlace, NEW w \in Workers, own[w] = Nil, added + 1 \in Jobs,
         own' = [own EXCEPT ![w] = added + 1], added' = added + 1,
         UNCHANGED <<queue, running, ran>>
  PROVE  /\ OnePlace' /\ added + 1 \notin Waiting \cup Running \cup ran
         /\ Waiting' = Waiting \cup {added + 1} /\ Running' = Running
<1>1. /\ added \in Nat /\ added + 1 # Nil /\ Nil \notin Jobs
      /\ own \in [Workers -> Jobs \cup {Nil}] /\ running \in [Workers -> Jobs \cup {Nil}]
  BY PoolAssumption DEF TypeOK, Jobs
<1>2. added + 1 \notin Waiting \cup Running \cup ran
  BY <1>1 DEF OnePlace
<1>3. /\ \A i \in DOMAIN queue : queue[i] # added + 1
      /\ \A u \in Workers : own[u] # added + 1 /\ running[u] # added + 1
  BY <1>1, <1>2 DEF Waiting, Running
<1>4. Waiting' = Waiting \cup {added + 1}
  BY <1>1 DEF Waiting
<1>5. Running' = Running
  BY DEF Running
<1>6. OnePlace'
  <2>1. \A u, t \in Workers : own'[u] # Nil /\ own'[u] = own'[t] => u = t
    BY <1>1, <1>3 DEF OnePlace
  <2>2. \A u, t \in Workers : own'[u] # Nil => own'[u] # running'[t]
    BY <1>1, <1>3 DEF OnePlace
  <2>3. \A i \in DOMAIN queue', u \in Workers : queue'[i] # own'[u] /\ queue'[i] # running'[u]
    BY <1>1, <1>3 DEF OnePlace
  <2>4. (Waiting' \cup Running') \cap ran' = {}
    BY <1>2, <1>4, <1>5 DEF OnePlace
  <2>5. Waiting' \cup Running' \cup ran' \subseteq 1 .. added'
    <3>1. 1 .. added \subseteq 1 .. added + 1 /\ added + 1 \in 1 .. added + 1
      BY <1>1
    <3> QED BY <1>4, <1>5, <3>1 DEF OnePlace
  <2>6. /\ \A i, k \in DOMAIN queue' : queue'[i] = queue'[k] => i = k
        /\ \A u, t \in Workers : running'[u] # Nil /\ running'[u] = running'[t] => u = t
    BY DEF OnePlace
  <2> QED BY <2>1, <2>2, <2>3, <2>4, <2>5, <2>6 DEF OnePlace
<1> QED BY <1>2, <1>4, <1>5, <1>6

(* or the queue.                                                           *)
LEMMA EnqueueSubmits ==
  ASSUME TypeOK, OnePlace, added + 1 \in Jobs, Enqueue, added' = added + 1,
         UNCHANGED <<own, running, ran>>
  PROVE  /\ OnePlace' /\ added + 1 \notin Waiting \cup Running \cup ran
         /\ Waiting' = Waiting \cup {added + 1} /\ Running' = Running
<1>1. /\ added \in Nat /\ added + 1 # Nil /\ Nil \notin Jobs /\ queue \in Seq(Jobs)
      /\ own \in [Workers -> Jobs \cup {Nil}] /\ running \in [Workers -> Jobs \cup {Nil}]
  BY PoolAssumption DEF TypeOK, Jobs
<1>2. added + 1 \notin Waiting \cup Running \cup ran
  BY <1>1 DEF OnePlace
<1>3. /\ \A i \in DOMAIN queue : queue[i] # added + 1
      /\ \A u \in Workers : own[u] # added + 1 /\ running[u] # added + 1
  BY <1>1, <1>2 DEF Waiting, Running
<1>4. /\ Len(queue) \in Nat /\ DOMAIN queue = 1 .. Len(queue)
      /\ DOMAIN queue' = 1 .. Len(queue) + 1 /\ queue'[Len(queue) + 1] = added + 1
      /\ \A i \in 1 .. Len(queue) : queue'[i] = queue[i]
  BY <1>1, AppendProperties, LenProperties DEF Enqueue
<1>5. \A i \in DOMAIN queue' : i = Len(queue) + 1 \/ i \in DOMAIN queue
  BY <1>4
<1>6. {queue'[i] : i \in DOMAIN queue'} = {queue[i] : i \in DOMAIN queue} \cup {added + 1}
  <2>1. Len(queue) + 1 \in DOMAIN queue' /\ DOMAIN queue \subseteq DOMAIN queue'
    BY <1>4
  <2> QED BY <1>4, <1>5, <2>1
<1>7. Waiting' = Waiting \cup {added + 1}
  BY <1>6 DEF Waiting
<1>8. Running' = Running
  BY DEF Running
<1>9. OnePlace'
  <2>1. \A i, k \in DOMAIN queue' : queue'[i] = queue'[k] => i = k
    BY <1>3, <1>4, <1>5 DEF OnePlace
  <2>2. \A i \in DOMAIN queue', u \in Workers : queue'[i] # own'[u] /\ queue'[i] # running'[u]
    BY <1>3, <1>4, <1>5 DEF OnePlace
  <2>3. (Waiting' \cup Running') \cap ran' = {}
    BY <1>2, <1>7, <1>8 DEF OnePlace
  <2>4. Waiting' \cup Running' \cup ran' \subseteq 1 .. added'
    <3>1. 1 .. added \subseteq 1 .. added + 1 /\ added + 1 \in 1 .. added + 1
      BY <1>1
    <3> QED BY <1>7, <1>8, <3>1 DEF OnePlace
  <2>5. /\ \A u, t \in Workers : own'[u] # Nil /\ own'[u] = own'[t] => u = t
        /\ \A u, t \in Workers : running'[u] # Nil /\ running'[u] = running'[t] => u = t
        /\ \A u, t \in Workers : own'[u] # Nil => own'[u] # running'[t]
    BY DEF OnePlace
  <2> QED BY <2>1, <2>2, <2>3, <2>4, <2>5 DEF OnePlace
<1> QED BY <1>2, <1>7, <1>8, <1>9

(* A worker that starts a job is a thread that runs none yet, so fewer     *)
(* than parallelism jobs run.                                              *)
LEMMA RunningLimited ==
  ASSUME TypeOK, CountExact, RunningRun, NEW w \in Workers, pc[w] # "none", pc[w] # "run"
  PROVE  Cardinality(Running) < parallelism
<1> DEFINE Busy == {u \in Workers : running[u] # Nil}
           job == [u \in Busy |-> running[u]]
<1>1. Busy \subseteq Threads \ {w} /\ w \in Threads
  BY DEF RunningRun, Threads, TypeOK
<1>2. IsFiniteSet(Threads \ {w}) /\ Cardinality(Threads \ {w}) = Cardinality(Threads) - 1
  BY <1>1, ThreadsFinite, FS_RemoveElement
<1>3. IsFiniteSet(Busy) /\ Cardinality(Busy) <= Cardinality(Threads) - 1
  BY <1>1, <1>2, FS_Subset
<1>4. job \in Surjection(Busy, Running)
  BY DEF Running, Surjection
<1> HIDE DEF Busy, job
<1>5. IsFiniteSet(Running) /\ Cardinality(Running) <= Cardinality(Busy)
  BY <1>3, <1>4, FS_Surjection
<1>6. Cardinality(Busy) \in Nat /\ Cardinality(Running) \in Nat
  BY <1>3, <1>5, FS_CardinalityType
<1> QED BY <1>3, <1>5, <1>6, ThreadsFinite, PoolAssumption DEF CountExact


(* Every step keeps a job in one place.                                    *)
LEMMA NextOnePlace ==
  ASSUME TypeOK, CallsFit, RunningRun, OnePlace, [Next]_poolVars
  PROVE  OnePlace'
<1> USE DEF CallerAt
<1>1. ASSUME UNCHANGED <<queue, own, running, ran, added>> PROVE OnePlace'
  BY <1>1 DEF OnePlace, Waiting, Running
<1>2. ASSUME NEW w \in Workers, Worker(w) \/ Expire(w) \/ WakeSpuriously(w) PROVE OnePlace'
  <2>1. CASE RunOwn(w)
    BY <2>1, OwnMoves
  <2>2. CASE RunQueued(w)
    BY <2>2, QueuedMoves
  <2>3. CASE JobEnds(w)
    BY <2>3, EndMoves
  <2>4. CASE \/ WorkerStarts(w) \/ WorkerInitFails(w) \/ BeginWait(w) \/ WaitAgain(w)
             \/ WorkerEnds(w) \/ Expire(w) \/ WakeSpuriously(w)
    <3>1. UNCHANGED <<queue, own, running, ran, added>>
      BY <2>4 DEF WorkerStarts, WorkerInitFails, BeginWait, WaitAgain, WorkerEnds, Expire,
         WakeSpuriously, clientVars
    <3> QED BY <3>1, <1>1
  <2> QED BY <1>2, <2>1, <2>2, <2>3, <2>4 DEF Worker
<1>3. ASSUME NEW c \in Clients, JobDeliver(c) PROVE OnePlace'
  <2>1. added + 1 \in Jobs
    BY <1>3, CallFits DEF JobDeliver, Calls
  <2>2. thr_first \in Workers /\ own[thr_first] = Nil
    BY <1>3 DEF JobDeliver, Idler, TypeOK
  <2> QED BY <1>3, <2>1, <2>2, GiveSubmits DEF JobDeliver
<1>4. ASSUME NEW c \in Clients, BatGive(c) PROVE OnePlace'
  <2>1. added + 1 \in Jobs
    BY <1>4, CallFits DEF BatGive, InBatch, Calls
  <2>2. PICK w \in Workers : own[w] = Nil /\ own' = [own EXCEPT ![w] = added + 1]
    BY <1>4 DEF BatGive, Given
  <2> QED BY <1>4, <2>1, <2>2, GiveSubmits DEF BatGive
<1>5. ASSUME NEW c \in Clients, JobQueue(c) \/ BatQueue(c) PROVE OnePlace'
  <2>1. added + 1 \in Jobs
    BY <1>5, CallFits DEF JobQueue, BatQueue, InBatch, Calls
  <2> QED BY <1>5, <2>1, EnqueueSubmits DEF JobQueue, BatQueue
<1>6. ASSUME \/ UNCHANGED poolVars
             \/ \E c \in Clients :
                  \/ DeliverSignal(c) \/ AddBegins(c) \/ BatBegins(c) \/ BatLocks(c)
                  \/ BatEnd(c) \/ BatClear(c) \/ Stop(c) \/ Destroy(c)
                  \/ WaitWorkers(c) \/ WaitWorkersWoken(c)
      PROVE  OnePlace'
  <2>1. UNCHANGED <<queue, own, running, ran, added>>
    BY <1>6 DEF poolVars, DeliverSignal, AddBegins, BatBegins, BatLocks, BatEnd, BatClear,
       Stop, Destroy, WaitWorkers, WaitWorkersWoken, workerVars
  <2> QED BY <2>1, <1>1
<1> QED BY <1>2, <1>3, <1>4, <1>5, <1>6 DEF Next, Client

-----------------------------------------------------------------------------
(* Every step leaves one client at most to stop the pool, and none to use  *)
(* it once it is being destroyed.                                          *)
LEMMA NextOneStops ==
  ASSUME TypeOK, CountExact, OneStops, LockInBatch, [Next]_poolVars
  PROVE  OneStops'
<1> USE DEF CallerAt
<1>1. ASSUME NEW w \in Workers, Worker(w) \/ Expire(w) \/ WakeSpuriously(w) PROVE OneStops'
  <2>1. pc[w] # "none" /\ valid' = valid /\ freed' = freed
    BY <1>1 DEF Worker, Expire, WakeSpuriously, WorkerStarts, WorkerInitFails, RunOwn, RunQueued,
       JobEnds, BeginWait, WaitAgain, WorkerEnds, HasLock, flagVars
  <2>2. \A c \in Clients : /\ Stopping(c)' <=> Stopping(c)
                           /\ cpc'[c] = "idle" <=> cpc[c] = "idle"
    <3>1. CASE WorkerEnds(w)
      BY <3>1 DEF WorkerEnds, Stopping
    <3>2. CASE cpc' = cpc
      BY <3>2 DEF Stopping
    <3> QED BY <1>1, <3>1, <3>2 DEF Worker, Expire, WakeSpuriously, WorkerStarts,
              WorkerInitFails, RunOwn, RunQueued, JobEnds, BeginWait, WaitAgain, clientVars
  <2>3. freed # "yes"
    BY <2>1 DEF OneStops, Threads
  <2> QED BY <2>1, <2>2, <2>3 DEF OneStops
<1>2. ASSUME NEW c \in Clients,
             \/ JobDeliver(c) \/ DeliverSignal(c) \/ JobQueue(c) \/ AddBegins(c) \/ BatBegins(c)
             \/ BatLocks(c) \/ BatGive(c) \/ BatQueue(c) \/ BatEnd(c) \/ BatClear(c)
      PROVE  OneStops'
  <2>1. /\ valid' = valid /\ freed' = freed
        /\ \E here : cpc' = [cpc EXCEPT ![c] = here] /\ here \notin {"stop", "stopwait", "stopwoken"}
    BY <1>2 DEF JobDeliver, DeliverSignal, JobQueue, AddBegins, BatBegins, BatLocks, BatGive,
       InBatch, BatQueue, BatEnd, BatClear, flagVars
  <2>2. freed = "no"
    <3>1. valid \/ cpc[c] \notin {"idle", "stop", "stopwait", "stopwoken"}
      <4>1. CASE BatGive(c) \/ BatQueue(c)
        BY <4>1 DEF BatGive, BatQueue, InBatch, LockInBatch
      <4> QED BY <1>2, <4>1 DEF JobDeliver, DeliverSignal, JobQueue, AddBegins, BatBegins,
                BatLocks, BatEnd, BatClear
    <3> QED BY <3>1 DEF OneStops, Stopping
  <2> QED BY <2>1, <2>2 DEF OneStops, Stopping, TypeOK
<1>3. ASSUME NEW c \in Clients, Stop(c) \/ Destroy(c) PROVE OneStops'
  <2>1. /\ valid /\ valid' = FALSE /\ cpc' = [cpc EXCEPT ![c] = "stop"]
        /\ \/ freed' = freed
           \/ freed' = "soon" /\ \A d \in Clients : cpc[d] = "idle"
    BY <1>3 DEF Stop, Destroy
  <2>2. freed = "no" /\ \A d \in Clients : ~Stopping(d)
    BY <2>1 DEF OneStops, TypeOK
  <2> QED BY <2>1, <2>2 DEF OneStops, Stopping, TypeOK
<1>4. ASSUME NEW c \in Clients, WaitWorkers(c) \/ WaitWorkersWoken(c) PROVE OneStops'
  <2>1. Stopping(c) /\ freed # "yes"
    BY <1>4 DEF WaitWorkers, WaitWorkersWoken, Stopping, OneStops
  <2>2. \A d \in Clients : Stopping(d) => d = c
    BY <2>1 DEF OneStops
  <2>3. CASE Stopped(c) /\ count = 0 /\ pc' = pc
    <3>1. Threads' = {}
      BY <2>3, ThreadsFinite, FS_EmptySet DEF CountExact, Threads
    <3> QED BY <2>1, <2>2, <2>3, <3>1 DEF Stopped, OneStops, Stopping, TypeOK
  <2>4. CASE cpc' = [cpc EXCEPT ![c] = "stopwait"] /\ UNCHANGED <<valid, freed>>
    BY <2>1, <2>2, <2>4 DEF OneStops, Stopping, TypeOK
  <2>5. count \in Int /\ count >= 0
    BY ThreadsFinite DEF CountExact, TypeOK
  <2> QED BY <1>4, <2>3, <2>4, <2>5 DEF WaitWorkers, WaitWorkersWoken, workerVars
<1>5. CASE UNCHANGED poolVars
  BY <1>5 DEF poolVars, OneStops, Stopping, Threads
<1> QED BY <1>1, <1>2, <1>3, <1>4, <1>5 DEF Next, Client

LEMMA NextLockInBatch ==
  ASSUME TypeOK, LockInBatch, [Next]_poolVars
  PROVE  LockInBatch'
<1> USE DEF CallerAt, LockInBatch
<1>1. ASSUME NEW w \in Workers, Worker(w) \/ Expire(w) \/ WakeSpuriously(w) PROVE LockInBatch'
  <2>1. lock' = lock /\ \A c \in Clients : cpc'[c] = cpc[c] \/ cpc[c] = "stopwait"
    <3>1. CASE WorkerEnds(w)
      BY <3>1 DEF WorkerEnds
    <3> QED BY <1>1, <3>1 DEF Worker, Expire, WakeSpuriously, WorkerStarts, WorkerInitFails,
              RunOwn, RunQueued, JobEnds, BeginWait, WaitAgain, clientVars
  <2> QED BY <2>1
<1>2. ASSUME NEW c \in Clients, BatLocks(c) \/ BatGive(c) \/ BatQueue(c) PROVE LockInBatch'
  <2>1. lock' = c /\ \E here \in {"batfirst", "bat"} : cpc' = [cpc EXCEPT ![c] = here]
    BY <1>2 DEF BatLocks, BatGive, BatQueue, InBatch
  <2> QED BY <2>1 DEF TypeOK
<1>3. ASSUME NEW c \in Clients, BatEnd(c) PROVE LockInBatch'
  BY <1>3, PoolAssumption DEF BatEnd
<1>4. ASSUME NEW c \in Clients,
             \/ JobDeliver(c) \/ DeliverSignal(c) \/ JobQueue(c) \/ AddBegins(c) \/ BatBegins(c)
             \/ BatClear(c) \/ Stop(c) \/ Destroy(c) \/ WaitWorkers(c) \/ WaitWorkersWoken(c)
      PROVE  LockInBatch'
  <2>1. /\ lock' = lock /\ cpc[c] \notin {"batfirst", "bat"}
        /\ \E here : cpc' = [cpc EXCEPT ![c] = here]
    BY <1>4 DEF JobDeliver, DeliverSignal, JobQueue, AddBegins, BatBegins, BatClear,
       Stop, Destroy, WaitWorkers, WaitWorkersWoken, Stopped
  <2> QED BY <2>1 DEF TypeOK
<1>5. CASE UNCHANGED poolVars
  BY <1>5 DEF poolVars
<1> QED BY <1>1, <1>2, <1>3, <1>4, <1>5 DEF Next, Client

-----------------------------------------------------------------------------
LEMMA InitPInv == Init => PInv
<1> SUFFICES ASSUME Init PROVE PInv
  OBVIOUS
<1> USE DEF Init
<1>1. /\ wait_count \in Nat /\ MaxJobs \in Nat /\ parallelism \in Nat
      /\ Circumstances \subseteq SUBSET {"expire", "batch", "nothread", "noinit"}
      /\ Nil \notin Clients
  BY PoolAssumption
<1>2. TypeOK
  <2>1. << >> \in Seq(Jobs)
    OBVIOUS
  <2>2. 0 \in 0 .. MaxJobs /\ 0 \in 0 .. wait_count
    BY <1>1
  <2>3. may \in Circumstances /\ queue = << >> /\ count \in Int /\ idle \in Int
    OBVIOUS
  <2>4. /\ pc \in [Workers -> {"none", "init", "look", "run", "wait", "woken", "expired"}]
        /\ running \in [Workers -> Jobs \cup {Nil}] /\ own \in [Workers -> Jobs \cup {Nil}]
        /\ nxt \in [Workers -> Workers \cup {Nil}] /\ prv \in [Workers -> Workers \cup {Nil}]
        /\ waits \in [Workers -> 0 .. wait_count]
    BY <2>2
  <2>5. /\ cpc \in [Clients -> {"idle", "add", "signal", "batlock", "batfirst", "bat", "batclear",
                                "stop", "stopwait", "stopwoken"}]
        /\ target \in [Clients -> Workers \cup {Nil}]
    OBVIOUS
  <2> QED BY <2>1, <2>2, <2>3, <2>4, <2>5 DEF TypeOK
<1>3. CallsFit
  <2>1. Calls = {}
    BY DEF Calls
  <2> QED BY <1>1, <2>1, FS_EmptySet DEF CallsFit
<1>4. CountExact
  <2>1. Threads = {}
    BY DEF Threads
  <2> QED BY <1>1, <2>1, FS_EmptySet DEF CountExact
<1>5. RunningRun
  BY DEF RunningRun
<1>6. OnePlace
  <2>1. Waiting = {} /\ Running = {} /\ DOMAIN queue = {}
    BY EmptySeq DEF Waiting, Running
  <2> QED BY <2>1 DEF OnePlace
<1>7. OneStops /\ LockInBatch
  BY <1>1 DEF OneStops, Stopping, LockInBatch
<1> QED BY <1>2, <1>3, <1>4, <1>5, <1>6, <1>7 DEF PInv

LEMMA NextPInv ==
  ASSUME PInv, [Next]_poolVars
  PROVE  PInv'
BY NextTyped, NextCallsFit, NextCounts, NextOnePlace, NextOneStops, NextLockInBatch DEF PInv

(* In every reachable state the pool counts its threads, of which there    *)
(* are never more than parallelism, whatever interleaving of the tests of  *)
(* count and the ends of threads; a job is in one place; and nobody uses   *)
(* the pool once it is being destroyed.                                    *)
THEOREM PoolSafe == Spec => []PInv
<1>1. PInv /\ [Next]_poolVars => PInv'
  BY NextPInv
<1> QED BY InitPInv, <1>1, PTL DEF Spec

(* The types of the variables of the pool (worker_wait, job_append and the *)
(* rest): the links of the idle list lead to workers, whatever was         *)
(* unlinked, by whom, in whichever order.                                  *)
THEOREM TypeCorrect == Spec => []TypeOK
<1>1. PInv => TypeOK
  BY DEF PInv
<1> QED BY PoolSafe, <1>1, PTL

-----------------------------------------------------------------------------
(* Every step of the pool is a step of the bag of jobs, or none.           *)
LEMMA StepOfBag ==
  ASSUME PInv, PInv', [Next]_poolVars
  PROVE  [Bag!BagNext]_(Bag!bagVars)
<1> USE DEF CallerAt, PInv
<1> USE DEF Bag!bagVars
<1>1. ASSUME UNCHANGED <<queue, own, running, ran, freed>>
      PROVE  UNCHANGED Bag!bagVars
  BY <1>1 DEF Waiting, Running
<1>2. ASSUME NEW w \in Workers, Worker(w) \/ Expire(w) \/ WakeSpuriously(w)
      PROVE  [Bag!BagNext]_(Bag!bagVars)
  <2>1. ASSUME NEW j \in Jobs, j \in Waiting, Waiting' = Waiting \ {j},
               Running' = Running \cup {j}, UNCHANGED <<ran, freed>>, pc[w] \notin {"none", "run"}
        PROVE  Bag!BagNext
    <3>1. Cardinality(Running) < parallelism
      BY <2>1, RunningLimited
    <3>2. (freed' = "yes") = (freed = "yes")
      BY <2>1
    <3>3. Bag!Cardinality(Running) = Cardinality(Running)
      BY DEF Bag!Cardinality, Cardinality, Bag!IsFiniteSet, IsFiniteSet
    <3>4. Bag!Start(j)
      BY <2>1, <3>1, <3>2, <3>3 DEF Bag!Start
    <3> QED BY <3>4 DEF Bag!BagNext
  <2>2. CASE RunOwn(w)
    <3>1. own[w] \in Jobs /\ UNCHANGED <<ran, freed>> /\ pc[w] \notin {"none", "run"}
      BY <2>2 DEF RunOwn, HasLock, TypeOK, flagVars
    <3> QED BY <2>1, <2>2, <3>1, OwnMoves
  <2>3. CASE RunQueued(w)
    <3>1. Head(queue) \in Jobs /\ UNCHANGED <<ran, freed>> /\ pc[w] \notin {"none", "run"}
      BY <2>3, HeadTailProperties DEF RunQueued, HasLock, TypeOK, flagVars
    <3> QED BY <2>1, <2>3, <3>1, QueuedMoves
  <2>4. CASE JobEnds(w)
    <3>1. running[w] \in Jobs /\ freed' = freed
      BY <2>4 DEF JobEnds, RunningRun, TypeOK, flagVars
    <3> QED BY <2>4, <3>1, EndMoves DEF Bag!BagNext, Bag!Finish
  <2>5. CASE \/ WorkerStarts(w) \/ WorkerInitFails(w) \/ BeginWait(w) \/ WaitAgain(w)
             \/ WorkerEnds(w) \/ Expire(w) \/ WakeSpuriously(w)
    BY <2>5, <1>1 DEF WorkerStarts, WorkerInitFails, BeginWait, WaitAgain, WorkerEnds, Expire,
       WakeSpuriously, flagVars
  <2> QED BY <1>2, <2>2, <2>3, <2>4, <2>5 DEF Worker
<1>3. ASSUME NEW c \in Clients, JobDeliver(c) \/ BatGive(c) \/ JobQueue(c) \/ BatQueue(c)
      PROVE  Bag!BagNext
  <2>1. added + 1 \in Jobs
    BY <1>3, CallFits DEF JobDeliver, BatGive, JobQueue, BatQueue, InBatch, Calls
  <2>2. freed' = freed /\ freed # "yes" /\ UNCHANGED <<running, ran>> /\ added' = added + 1
    <3>1. cpc[c] # "idle"
      BY <1>3 DEF JobDeliver, BatGive, JobQueue, BatQueue, InBatch, LockInBatch
    <3> QED BY <1>3, <3>1 DEF JobDeliver, BatGive, JobQueue, BatQueue, OneStops, flagVars
  <2>3. /\ added + 1 \notin Waiting \cup Running \cup ran
        /\ Waiting' = Waiting \cup {added + 1} /\ Running' = Running
    <3>1. CASE JobQueue(c) \/ BatQueue(c)
      BY <2>1, <2>2, <3>1, EnqueueSubmits DEF JobQueue, BatQueue
    <3>2. CASE JobDeliver(c)
      <4>1. thr_first \in Workers /\ own[thr_first] = Nil
        BY <3>2 DEF JobDeliver, Idler, TypeOK
      <4> QED BY <2>1, <2>2, <3>2, <4>1, GiveSubmits DEF JobDeliver
    <3>3. CASE BatGive(c)
      <4>1. PICK w \in Workers : own[w] = Nil /\ own' = [own EXCEPT ![w] = added + 1]
        BY <3>3 DEF BatGive, Given
      <4> QED BY <2>1, <2>2, <3>3, <4>1, GiveSubmits DEF BatGive
    <3> QED BY <1>3, <3>1, <3>2, <3>3
  <2> QED BY <2>1, <2>2, <2>3 DEF Bag!BagNext, Bag!Submit
<1>4. ASSUME NEW c \in Clients, WaitWorkers(c) \/ WaitWorkersWoken(c), freed' # freed
      PROVE  Bag!BagNext
  <2>1. freed' = "yes" /\ UNCHANGED <<queue, own, running, ran>>
    BY <1>4 DEF WaitWorkers, WaitWorkersWoken, Stopped, workerVars
  <2>2. Running' = {}
    BY <2>1 DEF OneStops, Threads, RunningRun, Running
  <2>3. Running = {} /\ Waiting' = Waiting /\ Running' = Running
    BY <2>1, <2>2 DEF Running, Waiting
  <2> QED BY <2>1, <2>3 DEF Bag!BagNext, Bag!Close
<1>5. ASSUME \/ UNCHANGED poolVars
             \/ \E c \in Clients :
                  \/ DeliverSignal(c) \/ AddBegins(c) \/ BatBegins(c) \/ BatLocks(c)
                  \/ BatEnd(c) \/ BatClear(c) \/ Stop(c)
                  \/ (WaitWorkers(c) \/ WaitWorkersWoken(c)) /\ freed' = freed
      PROVE  UNCHANGED Bag!bagVars
  <2>1. UNCHANGED <<queue, own, running, ran, freed>>
    BY <1>5 DEF poolVars, DeliverSignal, AddBegins, BatBegins, BatLocks, BatEnd, BatClear,
       Stop, WaitWorkers, WaitWorkersWoken, workerVars, flagVars
  <2> QED BY <2>1, <1>1
<1>6. ASSUME NEW c \in Clients, Destroy(c) PROVE UNCHANGED Bag!bagVars
  <2>1. freed # "yes"
    BY <1>6 DEF Destroy, OneStops
  <2> QED BY <1>6, <2>1 DEF Destroy, workerVars, Waiting, Running
<1> QED BY <1>2, <1>3, <1>4, <1>5, <1>6 DEF Next, Client

(* The pool is a bag of jobs: a job that was added is started once and     *)
(* ends once, whether a worker is given it, or the queue, or a batch hands *)
(* it out; at most parallelism of them run; and the pool runs nothing and  *)
(* takes nothing when acl_pthread_pool_destroy has returned.               *)
THEOREM PoolImplementsJobBag == Spec => ImplementsJobBag
<1>1. Init => Bag!BagInit
  <2> SUFFICES ASSUME Init PROVE Bag!BagInit
    OBVIOUS
  <2>1. DOMAIN queue = {}
    BY EmptySeq DEF Init
  <2> QED BY <2>1 DEF Init, Bag!BagInit, Waiting, Running
<1>2. PInv /\ PInv' /\ [Next]_poolVars => [Bag!BagNext]_(Bag!bagVars)
  BY StepOfBag
<1> QED BY <1>1, <1>2, PoolSafe, PTL DEF Spec, ImplementsJobBag, Bag!BagSpec

-----------------------------------------------------------------------------
(* The list of idle workers as a sequence: l links the workers of s.       *)
Members(s) == {s[i] : i \in 1 .. Len(s)}

Distinct(s) == \A i, k \in 1 .. Len(s) : s[i] = s[k] => i = k

Row(l, s) ==
  /\ s \in Seq(Workers) /\ Distinct(s)
  /\ Len(s) = 0 => l.first = Nil
  /\ Len(s) > 0 => l.first = s[1] /\ l.next[s[Len(s)]] = Nil
  /\ \A i \in 1 .. Len(s) - 1 : l.next[s[i]] = s[i + 1] /\ l.prev[s[i + 1]] = s[i]

(* s without its k-th member.                                              *)
Cut(s, k) == [i \in 1 .. Len(s) - 1 |-> IF i < k THEN s[i] ELSE s[i + 1]]

(* What it is to be a member.                                              *)
LEMMA MembersAre ==
  ASSUME NEW s, NEW w
  PROVE  w \in Members(s) <=> \E i \in 1 .. Len(s) : s[i] = w
BY DEF Members

(* What is left when the k-th is cut.                                      *)
LEMMA CutFacts ==
  ASSUME NEW s \in Seq(Workers), Distinct(s), NEW k \in 1 .. Len(s)
  PROVE  /\ Cut(s, k) \in Seq(Workers) /\ Len(Cut(s, k)) = Len(s) - 1 /\ Distinct(Cut(s, k))
         /\ \A i \in 1 .. Len(s) - 1 : i < k => Cut(s, k)[i] = s[i]
         /\ \A i \in 1 .. Len(s) - 1 : i >= k => Cut(s, k)[i] = s[i + 1]
         /\ Members(Cut(s, k)) = Members(s) \ {s[k]}
<1> DEFINE t == Cut(s, k)
<1>0. PICK n \in Nat : n = Len(s)
  OBVIOUS
<1>1. /\ \A i \in 1 .. n : s[i] \in Workers
      /\ t = [i \in 1 .. n - 1 |-> IF i < k THEN s[i] ELSE s[i + 1]]
      /\ n - 1 \in Nat /\ k \in 1 .. n
      /\ \A i, j \in 1 .. n : s[i] = s[j] => i = j
  BY <1>0 DEF Cut, Distinct
<1> HIDE DEF t
<1>2. t \in [1 .. n - 1 -> Workers]
  BY <1>1
<1>3. t \in Seq(Workers) /\ Len(t) = n - 1
  BY <1>1, <1>2
<1>4. /\ \A i \in 1 .. n - 1 : i < k => t[i] = s[i]
      /\ \A i \in 1 .. n - 1 : i >= k => t[i] = s[i + 1]
  BY <1>1
<1>5. Distinct(t)
  <2> SUFFICES ASSUME NEW i \in 1 .. n - 1, NEW j \in 1 .. n - 1, t[i] = t[j] PROVE i = j
    BY <1>3 DEF Distinct
  <2>1. i \in 1 .. n /\ j \in 1 .. n /\ i + 1 \in 1 .. n /\ j + 1 \in 1 .. n
    OBVIOUS
  <2>2. CASE i < k /\ j < k
    BY <1>1, <1>4, <2>1, <2>2
  <2>3. CASE i < k /\ j >= k
    <3>1. s[i] = s[j + 1]
      BY <1>4, <2>3
    <3>2. i = j + 1
      BY <1>1, <2>1, <3>1
    <3> QED BY <1>1, <2>3, <3>2
  <2>4. CASE i >= k /\ j < k
    <3>1. s[j] = s[i + 1]
      BY <1>4, <2>4
    <3>2. j = i + 1
      BY <1>1, <2>1, <3>1
    <3> QED BY <1>1, <2>4, <3>2
  <2>5. CASE i >= k /\ j >= k
    <3>1. s[i + 1] = s[j + 1]
      BY <1>4, <2>5
    <3>2. i + 1 = j + 1
      BY <1>1, <2>1, <3>1
    <3> QED BY <3>2
  <2> QED BY <1>1, <2>2, <2>3, <2>4, <2>5
<1>6. Members(t) = Members(s) \ {s[k]}
  <2>1. ASSUME NEW w \in Members(t) PROVE w \in Members(s) /\ w # s[k]
    <3>1. PICK i \in 1 .. n - 1 : t[i] = w
      BY <1>3, MembersAre
    <3>2. CASE i < k
      BY <1>0, <1>1, <1>4, <3>1, <3>2, MembersAre
    <3>3. CASE i >= k
      <4>1. i + 1 \in 1 .. n /\ s[i + 1] = w /\ i + 1 # k
        BY <1>1, <1>4, <3>1, <3>3
      <4> QED BY <1>0, <1>1, <4>1, MembersAre
    <3> QED BY <1>1, <3>2, <3>3
  <2>2. ASSUME NEW w \in Members(s), w # s[k] PROVE w \in Members(t)
    <3>1. PICK i \in 1 .. n : s[i] = w /\ i # k
      BY <1>0, <2>2, MembersAre
    <3>2. CASE i < k
      <4>1. i \in 1 .. n - 1 /\ t[i] = w
        BY <1>1, <1>4, <3>1, <3>2
      <4> QED BY <1>3, <4>1, MembersAre
    <3>3. CASE i > k
      <4>1. i - 1 \in 1 .. n - 1 /\ i - 1 >= k /\ (i - 1) + 1 = i
        BY <1>1, <3>3
      <4>2. t[i - 1] = w
        BY <1>4, <3>1, <4>1
      <4> QED BY <1>3, <4>1, <4>2, MembersAre
    <3> QED BY <1>1, <3>1, <3>2, <3>3
  <2> QED BY <2>1, <2>2
<1> QED BY <1>0, <1>3, <1>4, <1>5, <1>6 DEF t

(* A worker that is unlinked leaves the row, the others keep their order.  *)
LEMMA CutRow ==
  ASSUME NEW l \in Lists, NEW s, Row(l, s), NEW k \in 1 .. Len(s)
  PROVE  Row(Unlinked(l, s[k]), Cut(s, k))
<1> DEFINE m == Unlinked(l, s[k])
<1>n. PICK n \in Nat : n = Len(s)
  BY DEF Row
<1>0. PICK t, nx, pr : n = Len(s) /\ t = Cut(s, k) /\ nx = l.next /\ pr = l.prev
  BY <1>n
<1>1. /\ s \in Seq(Workers) /\ n > 0 /\ k \in 1 .. n
      /\ \A i \in 1 .. n : s[i] \in Workers
      /\ \A i, j \in 1 .. n : s[i] = s[j] => i = j
      /\ \A i \in 1 .. n - 1 : nx[s[i]] = s[i + 1] /\ pr[s[i + 1]] = s[i]
      /\ l.first = s[1] /\ nx[s[n]] = Nil
      /\ nx \in [Workers -> Workers \cup {Nil}] /\ pr \in [Workers -> Workers \cup {Nil}]
      /\ Nil \notin Workers
  <2>1. s \in Seq(Workers) /\ Len(s) \in Nat /\ Distinct(s)
    BY DEF Row
  <2>2. n > 0 /\ k \in 1 .. n /\ \A i \in 1 .. n : s[i] \in Workers
    BY <1>0, <2>1
  <2>3. \A i, j \in 1 .. n : s[i] = s[j] => i = j
    BY <1>0, <2>1 DEF Distinct
  <2>4. /\ \A i \in 1 .. n - 1 : nx[s[i]] = s[i + 1] /\ pr[s[i + 1]] = s[i]
        /\ l.first = s[1] /\ nx[s[n]] = Nil
    BY <1>0, <2>2 DEF Row
  <2>5. nx \in [Workers -> Workers \cup {Nil}] /\ pr \in [Workers -> Workers \cup {Nil}]
    BY <1>0 DEF Lists
  <2> QED BY <2>1, <2>2, <2>3, <2>4, <2>5, PoolAssumption
<1>2. /\ t \in Seq(Workers) /\ Len(t) = n - 1 /\ Distinct(t)
      /\ \A i \in 1 .. n - 1 : i < k => t[i] = s[i]
      /\ \A i \in 1 .. n - 1 : i >= k => t[i] = s[i + 1]
  <2>1. Distinct(s)
    BY DEF Row
  <2> QED BY <1>0, <1>1, <2>1, CutFacts
<1>3. CASE k = 1
  <2>1. m.first = nx[s[1]] /\ m.next = nx /\ m.prev = pr
    BY <1>0, <1>1, <1>3 DEF Unlinked, Lists
  <2>2. \A i \in 1 .. n - 1 : t[i] = s[i + 1]
    BY <1>2, <1>3
  <2> HIDE DEF m
  <2>3. n - 1 = 0 => m.first = Nil
    BY <1>1, <2>1
  <2>4. n - 1 > 0 => m.first = t[1]
    <3> SUFFICES ASSUME n - 1 > 0 PROVE m.first = t[1]
      OBVIOUS
    <3>1. 1 \in 1 .. n - 1
      OBVIOUS
    <3> QED BY <1>1, <2>1, <2>2, <3>1
  <2>5. n - 1 > 0 => m.next[t[n - 1]] = Nil
    <3> SUFFICES ASSUME n - 1 > 0 PROVE m.next[t[n - 1]] = Nil
      OBVIOUS
    <3>1. n - 1 \in 1 .. n - 1 /\ (n - 1) + 1 = n
      OBVIOUS
    <3>2. t[n - 1] = s[n]
      BY <2>2, <3>1
    <3> QED BY <1>1, <2>1, <3>2
  <2>6. ASSUME NEW i \in 1 .. (n - 1) - 1 PROVE m.next[t[i]] = t[i + 1] /\ m.prev[t[i + 1]] = t[i]
    <3>1. i \in 1 .. n - 1 /\ i + 1 \in 1 .. n - 1
      OBVIOUS
    <3>2. t[i] = s[i + 1] /\ t[i + 1] = s[(i + 1) + 1]
      BY <2>2, <3>1
    <3> QED BY <1>1, <2>1, <3>1, <3>2
  <2>7. Row(m, t)
    BY <1>2, <2>3, <2>4, <2>5, <2>6 DEF Row
  <2> QED BY <1>0, <2>7 DEF m
<1>4. CASE k # 1
  <2>1. s[1] # s[k] /\ k - 1 \in 1 .. n - 1 /\ (k - 1) + 1 = k /\ pr[s[k]] = s[k - 1]
    <3>1. k - 1 \in 1 .. n - 1 /\ (k - 1) + 1 = k /\ 1 \in 1 .. n
      BY <1>1, <1>4
    <3> QED BY <1>1, <1>4, <3>1
  <2>2. /\ m.first = s[1]
        /\ m.next = [nx EXCEPT ![s[k - 1]] = nx[s[k]]]
        /\ m.prev = IF nx[s[k]] = Nil THEN pr ELSE [pr EXCEPT ![nx[s[k]]] = s[k - 1]]
    BY <1>0, <1>1, <2>1 DEF Unlinked, Lists
  <2> HIDE DEF m
  <2>3. n - 1 > 0 /\ 1 \in 1 .. n - 1 /\ t[1] = s[1] /\ m.first = t[1]
    BY <1>1, <1>2, <1>4, <2>2
  <2>4. ASSUME NEW i \in 1 .. n, i # k - 1 PROVE m.next[s[i]] = nx[s[i]]
    <3>1. k - 1 \in 1 .. n
      BY <1>1, <1>4
    <3>2. s[i] # s[k - 1] /\ s[i] \in Workers
      BY <1>1, <2>4, <3>1
    <3> QED BY <1>1, <2>2, <3>2
  <2>5. m.next[s[k - 1]] = nx[s[k]]
    <3>1. k - 1 \in 1 .. n
      BY <1>1, <1>4
    <3> QED BY <1>1, <2>2, <3>1
  <2>6. m.next[t[n - 1]] = Nil
    <3>1. CASE k = n
      <4>1. t[n - 1] = s[k - 1]
        BY <1>1, <1>2, <2>3, <3>1
      <4> QED BY <1>1, <2>5, <3>1, <4>1
    <3>2. CASE k # n
      <4>1. n - 1 \in 1 .. n - 1 /\ n - 1 >= k /\ (n - 1) + 1 = n /\ n # k - 1 /\ n \in 1 .. n
        BY <1>1, <3>2
      <4>2. t[n - 1] = s[n]
        BY <1>2, <4>1
      <4> QED BY <1>1, <2>4, <4>1, <4>2
    <3> QED BY <3>1, <3>2
  <2>7. ASSUME NEW i \in 1 .. (n - 1) - 1 PROVE m.next[t[i]] = t[i + 1]
    <3>0. i \in 1 .. n - 1 /\ i + 1 \in 1 .. n - 1 /\ i \in 1 .. n /\ i + 1 \in 1 .. n
      OBVIOUS
    <3>1. CASE i < k - 1
      <4>1. t[i] = s[i] /\ t[i + 1] = s[i + 1] /\ i # k - 1
        BY <1>1, <1>2, <3>0, <3>1
      <4> QED BY <1>1, <2>4, <3>0, <4>1
    <3>2. CASE i = k - 1
      <4>1. t[i] = s[k - 1] /\ t[i + 1] = s[k + 1] /\ nx[s[k]] = s[k + 1]
        BY <1>1, <1>2, <3>0, <3>2
      <4> QED BY <2>5, <4>1
    <3>3. CASE i > k - 1
      <4>1. t[i] = s[i + 1] /\ t[i + 1] = s[(i + 1) + 1] /\ i + 1 # k - 1
        BY <1>1, <1>2, <3>0, <3>3
      <4> QED BY <1>1, <2>4, <3>0, <4>1
    <3> QED BY <1>1, <3>1, <3>2, <3>3
  <2>8. ASSUME NEW i \in 1 .. n, i # k + 1 PROVE m.prev[s[i]] = pr[s[i]]
    <3>1. nx[s[k]] = Nil \/ (k + 1 \in 1 .. n /\ nx[s[k]] = s[k + 1])
      BY <1>1
    <3>2. nx[s[k]] # s[i] /\ s[i] \in Workers
      BY <1>1, <2>8, <3>1
    <3> QED BY <1>1, <2>2, <3>2
  <2>9. ASSUME k + 1 \in 1 .. n PROVE m.prev[s[k + 1]] = s[k - 1]
    <3>1. nx[s[k]] = s[k + 1] /\ s[k + 1] \in Workers
      BY <1>1, <2>9
    <3> QED BY <1>1, <2>2, <3>1
  <2>10. ASSUME NEW i \in 1 .. (n - 1) - 1 PROVE m.prev[t[i + 1]] = t[i]
    <3>0. i \in 1 .. n - 1 /\ i + 1 \in 1 .. n - 1 /\ i + 1 \in 1 .. n /\ (i + 1) + 1 \in 1 .. n
      OBVIOUS
    <3>1. CASE i < k - 1
      <4>1. t[i] = s[i] /\ t[i + 1] = s[i + 1] /\ i + 1 # k + 1
        BY <1>1, <1>2, <3>0, <3>1
      <4> QED BY <1>1, <2>8, <3>0, <4>1
    <3>2. CASE i = k - 1
      <4>1. t[i] = s[k - 1] /\ t[i + 1] = s[k + 1] /\ k + 1 \in 1 .. n
        BY <1>1, <1>2, <3>0, <3>2
      <4> QED BY <2>9, <4>1
    <3>3. CASE i > k - 1
      <4>1. t[i] = s[i + 1] /\ t[i + 1] = s[(i + 1) + 1] /\ (i + 1) + 1 # k + 1
        BY <1>1, <1>2, <3>0, <3>3
      <4> QED BY <1>1, <2>8, <3>0, <4>1
    <3> QED BY <1>1, <3>1, <3>2, <3>3
  <2>11. Row(m, t)
    BY <1>2, <2>3, <2>6, <2>7, <2>10 DEF Row
  <2> QED BY <1>0, <2>11 DEF m
<1> QED BY <1>3, <1>4

(* One that is linked comes first.                                         *)
LEMMA FrontRow ==
  ASSUME TypeOK, NEW s, Row(List, s), NEW w \in Workers, w \notin Members(s), LinkFirst(w)
  PROVE  \E t : Row(List', t) /\ Members(t) = Members(s) \cup {w} /\ Len(t) = Len(s) + 1
<1>0. PICK n \in Nat : n = Len(s)
  BY DEF Row
<1> DEFINE t == [i \in 1 .. n + 1 |-> IF i = 1 THEN w ELSE s[i - 1]]
<1>1. /\ s \in Seq(Workers)
      /\ \A i \in 1 .. n : s[i] \in Workers /\ s[i] # w
      /\ \A i, j \in 1 .. n : s[i] = s[j] => i = j
      /\ n = 0 => thr_first = Nil
      /\ n > 0 => thr_first = s[1] /\ nxt[s[n]] = Nil
      /\ \A i \in 1 .. n - 1 : nxt[s[i]] = s[i + 1] /\ prv[s[i + 1]] = s[i]
      /\ nxt \in [Workers -> Workers \cup {Nil}] /\ prv \in [Workers -> Workers \cup {Nil}]
      /\ Nil \notin Workers
  BY <1>0, PoolAssumption DEF Row, List, Members, TypeOK, Distinct
<1>2. /\ List'.first = w /\ List'.next = [nxt EXCEPT ![w] = thr_first]
      /\ List'.prev = [v \in Workers |-> IF v = w THEN Nil ELSE IF v = thr_first THEN w ELSE prv[v]]
  BY DEF LinkFirst, SetList, List
<1>3. t \in [1 .. n + 1 -> Workers]
  BY <1>1
<1>4. /\ t \in Seq(Workers) /\ Len(t) = n + 1 /\ t[1] = w
      /\ \A i \in 1 .. n : t[i + 1] = s[i] /\ i + 1 \in 1 .. n + 1
      /\ \A i \in 1 .. n + 1 : i = 1 \/ (i - 1 \in 1 .. n /\ t[i] = s[i - 1])
  BY <1>3
<1> HIDE DEF t
<1>5. Distinct(t)
  <2> SUFFICES ASSUME NEW i \in 1 .. n + 1, NEW j \in 1 .. n + 1, t[i] = t[j] PROVE i = j
    BY <1>4 DEF Distinct
  <2>0. \A k \in 1 .. n + 1 : k # 1 => t[k] # w
    BY <1>1, <1>4
  <2>1. CASE i = 1
    BY <1>4, <2>0, <2>1
  <2>2. CASE j = 1
    BY <1>4, <2>0, <2>2
  <2>3. CASE i # 1 /\ j # 1
    BY <1>1, <1>4, <2>3
  <2> QED BY <2>1, <2>2, <2>3
<1>6. List'.next[t[n + 1]] = Nil
  <2>1. CASE n = 0
    BY <1>1, <1>2, <1>4, <2>1
  <2>2. CASE n > 0
    <3>1. t[n + 1] = s[n] /\ n \in 1 .. n
      BY <1>4, <2>2
    <3> QED BY <1>1, <1>2, <2>2, <3>1
  <2> QED BY <2>1, <2>2
<1>7. ASSUME NEW i \in 1 .. n PROVE List'.next[t[i]] = t[i + 1] /\ List'.prev[t[i + 1]] = t[i]
  <2>1. t[i + 1] = s[i] /\ s[i] \in Workers /\ s[i] # w
    BY <1>1, <1>4
  <2>2. CASE i = 1
    <3>1. t[i] = w /\ thr_first = s[1]
      BY <1>1, <1>4, <2>2
    <3> QED BY <1>1, <1>2, <2>1, <2>2, <3>1
  <2>3. CASE i # 1
    <3>1. i - 1 \in 1 .. n - 1 /\ (i - 1) + 1 = i /\ 1 \in 1 .. n /\ t[i] = s[i - 1] /\ i \in 1 .. n + 1
      BY <1>4, <2>3
    <3>2. /\ nxt[s[i - 1]] = s[i] /\ prv[s[i]] = s[i - 1]
          /\ s[i] # s[1] /\ thr_first = s[1] /\ s[i - 1] \in Workers /\ s[i - 1] # w
      BY <1>1, <2>3, <3>1
    <3> QED BY <1>1, <1>2, <2>1, <3>1, <3>2
  <2> QED BY <2>2, <2>3
<1>8. Members(t) = Members(s) \cup {w}
  <2>1. ASSUME NEW v \in Members(t) PROVE v = w \/ v \in Members(s)
    <3>1. PICK i \in 1 .. n + 1 : t[i] = v
      BY <1>4, MembersAre
    <3>2. i = 1 \/ (i - 1 \in 1 .. n /\ s[i - 1] = v)
      BY <1>4, <3>1
    <3> QED BY <1>0, <1>4, <3>1, <3>2, MembersAre
  <2>2. ASSUME NEW v \in Members(s) PROVE v \in Members(t)
    <3>1. PICK i \in 1 .. n : s[i] = v
      BY <1>0, MembersAre
    <3>2. i + 1 \in 1 .. n + 1 /\ t[i + 1] = v
      BY <1>4, <3>1
    <3> QED BY <1>4, <3>2, MembersAre
  <2>3. w \in Members(t)
    <3>1. 1 \in 1 .. n + 1
      OBVIOUS
    <3> QED BY <1>4, <3>1, MembersAre
  <2> QED BY <2>1, <2>2, <2>3
<1>9. Row(List', t)
  BY <1>2, <1>4, <1>5, <1>6, <1>7 DEF Row
<1> QED BY <1>0, <1>4, <1>8, <1>9

(* The first worker may be told that nobody is before it.                  *)
LEMMA FirstRow ==
  ASSUME NEW l \in Lists, NEW s, Row(l, s), NEW w \in Workers, \A i \in 2 .. Len(s) : s[i] # w
  PROVE  Row([l EXCEPT !.prev[w] = Nil], s)
<1> DEFINE m == [l EXCEPT !.prev[w] = Nil]
<1>1. m.first = l.first /\ m.next = l.next /\ m.prev = [l.prev EXCEPT ![w] = Nil]
  BY DEF Lists
<1>2. l.prev \in [Workers -> Workers \cup {Nil}] /\ s \in Seq(Workers)
  BY DEF Lists, Row
<1> HIDE DEF m
<1>3. ASSUME NEW i \in 1 .. Len(s) - 1 PROVE m.prev[s[i + 1]] = l.prev[s[i + 1]]
  <2>1. i + 1 \in 2 .. Len(s) /\ i + 1 \in 1 .. Len(s)
    BY <1>2
  <2>2. s[i + 1] # w /\ s[i + 1] \in Workers
    BY <1>2, <2>1
  <2> QED BY <1>1, <1>2, <2>2
<1>4. Row(m, s)
  BY <1>1, <1>3 DEF Row
<1> QED BY <1>4 DEF m

(* Unlink takes a worker out of the row, wherever it is.                   *)
LEMMA UnlinkRow ==
  ASSUME TypeOK, NEW s, Row(List, s), NEW k \in 1 .. Len(s), Unlink(s[k])
  PROVE  Row(List', Cut(s, k))
<1> DEFINE t == Cut(s, k)
           l == Unlinked(List, s[k])
           w == s[k]
<1>1. /\ s \in Seq(Workers) /\ w \in Workers /\ List \in Lists
      /\ Distinct(s) /\ thr_first = s[1] /\ nxt \in [Workers -> Workers \cup {Nil}]
  BY ListTyped DEF Row, List, TypeOK
<1>2. l \in Lists /\ Row(l, t)
  BY <1>1, UnlinkedTyped, CutRow
<1> HIDE DEF l
<1>3. CASE thr_first = w /\ nxt[w] # Nil
  <2>1. k = 1 /\ 2 \in 1 .. Len(s) /\ nxt[w] = s[2] /\ nxt[w] \in Workers
    <3>1. PICK n \in Nat : n = Len(s)
      BY <1>1
    <3>2. /\ nxt[s[n]] = Nil /\ 1 \in 1 .. n /\ k \in 1 .. n /\ s[1] = s[k]
          /\ \A i, j \in 1 .. n : s[i] = s[j] => i = j
          /\ \A i \in 1 .. n : s[i] \in Workers
          /\ \A i \in 1 .. n - 1 : nxt[s[i]] = s[i + 1]
      BY <1>1, <1>3, <3>1 DEF Row, List, Distinct
    <3>3. k = 1 /\ n # 1
      BY <1>3, <3>2
    <3>4. 1 \in 1 .. n - 1 /\ 2 \in 1 .. n
      BY <3>2, <3>3
    <3>5. nxt[s[1]] = s[1 + 1]
      BY <3>2, <3>4
    <3> QED BY <3>1, <3>2, <3>3, <3>4, <3>5
  <2>2. \A i \in 2 .. Len(t) : t[i] # nxt[w]
    <3> SUFFICES ASSUME NEW i \in 2 .. Len(t) PROVE t[i] # s[2]
      BY <2>1
    <3>0. Len(t) = Len(s) - 1 /\ \A j \in 1 .. Len(s) - 1 : j >= k => t[j] = s[j + 1]
      BY <1>1, CutFacts
    <3>1. Len(t) = Len(s) - 1 /\ \A j \in 1 .. Len(s) - 1 : t[j] = s[j + 1]
      BY <2>1, <3>0
    <3>2. t[i] = s[i + 1] /\ i + 1 \in 1 .. Len(s) /\ i + 1 # 2
      BY <1>1, <3>1
    <3> QED BY <1>1, <2>1, <3>2 DEF Distinct
  <2>3. Row([l EXCEPT !.prev[nxt[w]] = Nil], t)
    BY <1>2, <2>1, <2>2, FirstRow
  <2>4. SetList([l EXCEPT !.prev[nxt[w]] = Nil])
    BY <1>3 DEF Unlink, l
  <2>5. List' = [l EXCEPT !.prev[nxt[w]] = Nil]
    BY <1>2, <2>4 DEF SetList, List, Lists
  <2> QED BY <2>3, <2>5
<1>4. CASE ~(thr_first = w /\ nxt[w] # Nil)
  <2>1. SetList(l)
    BY <1>4 DEF Unlink, l
  <2>2. List' = l
    BY <1>2, <2>1 DEF SetList, List, Lists
  <2> QED BY <1>2, <2>2
<1> QED BY <1>3, <1>4

(* A row is as long as its workers are many, and they are no more than all. *)
LEMMA RowCardinality ==
  ASSUME NEW s \in Seq(Workers), Distinct(s)
  PROVE  /\ Len(s) = Cardinality(Members(s)) /\ IsFiniteSet(Members(s))
         /\ Members(s) \subseteq Workers
         /\ Len(s) <= Cardinality(Workers)
<1>1. PICK n \in Nat : n = Len(s)
  OBVIOUS
<1>2. s \in Bijection(1 .. n, Members(s))
  <2>1. s \in [1 .. n -> Members(s)]
    <3>1. \A i \in 1 .. n : s[i] \in Members(s)
      BY <1>1, MembersAre
    <3>2. s = [i \in 1 .. n |-> s[i]]
      BY <1>1
    <3> QED BY <3>1, <3>2
  <2>2. \A a, b \in 1 .. n : s[a] = s[b] => a = b
    BY <1>1 DEF Distinct
  <2>3. \A t \in Members(s) : \E i \in 1 .. n : s[i] = t
    BY <1>1, MembersAre
  <2> QED BY <2>1, <2>2, <2>3, Fun_IsBij
<1>3. ExistsBijection(1 .. n, Members(s))
  BY <1>2, Fun_ExistsBij
<1>4. n = Cardinality(Members(s))
  BY <1>3, FS_CountingElements
<1>5. Members(s) \subseteq Workers
  BY DEF Members
<1>6. IsFiniteSet(Members(s)) /\ Cardinality(Members(s)) <= Cardinality(Workers)
  BY <1>5, PoolAssumption, FS_Subset
<1> QED BY <1>1, <1>4, <1>5, <1>6

(* Following the links from the first worker meets those of the row.       *)
LEMMA ChainIsRow ==
  ASSUME TypeOK, NEW s, Row(List, s)
  PROVE  IdleList = s
<1>1. PICK at :
        /\ at[0] = thr_first
        /\ \A i \in 1 .. Most : at[i] = IF at[i - 1] = Nil THEN Nil ELSE nxt[at[i - 1]]
        /\ IdleList = [i \in {k \in 1 .. Most : at[k - 1] # Nil} |-> at[i - 1]]
  <2>1. thr_first \in Workers \cup {Nil}
    BY DEF TypeOK
  <2> QED BY <2>1, ChainSteps DEF IdleList
<1>2. PICK n \in Nat : n = Len(s)
  BY DEF Row
<1>3. Distinct(s) /\ s \in Seq(Workers)
  BY DEF Row
<1>4. n < Most /\ Most \in Nat
  <2>1. n <= Cardinality(Workers)
    BY <1>2, <1>3, RowCardinality
  <2> QED BY <1>2, <2>1, MostNat, PoolAssumption, FS_CardinalityType DEF Most
<1>5. /\ n = 0 => thr_first = Nil
      /\ n > 0 => thr_first = s[1] /\ nxt[s[n]] = Nil
      /\ \A i \in 1 .. n - 1 : nxt[s[i]] = s[i + 1]
      /\ \A i \in 1 .. n : s[i] \in Workers /\ s[i] # Nil
  BY <1>2, <1>3, PoolAssumption DEF Row, List
<1> DEFINE g == [i \in 0 .. Most |-> IF i < n THEN s[i + 1] ELSE Nil]
<1>6. /\ \A i \in 0 .. Most : i < n => g[i] = s[i + 1]
      /\ \A i \in 0 .. Most : ~(i < n) => g[i] = Nil
  OBVIOUS
<1> HIDE DEF g
<1>7. at[0] = g[0]
  <2>1. 0 \in 0 .. Most
    BY <1>4
  <2>2. n = 0 \/ (0 < n /\ 0 + 1 = 1)
    OBVIOUS
  <2> QED BY <1>1, <1>5, <1>6, <2>1, <2>2
<1>8. ASSUME NEW i \in 1 .. Most, at[i - 1] = g[i - 1] PROVE at[i] = g[i]
  <2>1. i - 1 \in 0 .. Most /\ i \in 0 .. Most /\ (i - 1) + 1 = i
    BY <1>4
  <2>2. CASE i < n
    <3>1. g[i - 1] = s[i] /\ g[i] = s[i + 1] /\ i \in 1 .. n - 1 /\ i \in 1 .. n
      BY <1>6, <2>1, <2>2
    <3> QED BY <1>1, <1>5, <1>8, <3>1
  <2>3. CASE i = n
    <3>1. g[i - 1] = s[n] /\ g[i] = Nil /\ n > 0 /\ n \in 1 .. n
      BY <1>6, <2>1, <2>3
    <3> QED BY <1>1, <1>5, <1>8, <3>1
  <2>4. CASE i > n
    <3>1. g[i - 1] = Nil /\ g[i] = Nil
      BY <1>6, <2>1, <2>4
    <3> QED BY <1>1, <1>8, <3>1
  <2> QED BY <2>2, <2>3, <2>4
<1>9. \A i \in 0 .. Most : at[i] = g[i]
  <2>1. \A i \in 1 .. Most : at[i - 1] = g[i - 1] => at[i] = g[i]
    BY <1>8
  <2> QED BY <1>4, <1>7, <2>1, AgreeThroughout, SMTT(30)
<1>10. \A k \in 1 .. Most : /\ k - 1 \in 0 .. Most /\ (at[k - 1] # Nil <=> k \in 1 .. n)
                            /\ k \in 1 .. n => at[k - 1] = s[k]
  <2> TAKE k \in 1 .. Most
  <2>1. k - 1 \in 0 .. Most /\ (k - 1) + 1 = k /\ (k - 1 < n <=> k \in 1 .. n)
    BY <1>4
  <2>2. at[k - 1] = g[k - 1]
    BY <1>9, <2>1
  <2>3. CASE k \in 1 .. n
    BY <1>5, <1>6, <2>1, <2>2, <2>3
  <2>4. CASE k \notin 1 .. n
    BY <1>6, <2>1, <2>2, <2>4
  <2> QED BY <2>1, <2>3, <2>4
<1>11. {k \in 1 .. Most : at[k - 1] # Nil} = 1 .. n
  BY <1>4, <1>10
<1>12. IdleList = [i \in 1 .. n |-> s[i]]
  BY <1>1, <1>4, <1>10, <1>11
<1> QED BY <1>2, <1>3, <1>12

-----------------------------------------------------------------------------
(* What the list holds: the workers that wait and were given nothing; in a *)
(* batch also those it has just given a job.                               *)
Holds(s) ==
  /\ Row(List, s)
  /\ \A w \in Idlers : own[w] = Nil => w \in Members(s)
  /\ \A w \in Members(s) : w \in Idlers /\ (lock = Nil => own[w] = Nil)
  /\ idle >= Len(s) /\ ("batch" \notin may => idle = Len(s))

ListInv == \E s \in Seq(Workers) : Holds(s)

(* A step that moves no worker to or from the list, nor gives one a job.   *)
LEMMA ListStays ==
  ASSUME ListInv, UNCHANGED <<thr_first, nxt, prv, idle, may>>,
         \A w \in Workers : w \in Idlers' <=> w \in Idlers,
         \A w \in Workers : own'[w] = Nil => own[w] = Nil \/ w \notin Idlers,
         lock' = Nil => lock = Nil /\ \A w \in Idlers : own[w] = Nil => own'[w] = Nil
  PROVE  ListInv'
<1>1. PICK s \in Seq(Workers) : Holds(s)
  BY DEF ListInv
<1>2. List' = List /\ Members(s) \subseteq Workers /\ Idlers' \subseteq Workers
  BY RowCardinality, <1>1 DEF List, Idlers, Holds, Row
<1>3. Row(List', s)
  BY <1>1, <1>2 DEF Holds
<1>4. \A w \in Idlers' : own'[w] = Nil => w \in Members(s)
  BY <1>1, <1>2 DEF Holds
<1>5. \A w \in Members(s) : w \in Idlers' /\ (lock' = Nil => own'[w] = Nil)
  BY <1>1, <1>2 DEF Holds
<1>6. idle' >= Len(s) /\ ("batch" \notin may' => idle' = Len(s))
  BY <1>1 DEF Holds
<1>7. Holds(s)'
  BY <1>3, <1>4, <1>5, <1>6 DEF Holds
<1> QED BY <1>7 DEF ListInv

(* A worker w that is idle without a job leaves the list, to do one.       *)
LEMMA ListLeft ==
  ASSUME TypeOK, ListInv, lock = Nil, NEW w \in Idlers, own[w] = Nil,
         Unlink(w), idle' = idle - 1, UNCHANGED <<may, lock>>,
         \A v \in Workers : v # w => (v \in Idlers' <=> v \in Idlers) /\ own'[v] = own[v],
         w \notin Idlers' \/ own'[w] # Nil
  PROVE  ListInv'
<1>1. PICK s \in Seq(Workers) : Holds(s)
  BY DEF ListInv
<1>2. Row(List, s) /\ Distinct(s) /\ Members(s) \subseteq Workers /\ Idlers' \subseteq Workers
  BY RowCardinality, <1>1 DEF Holds, Row, Idlers
<1>3. PICK k \in 1 .. Len(s) : s[k] = w
  BY <1>1, MembersAre DEF Holds
<1>4. PICK t \in Seq(Workers) : /\ Row(List', t) /\ Len(t) = Len(s) - 1
                                /\ Members(t) = Members(s) \ {w}
  BY <1>2, <1>3, UnlinkRow, CutFacts
<1>5. \A v \in Idlers' : own'[v] = Nil => v \in Members(t)
  BY <1>1, <1>2, <1>4 DEF Holds
<1>6. \A v \in Members(t) : v \in Idlers' /\ (lock' = Nil => own'[v] = Nil)
  BY <1>1, <1>2, <1>4 DEF Holds
<1>7. idle' >= Len(t) /\ ("batch" \notin may' => idle' = Len(t))
  BY <1>1, <1>4 DEF Holds, TypeOK
<1>8. Holds(t)'
  BY <1>4, <1>5, <1>6, <1>7 DEF Holds
<1> QED BY <1>8 DEF ListInv

(* What bat_add_end leaves of it: those that were given no job.            *)
LEMMA RestRow ==
  ASSUME TypeOK, NEW s, Row(List, s)
  PROVE  \E t \in Seq(Workers) : /\ Row(RestOfList, t)
                                 /\ \A w : w \in Members(t) <=> w \in Members(s) /\ ~Given(w)
<1>1. PICK rest :
        /\ rest \in [0 .. Most -> Lists]
        /\ rest[0] = List
        /\ \A i \in 1 .. Most :
             rest[i] = IF i \in DOMAIN IdleList /\ Given(IdleList[i])
                         THEN Unlinked(rest[i - 1], IdleList[i]) ELSE rest[i - 1]
        /\ RestOfList = rest[Most]
  BY RestSteps
<1>2. PICK n \in Nat : n = Len(s)
  BY DEF Row
<1>3. /\ IdleList = s /\ s \in Seq(Workers) /\ DOMAIN IdleList = 1 .. n /\ Distinct(s)
      /\ Most \in Nat /\ n < Most
  <2>1. IdleList = s /\ Distinct(s) /\ s \in Seq(Workers)
    BY ChainIsRow DEF Row
  <2>2. n <= Cardinality(Workers)
    BY <1>2, <2>1, RowCardinality
  <2> QED BY <1>2, <2>1, <2>2, MostNat, PoolAssumption, FS_CardinalityType DEF Most
<1> DEFINE Out(i) == {s[k] : k \in {j \in 1 .. n : j <= i /\ Given(s[j])}}
           Good(i) == \E t \in Seq(Workers) : Row(rest[i], t) /\ Members(t) = Members(s) \ Out(i)
           good == [i \in 0 .. Most |-> IF Good(i) THEN 1 ELSE 0]
<1>4. Good(0)
  <2>1. Out(0) = {}
    BY <1>2
  <2> QED BY <1>1, <1>3, <2>1
<1>5. ASSUME NEW i \in 1 .. Most, Good(i - 1) PROVE Good(i)
  <2>1. PICK t \in Seq(Workers) : Row(rest[i - 1], t) /\ Members(t) = Members(s) \ Out(i - 1)
    BY <1>5
  <2>2. i - 1 \in 0 .. Most /\ rest[i - 1] \in Lists /\ i \in Nat
    BY <1>1, <1>3
  <2>3. CASE i \in 1 .. n /\ Given(s[i])
    <3>1. rest[i] = Unlinked(rest[i - 1], s[i])
      BY <1>1, <1>3, <2>3
    <3>2. Out(i) = Out(i - 1) \cup {s[i]}
      <4>1. ASSUME NEW j \in 1 .. n PROVE j <= i <=> j <= i - 1 \/ j = i
        BY <2>2
      <4> QED BY <2>3, <4>1
    <3>3. s[i] \in Members(t)
      <4>1. s[i] \in Members(s)
        BY <1>2, <2>3, MembersAre
      <4>2. s[i] \notin Out(i - 1)
        <5> SUFFICES ASSUME NEW j \in 1 .. n, j <= i - 1, s[j] = s[i] PROVE FALSE
          OBVIOUS
        <5> QED BY <1>2, <1>3, <2>3, <2>2 DEF Distinct
      <4> QED BY <2>1, <4>1, <4>2
    <3>4. PICK k \in 1 .. Len(t) : t[k] = s[i]
      BY <3>3, MembersAre
    <3>5. Distinct(t)
      BY <2>1 DEF Row
    <3>6. /\ Row(rest[i], Cut(t, k)) /\ Cut(t, k) \in Seq(Workers)
          /\ Members(Cut(t, k)) = Members(t) \ {s[i]}
      <4> HIDE DEF Out, Good, good
      <4>1. Row(Unlinked(rest[i - 1], t[k]), Cut(t, k))
        BY <2>1, <2>2, CutRow
      <4>2. Cut(t, k) \in Seq(Workers) /\ Members(Cut(t, k)) = Members(t) \ {t[k]}
        BY <3>5, CutFacts
      <4> QED BY <3>1, <3>4, <4>1, <4>2
    <3> HIDE DEF Out
    <3>7. Members(Cut(t, k)) = Members(s) \ Out(i)
      BY <2>1, <3>2, <3>6
    <3> QED BY <3>6, <3>7
  <2>4. CASE ~(i \in 1 .. n /\ Given(s[i]))
    <3>1. rest[i] = rest[i - 1]
      BY <1>1, <1>3, <2>4
    <3>2. Out(i) = Out(i - 1)
      <4>1. ASSUME NEW j \in 1 .. n, Given(s[j]) PROVE j <= i <=> j <= i - 1
        BY <2>2, <2>4, <4>1
      <4> QED BY <4>1
    <3> HIDE DEF Out
    <3> QED BY <2>1, <3>1, <3>2
  <2> QED BY <2>3, <2>4
<1> HIDE DEF Good
<1>6. PICK h, one : h = good /\ one = {1}
  OBVIOUS
<1>10. \A i \in 0 .. Most : h[i] \in one
  <2>1. h[0] \in one
    BY <1>3, <1>4, <1>6
  <2>2. \A i \in 1 .. Most : h[i - 1] \in one => h[i] \in one
    <3> TAKE i \in 1 .. Most
    <3>1. i \in 0 .. Most /\ i - 1 \in 0 .. Most
      BY <1>3
    <3> QED BY <1>5, <1>6, <3>1
  <2>3. Most \in Nat
    BY <1>3
  <2> HIDE DEF good
  <2> QED BY <2>1, <2>2, <2>3, HoldsThroughout, SMTT(30)
<1>7. Good(Most)
  <2>1. Most \in 0 .. Most
    BY <1>3
  <2>2. good[Most] = 1
    BY <1>6, <1>10, <2>1
  <2> QED BY <2>1, <2>2
<1>8. \A w : w \in Members(s) /\ w \notin Out(Most) <=> w \in Members(s) /\ ~Given(w)
  <2>1. \A j \in 1 .. n : j <= Most
    BY <1>3
  <2> QED BY <1>2, <2>1, MembersAre
<1> HIDE DEF Out
<1>9. PICK t \in Seq(Workers) : Row(rest[Most], t) /\ Members(t) = Members(s) \ Out(Most)
  BY <1>7 DEF Good
<1> QED BY <1>1, <1>8, <1>9

-----------------------------------------------------------------------------
(* Only where batches are used is a client in one.                         *)
BatchMay ==
  \A c \in Clients : cpc[c] \in {"batlock", "batfirst", "bat", "batclear"} => "batch" \in may

(* No step lets a client into one elsewhere.                               *)
LEMMA NextBatchMay ==
  ASSUME TypeOK, LockInBatch, BatchMay, [Next]_poolVars
  PROVE  BatchMay'
<1> USE DEF CallerAt, BatchMay
<1>1. ASSUME NEW w \in Workers, Worker(w) \/ Expire(w) \/ WakeSpuriously(w) PROVE BatchMay'
  <2>1. may' = may /\ \A c \in Clients : cpc'[c] = cpc[c] \/ cpc'[c] = "stopwoken"
    <3>1. CASE WorkerEnds(w)
      BY <3>1 DEF WorkerEnds, flagVars
    <3> QED BY <1>1, <3>1 DEF Worker, Expire, WakeSpuriously, WorkerStarts, WorkerInitFails,
              RunOwn, RunQueued, JobEnds, BeginWait, WaitAgain, clientVars, flagVars
  <2> QED BY <2>1
<1>2. ASSUME NEW c \in Clients, BatBegins(c) \/ BatLocks(c) \/ BatGive(c) \/ BatQueue(c) \/ BatEnd(c)
      PROVE  BatchMay'
  <2>1. /\ may' = may /\ "batch" \in may
        /\ \E here : cpc' = [cpc EXCEPT ![c] = here]
    BY <1>2 DEF BatBegins, BatLocks, BatGive, BatQueue, BatEnd, InBatch, LockInBatch, flagVars
  <2> QED BY <2>1
<1>3. ASSUME NEW c \in Clients,
             \/ JobDeliver(c) \/ DeliverSignal(c) \/ JobQueue(c) \/ AddBegins(c)
             \/ BatClear(c) \/ Stop(c) \/ Destroy(c) \/ WaitWorkers(c) \/ WaitWorkersWoken(c)
      PROVE  BatchMay'
  <2>1. /\ may' = may
        /\ \E here : /\ cpc' = [cpc EXCEPT ![c] = here]
                     /\ here \notin {"batlock", "batfirst", "bat", "batclear"}
    BY <1>3 DEF JobDeliver, DeliverSignal, JobQueue, AddBegins, BatClear, Stop, Destroy,
       WaitWorkers, WaitWorkersWoken, Stopped, flagVars
  <2> QED BY <2>1 DEF TypeOK
<1>4. CASE UNCHANGED poolVars
  BY <1>4 DEF poolVars
<1> QED BY <1>1, <1>2, <1>3, <1>4 DEF Next, Client

(* Signals leave the waiting workers where they are,                       *)
LEMMA SignalIdlers ==
  ASSUME TypeOK, NEW ws, Signal(ws)
  PROVE  \A w \in Workers : w \in Idlers' <=> w \in Idlers
BY DEF Signal, Idlers, TypeOK

(* and so does a thread that is started.                                   *)
LEMMA MoreThreadsIdlers ==
  ASSUME TypeOK, MoreThreads
  PROVE  \A w \in Workers : w \in Idlers' <=> w \in Idlers
BY DEF MoreThreads, Idlers, TypeOK

(* The steps of a worker keep the list.                                    *)
LEMMA WorkerList ==
  ASSUME TypeOK, ListInv, NEW w \in Workers, Worker(w) \/ Expire(w) \/ WakeSpuriously(w)
  PROVE  ListInv'
<1>1. CASE WorkerStarts(w) \/ WorkerInitFails(w) \/ JobEnds(w) \/ Expire(w) \/ WakeSpuriously(w) \/ WaitAgain(w)
  <2>1. /\ UNCHANGED <<thr_first, nxt, prv, idle, may, own, lock>>
        /\ \A v \in Workers : v \in Idlers' <=> v \in Idlers
    BY <1>1 DEF WorkerStarts, WorkerInitFails, JobEnds, Expire, WakeSpuriously, WaitAgain, HasLock,
       listVars, flagVars, clientVars, Idlers, TypeOK
  <2> QED BY <2>1, ListStays
<1>2. CASE RunOwn(w)
  <2>1. PICK s \in Seq(Workers) : Holds(s)
    BY DEF ListInv
  <2>2. /\ UNCHANGED <<thr_first, nxt, prv, idle, may, lock>> /\ lock = Nil
        /\ \A v \in Workers : v # w => (v \in Idlers' <=> v \in Idlers) /\ own'[v] = own[v]
        /\ own[w] # Nil /\ w \notin Idlers'
    BY <1>2 DEF RunOwn, HasLock, listVars, flagVars, clientVars, Idlers, TypeOK
  <2>3. w \notin Members(s)
    BY <2>1, <2>2 DEF Holds
  <2>4. List' = List /\ Members(s) \subseteq Workers /\ Idlers' \subseteq Workers
    BY <2>1, <2>2, RowCardinality DEF List, Holds, Row, Idlers
  <2>5. Row(List', s)
    BY <2>1, <2>4 DEF Holds
  <2>6. Holds(s)'
    BY <2>1, <2>2, <2>3, <2>4, <2>5 DEF Holds
  <2> QED BY <2>6 DEF ListInv
<1>3. CASE RunQueued(w) \/ WorkerEnds(w)
  <2>1. /\ lock = Nil /\ lock' = lock /\ own[w] = Nil /\ own' = own /\ may' = may /\ LeaveList(w)
        /\ \A v \in Workers : v # w => (v \in Idlers' <=> v \in Idlers)
        /\ w \notin Idlers' /\ (w \in Idlers <=> pc[w] # "look")
    BY <1>3 DEF RunQueued, WorkerEnds, HasLock, NoJobFor, flagVars, clientVars, Idlers, TypeOK
  <2>2. CASE pc[w] = "look"
    <3>1. UNCHANGED <<thr_first, nxt, prv, idle>>
      BY <2>1, <2>2 DEF LeaveList, listVars
    <3> QED BY <2>1, <2>2, <3>1, ListStays
  <2>3. CASE pc[w] # "look"
    <3>1. Unlink(w) /\ idle' = idle - 1 /\ w \in Idlers
      BY <2>1, <2>3 DEF LeaveList
    <3> QED BY <2>1, <3>1, ListLeft
  <2> QED BY <2>2, <2>3
<1>4. CASE BeginWait(w)
  <2>1. PICK s \in Seq(Workers) : Holds(s)
    BY DEF ListInv
  <2>2. /\ lock = Nil /\ lock' = lock /\ own[w] = Nil /\ own' = own /\ may' = may /\ LinkFirst(w)
        /\ \A v \in Workers : v # w => (v \in Idlers' <=> v \in Idlers)
        /\ w \in Idlers' /\ w \notin Idlers /\ idle' = idle + 1
    BY <1>4 DEF BeginWait, HasLock, NoJobFor, flagVars, clientVars, Idlers, TypeOK
  <2>3. Row(List, s) /\ w \notin Members(s) /\ Members(s) \subseteq Workers /\ Idlers' \subseteq Workers
    BY <2>1, <2>2, RowCardinality DEF Holds, Row, Idlers
  <2>4. PICK t : Row(List', t) /\ Members(t) = Members(s) \cup {w} /\ Len(t) = Len(s) + 1
    BY <2>2, <2>3, FrontRow
  <2>5. \A v \in Idlers' : own'[v] = Nil => v \in Members(t)
    BY <2>1, <2>2, <2>3, <2>4 DEF Holds
  <2>6. \A v \in Members(t) : v \in Idlers' /\ (lock' = Nil => own'[v] = Nil)
    BY <2>1, <2>2, <2>3, <2>4 DEF Holds
  <2>7. idle' >= Len(t) /\ ("batch" \notin may' => idle' = Len(t))
    BY <2>1, <2>2, <2>4 DEF Holds, TypeOK
  <2>8. Holds(t)' /\ t \in Seq(Workers)
    BY <2>4, <2>5, <2>6, <2>7 DEF Holds, Row
  <2> QED BY <2>8 DEF ListInv
<1> QED BY <1>1, <1>2, <1>3, <1>4 DEF Worker

(* And so do those of a client.                                            *)
LEMMA ClientList ==
  ASSUME TypeOK, LockInBatch, BatchMay, ListInv, NEW c \in Clients,
         Client(c) \/ AddBegins(c) \/ BatBegins(c) \/ Stop(c) \/ Destroy(c)
  PROVE  ListInv'
<1> USE DEF CallerAt
<1>1. CASE \/ AddBegins(c) \/ BatBegins(c) \/ BatLocks(c) \/ BatClear(c) \/ Stop(c) \/ Destroy(c)
           \/ WaitWorkersWoken(c)
  <2>1. /\ UNCHANGED <<thr_first, nxt, prv, idle, may, own, pc>>
        /\ lock' = Nil => lock = Nil
    BY <1>1, PoolAssumption DEF AddBegins, BatBegins, BatLocks, BatClear, Stop, Destroy,
       WaitWorkersWoken, listVars, flagVars, workerVars
  <2>2. \A v \in Workers : v \in Idlers' <=> v \in Idlers
    BY <2>1 DEF Idlers
  <2> QED BY <2>1, <2>2, ListStays
<1>2. CASE DeliverSignal(c) \/ WaitWorkers(c) \/ JobQueue(c) \/ BatQueue(c)
  <2>1. UNCHANGED <<thr_first, nxt, prv, idle, may, own, lock>>
    BY <1>2 DEF DeliverSignal, WaitWorkers, JobQueue, BatQueue, listVars, flagVars
  <2>2. \A v \in Workers : v \in Idlers' <=> v \in Idlers
    <3>1. CASE pc' = pc
      BY <3>1 DEF Idlers
    <3> QED BY <1>2, <3>1, SignalIdlers, MoreThreadsIdlers
          DEF DeliverSignal, WaitWorkers, JobQueue, BatQueue, Enqueue
  <2> QED BY <2>1, <2>2, ListStays
<1>3. CASE BatGive(c)
  <2>1. /\ UNCHANGED <<thr_first, nxt, prv, idle, may, pc, lock>> /\ lock # Nil
    BY <1>3, PoolAssumption DEF BatGive, InBatch, listVars, flagVars
  <2>2. \A w \in Workers : own'[w] = Nil => own[w] = Nil
    <3>1. PICK w \in Workers : own[w] = Nil /\ own' = [own EXCEPT ![w] = added + 1]
      BY <1>3 DEF BatGive, Given
    <3> QED BY <3>1 DEF TypeOK
  <2>3. \A v \in Workers : v \in Idlers' <=> v \in Idlers
    BY <2>1 DEF Idlers
  <2> QED BY <2>1, <2>2, <2>3, ListStays
<1>4. CASE JobDeliver(c)
  <2>1. PICK s \in Seq(Workers) : Holds(s)
    BY DEF ListInv
  <2>2. /\ lock = Nil /\ lock' = lock /\ thr_first # Nil /\ own[thr_first] = Nil
        /\ Unlink(thr_first) /\ idle' = idle - 1 /\ may' = may /\ pc' = pc
        /\ own' = [own EXCEPT ![thr_first] = added + 1] /\ thr_first \in Workers
    BY <1>4 DEF JobDeliver, Idler, TypeOK, flagVars
  <2>3. thr_first \in Members(s)
    <3>1. Len(s) \in Nat /\ Len(s) # 0 /\ thr_first = s[1]
      BY <2>1, <2>2 DEF Holds, Row, List
    <3>2. 1 \in 1 .. Len(s)
      BY <3>1
    <3> QED BY <3>1, <3>2, MembersAre
  <2>4. thr_first \in Idlers
    BY <2>1, <2>3 DEF Holds
  <2>5. \A v \in Workers : v # thr_first => (v \in Idlers' <=> v \in Idlers) /\ own'[v] = own[v]
    BY <2>2 DEF Idlers, TypeOK
  <2>6. own'[thr_first] # Nil
    BY <2>2, PoolAssumption DEF TypeOK
  <2> QED BY <2>2, <2>4, <2>5, <2>6, ListLeft
<1>5. CASE BatEnd(c)
  <2>1. PICK s \in Seq(Workers) : Holds(s)
    BY DEF ListInv
  <2>2. /\ Signal(Woken) /\ SetList(RestOfList) /\ lock' = Nil /\ own' = own
        /\ idle' = idle /\ may' = may /\ "batch" \in may
    BY <1>5 DEF BatEnd, flagVars, BatchMay
  <2>3. PICK t \in Seq(Workers) : /\ Row(RestOfList, t)
                                  /\ \A w : w \in Members(t) <=> w \in Members(s) /\ ~Given(w)
    BY <2>1, RestRow DEF Holds
  <2>4. List' = RestOfList
    BY <2>2, RestTyped DEF SetList, List, Lists
  <2>5. /\ Idlers' \subseteq Workers /\ Idlers \subseteq Workers
        /\ \A w \in Workers : w \in Idlers' <=> w \in Idlers
    BY <2>2, SignalIdlers DEF Idlers
  <2>6. Len(t) <= Len(s)
    <3>1. Row(List, s)
      BY <2>1 DEF Holds
    <3>2. Members(t) \subseteq Members(s)
      BY <2>3
    <3>3. Len(s) = Cardinality(Members(s)) /\ IsFiniteSet(Members(s)) /\ Len(t) = Cardinality(Members(t))
      BY <2>3, <3>1, RowCardinality DEF Row
    <3> QED BY <3>2, <3>3, FS_Subset
  <2>7. \A v \in Idlers' : own'[v] = Nil => v \in Members(t)
    BY <2>1, <2>2, <2>3, <2>5 DEF Holds, Given
  <2>8. \A v \in Members(t) : v \in Idlers' /\ own'[v] = Nil
    BY <2>1, <2>2, <2>3, <2>5 DEF Holds, Given
  <2>9. idle' >= Len(t)
    BY <2>1, <2>2, <2>6 DEF Holds, TypeOK
  <2>10. Holds(t)'
    BY <2>2, <2>3, <2>4, <2>7, <2>8, <2>9 DEF Holds
  <2> QED BY <2>10 DEF ListInv
<1> QED BY <1>1, <1>2, <1>3, <1>4, <1>5 DEF Client

LInv == PInv /\ BatchMay /\ ListInv

(* It holds at the start                                                   *)
LEMMA InitLInv == Init => LInv
<1> SUFFICES ASSUME Init PROVE LInv
  OBVIOUS
<1>1. BatchMay
  BY DEF Init, BatchMay
<1>2. Holds(<<>>)
  <2>1. Members(<<>>) = {} /\ Row(List, <<>>)
    BY DEF Init, Members, Row, List, Distinct
  <2> QED BY <2>1 DEF Init, Holds, Idlers
<1>3. <<>> \in Seq(Workers)
  OBVIOUS
<1> QED BY <1>1, <1>2, <1>3, InitPInv DEF LInv, ListInv

(* and is kept by every step.                                              *)
LEMMA NextLInv == ASSUME LInv, [Next]_poolVars PROVE LInv'
<1>1. PInv' /\ BatchMay'
  BY NextPInv, NextBatchMay DEF LInv, PInv
<1>2. CASE \E w \in Workers : Worker(w) \/ Expire(w) \/ WakeSpuriously(w)
  BY <1>1, <1>2, WorkerList DEF LInv, PInv
<1>3. CASE \E c \in Clients : Client(c) \/ AddBegins(c) \/ BatBegins(c) \/ Stop(c) \/ Destroy(c)
  BY <1>1, <1>3, ClientList DEF LInv, PInv
<1>4. CASE UNCHANGED poolVars
  <2>1. UNCHANGED <<thr_first, nxt, prv, idle, may, own, lock, pc>>
    BY <1>4 DEF poolVars
  <2>2. \A v \in Workers : v \in Idlers' <=> v \in Idlers
    BY <2>1 DEF Idlers
  <2> QED BY <1>1, <2>1, <2>2, ListStays DEF LInv
<1> QED BY <1>2, <1>3, <1>4 DEF Next

(* In every reachable state the links of the pool are a list of the        *)
(* workers that wait with no job of their own, whoever linked and unlinked *)
(* them (worker_wait, job_deliver, worker_run, bat_add_end) in whichever   *)
(* order.                                                                  *)
THEOREM PoolListSafe == Spec => []LInv
<1>1. LInv /\ [Next]_poolVars => LInv'
  BY NextLInv
<1> QED BY InitLInv, <1>1, PTL DEF Spec

(* The list is what IdleListExact says it is.                              *)
LEMMA ListIsExact == ASSUME TypeOK, ListInv PROVE IdleListExact
<1>1. PICK s \in Seq(Workers) : Holds(s)
  BY DEF ListInv
<1>2. IdleList = s
  BY <1>1, ChainIsRow DEF Holds
<1>3. /\ Row(List, s) /\ Len(s) = Cardinality(Members(s)) /\ Members(s) \subseteq Workers
      /\ Members(s) = {s[i] : i \in DOMAIN s}
  BY <1>1, RowCardinality DEF Holds, Row, Members
<1>4. ASSUME NEW i \in 2 .. Len(s) PROVE prv[s[i]] = s[i - 1]
  <2>1. i - 1 \in 1 .. Len(s) - 1 /\ (i - 1) + 1 = i
    BY <1>1
  <2> QED BY <1>3, <2>1 DEF Row, List
<1> QED BY <1>1, <1>2, <1>3, <1>4 DEF Holds, IdleListExact

(* The idle list of the pool links exactly the workers that wait without a *)
(* job, each once, with prev right wherever unlinking reads it, and idle   *)
(* counts them but for what batches leave in it: for any number of         *)
(* threads, clients and jobs, with timeouts and batches together.          *)
THEOREM IdleListSafe == Spec => []IdleListExact
<1>1. LInv => IdleListExact
  BY ListIsExact DEF LInv, PInv
<1> QED BY PoolListSafe, <1>1, PTL

-----------------------------------------------------------------------------
(* A run has idle timeouts or batches: with both, a batch may look at a    *)
(* thread that has ended.                                                  *)
Separate == ~({"expire", "batch"} \subseteq may)

Started == {w \in Workers : pc[w] \notin {"none", "init"}}

InBatches == {c \in Clients : cpc[c] \in {"batlock", "batfirst", "bat"}}

(* A worker's time is up only where idle_timeout is set.                   *)
Expiring == "expire" \notin may => \A w \in Workers : pc[w] # "expired"

(* Nobody is in a batch while the pool is being stopped.                   *)
StopAlone == \A c, d \in Clients : Stopping(c) => d \notin InBatches

(* A pool that was stopped has no idle worker, and a batch finds none.     *)
Drained == quit /\ (\A c \in Clients : ~Stopping(c)) => Idlers = {}

IterNil == quit /\ InBatches # {} => thr_iter = Nil

(* What a list links are members of S.                                     *)
Leads(l, S) == l.first \in S \cup {Nil} /\ \A w \in Workers : l.next[w] \in S \cup {Nil}

(* Where there are batches, every pointer they follow leads to a thread    *)
(* that runs.                                                              *)
Pointed ==
  "batch" \in may /\ ~quit => Leads(List, Started) /\ thr_iter \in Started \cup {Nil}

(* A worker with a job of its own is awake, or will be: it is signalled,   *)
(* or on the list that the batch signals.                                  *)
OnList(w) == \E s \in Seq(Workers) : Row(List, s) /\ w \in Members(s)

Cared(w) ==
  \/ w \in Awake
  \/ pc[w] = "wait" /\ (w \in Signalling \/ (lock # Nil /\ OnList(w)))

OwnCared == \A w \in Workers : own[w] # Nil => Cared(w)

(* For the jobs in the queue some thread is awake.                         *)
QueueCared ==
  lock = Nil /\ queue # <<>> =>
    Awake \cup Signalling # {} \/ \A w \in Workers : pc[w] \in {"none", "init"}

(* And where threads can be had there is one.                              *)
QueueServed == may \cap {"nothread", "noinit"} = {} /\ queue # <<>> => Threads # {}

(* No job is lost.                                                         *)
AllJobs == \A j \in 1 .. added : j \in Waiting \cup Running \cup ran

Calm ==
  /\ Expiring /\ StopAlone /\ Drained /\ IterNil /\ Pointed
  /\ OwnCared /\ QueueCared /\ QueueServed

-----------------------------------------------------------------------------
(* What a worker does not touch.                                           *)
LEMMA WorkerFrame ==
  ASSUME TypeOK, NEW w \in Workers, Worker(w) \/ Expire(w) \/ WakeSpuriously(w)
  PROVE  /\ UNCHANGED <<may, quit, thr_iter, lock, target, added>>
         /\ \A c \in Clients : cpc'[c] = cpc[c] \/ (cpc[c] = "stopwait" /\ cpc'[c] = "stopwoken")
         /\ \A v \in Workers : v # w => pc'[v] = pc[v] /\ own'[v] = own[v]
<1>1. UNCHANGED <<may, quit, thr_iter, lock, target, added>>
  BY DEF Worker, WorkerStarts, WorkerInitFails, RunOwn, RunQueued, JobEnds, BeginWait, WaitAgain,
     WorkerEnds, Expire, WakeSpuriously, flagVars, clientVars
<1>2. \A c \in Clients : cpc'[c] = cpc[c] \/ (cpc[c] = "stopwait" /\ cpc'[c] = "stopwoken")
  <2>1. CASE WorkerEnds(w)
    BY <2>1 DEF WorkerEnds
  <2>2. CASE UNCHANGED clientVars
    BY <2>2 DEF clientVars
  <2> QED BY <2>1, <2>2 DEF Worker, WorkerStarts, WorkerInitFails, RunOwn, RunQueued, JobEnds,
            BeginWait, WaitAgain, Expire, WakeSpuriously
<1>3. \A v \in Workers : v # w => pc'[v] = pc[v]
  <2>1. \E at : pc' = [pc EXCEPT ![w] = at]
    BY DEF Worker, WorkerStarts, WorkerInitFails, RunOwn, RunQueued, JobEnds, BeginWait, WaitAgain,
       WorkerEnds, Expire, WakeSpuriously
  <2> QED BY <2>1 DEF TypeOK
<1>4. \A v \in Workers : v # w => own'[v] = own[v]
  <2>1. own' = own \/ own' = [own EXCEPT ![w] = Nil]
    BY DEF Worker, WorkerStarts, WorkerInitFails, RunOwn, RunQueued, JobEnds, BeginWait, WaitAgain,
       WorkerEnds, Expire, WakeSpuriously
  <2> QED BY <2>1 DEF TypeOK
<1> QED BY <1>1, <1>2, <1>3, <1>4

(* What a client does to the workers: it may signal some, or start one.    *)
LEMMA ClientFrame ==
  ASSUME TypeOK, NEW c \in Clients,
         Client(c) \/ AddBegins(c) \/ BatBegins(c) \/ Stop(c) \/ Destroy(c)
  PROVE  /\ may' = may
         /\ \/ pc' = pc
            \/ \E ws : Signal(ws)
            \/ \E w \in Workers : pc[w] = "none" /\ pc' = [pc EXCEPT ![w] = "init"]
         /\ \E here : cpc' = [cpc EXCEPT ![c] = here]
<1> USE DEF CallerAt
<1>1. CASE \/ AddBegins(c) \/ BatBegins(c) \/ BatLocks(c) \/ BatClear(c) \/ Stop(c) \/ Destroy(c)
           \/ BatGive(c) \/ JobDeliver(c)
  BY <1>1 DEF AddBegins, BatBegins, BatLocks, BatClear, Stop, Destroy, BatGive, InBatch, JobDeliver,
     flagVars, workerVars
<1>2. CASE DeliverSignal(c) \/ BatEnd(c) \/ WaitWorkers(c) \/ WaitWorkersWoken(c)
  BY <1>2 DEF DeliverSignal, BatEnd, WaitWorkers, WaitWorkersWoken, Stopped, flagVars, workerVars
<1>3. CASE JobQueue(c) \/ BatQueue(c)
  BY <1>3 DEF JobQueue, BatQueue, InBatch, Enqueue, MoreThreads, flagVars
<1> QED BY <1>1, <1>2, <1>3 DEF Client

(* No thread that runs ends, and none expires, but by a step of a worker.  *)
LEMMA ClientWorkers ==
  ASSUME TypeOK, NEW c \in Clients,
         Client(c) \/ AddBegins(c) \/ BatBegins(c) \/ Stop(c) \/ Destroy(c)
  PROVE  /\ \A w \in Workers : \/ pc'[w] = pc[w]
                               \/ pc[w] = "wait" /\ pc'[w] = "woken"
                               \/ pc[w] = "none" /\ pc'[w] = "init"
         /\ Idlers' = Idlers /\ Started' = Started /\ Awake \subseteq Awake'
<1>1. \A w \in Workers : \/ pc'[w] = pc[w]
                         \/ pc[w] = "wait" /\ pc'[w] = "woken"
                         \/ pc[w] = "none" /\ pc'[w] = "init"
  BY ClientFrame DEF Signal, TypeOK
<1> QED BY <1>1 DEF Idlers, Started, Awake

(* The circumstances of a run do not change.                               *)
LEMMA MayStays == ASSUME TypeOK, [Next]_poolVars PROVE may' = may
BY WorkerFrame, ClientFrame DEF Next, poolVars

(* No step lets a worker expire without idle_timeout.                      *)
LEMMA NextExpiring ==
  ASSUME TypeOK, Expiring, [Next]_poolVars
  PROVE  Expiring'
<1>1. CASE \E w \in Workers : Worker(w) \/ Expire(w) \/ WakeSpuriously(w)
  <2>1. PICK w \in Workers : Worker(w) \/ Expire(w) \/ WakeSpuriously(w)
    BY <1>1
  <2>2. pc'[w] # "expired" \/ "expire" \in may
    BY <2>1 DEF Worker, Expire, WakeSpuriously, WorkerStarts, WorkerInitFails, RunOwn, RunQueued,
       JobEnds, BeginWait, WaitAgain, WorkerEnds, TypeOK
  <2> QED BY <2>1, <2>2, WorkerFrame DEF Expiring
<1>2. CASE \E c \in Clients : Client(c) \/ AddBegins(c) \/ BatBegins(c) \/ Stop(c) \/ Destroy(c)
  BY <1>2, ClientFrame, ClientWorkers DEF Expiring
<1>3. CASE UNCHANGED poolVars
  BY <1>3 DEF poolVars, Expiring
<1> QED BY <1>1, <1>2, <1>3 DEF Next

(* A batch begins only while the pool is valid, a stop only outside of     *)
(* batches.                                                                *)
LEMMA NextStopAlone ==
  ASSUME TypeOK, OneStops, LockInBatch, StopAlone, [Next]_poolVars
  PROVE  StopAlone'
<1> USE DEF StopAlone, Stopping, InBatches, CallerAt
<1>1. CASE \E w \in Workers : Worker(w) \/ Expire(w) \/ WakeSpuriously(w)
  BY <1>1, WorkerFrame
<1>2. ASSUME NEW c \in Clients, BatBegins(c) \/ BatLocks(c) \/ BatGive(c) \/ BatQueue(c)
      PROVE  StopAlone'
  <2>1. /\ \A d \in Clients : ~Stopping(d)
        /\ \E here \in {"batlock", "batfirst", "bat"} : cpc' = [cpc EXCEPT ![c] = here]
    BY <1>2 DEF BatBegins, BatLocks, BatGive, BatQueue, InBatch, LockInBatch, OneStops
  <2> QED BY <2>1
<1>3. ASSUME NEW c \in Clients, Stop(c) \/ Destroy(c) \/ WaitWorkers(c) \/ WaitWorkersWoken(c)
      PROVE  StopAlone'
  <2>1. /\ InBatches = {}
        /\ \E here \in {"stop", "stopwait", "idle"} : cpc' = [cpc EXCEPT ![c] = here]
    BY <1>3 DEF Stop, Destroy, WaitWorkers, WaitWorkersWoken, Stopped
  <2> QED BY <2>1
<1>4. ASSUME NEW c \in Clients,
             JobDeliver(c) \/ DeliverSignal(c) \/ JobQueue(c) \/ AddBegins(c) \/ BatEnd(c) \/ BatClear(c)
      PROVE  StopAlone'
  <2>1. \E here \in {"idle", "add", "signal", "batclear"} : cpc' = [cpc EXCEPT ![c] = here]
    BY <1>4 DEF JobDeliver, DeliverSignal, JobQueue, AddBegins, BatEnd, BatClear
  <2> QED BY <2>1
<1>5. CASE UNCHANGED poolVars
  BY <1>5 DEF poolVars
<1> QED BY <1>1, <1>2, <1>3, <1>4, <1>5 DEF Next, Client

(* A stop ends when no thread is left, and then nobody waits any more.     *)
LEMMA NextDrained ==
  ASSUME TypeOK, CountExact, LockInBatch, Drained, [Next]_poolVars
  PROVE  Drained'
<1> USE DEF Drained, Stopping, CallerAt
<1>1. CASE \E w \in Workers : Worker(w) \/ Expire(w) \/ WakeSpuriously(w)
  <2>1. PICK w \in Workers : Worker(w) \/ Expire(w) \/ WakeSpuriously(w)
    BY <1>1
  <2>2. w \in Idlers' /\ quit => w \in Idlers
    BY <2>1 DEF Worker, Expire, WakeSpuriously, WorkerStarts, WorkerInitFails, RunOwn, RunQueued,
       JobEnds, BeginWait, WaitAgain, WorkerEnds, HasLock, TypeOK, Idlers
  <2>3. quit => Idlers' \subseteq Idlers
    BY <2>1, <2>2, WorkerFrame DEF Idlers
  <2> QED BY <2>1, <2>3, WorkerFrame
<1>2. ASSUME NEW c \in Clients, WaitWorkers(c) \/ WaitWorkersWoken(c) PROVE Drained'
  <2>1. Idlers' = Idlers
    BY <1>2, ClientWorkers DEF Client
  <2>2. CASE count = 0
    <3>1. Idlers = {}
      BY <2>2, ThreadsFinite, FS_EmptySet DEF CountExact, Threads, Idlers
    <3> QED BY <2>1, <3>1
  <2>3. CASE count # 0
    <3>1. count > 0 /\ cpc[c] \in {"stop", "stopwoken"}
      BY <1>2, <2>3, ThreadsFinite DEF CountExact, WaitWorkers, WaitWorkersWoken
    <3>2. cpc' = [cpc EXCEPT ![c] = "stopwait"]
      BY <1>2, <2>3, <3>1 DEF WaitWorkers, WaitWorkersWoken
    <3>3. Stopping(c)'
      BY <3>2 DEF TypeOK
    <3> QED BY <3>3
  <2> QED BY <2>2, <2>3
<1>3. ASSUME NEW c \in Clients, Stop(c) \/ Destroy(c) PROVE Drained'
  <2>1. cpc' = [cpc EXCEPT ![c] = "stop"]
    BY <1>3 DEF Stop, Destroy
  <2>2. Stopping(c)'
    BY <2>1 DEF TypeOK
  <2> QED BY <2>2
<1>4. ASSUME NEW c \in Clients,
             \/ JobDeliver(c) \/ DeliverSignal(c) \/ JobQueue(c) \/ AddBegins(c) \/ BatBegins(c)
             \/ BatLocks(c) \/ BatGive(c) \/ BatQueue(c) \/ BatEnd(c) \/ BatClear(c)
      PROVE  Drained'
  <2>1. quit' = quit /\ cpc[c] \notin {"stop", "stopwait", "stopwoken"}
    BY <1>4 DEF JobDeliver, DeliverSignal, JobQueue, AddBegins, BatBegins, BatLocks, BatGive,
       InBatch, BatQueue, BatEnd, BatClear, flagVars, LockInBatch
  <2>2. Idlers' = Idlers
    BY <1>4, ClientWorkers DEF Client
  <2>3. \E here : cpc' = [cpc EXCEPT ![c] = here]
    BY <1>4, ClientFrame DEF Client
  <2> QED BY <2>1, <2>2, <2>3
<1>5. CASE UNCHANGED poolVars
  BY <1>5 DEF poolVars, Idlers
<1> QED BY <1>1, <1>2, <1>3, <1>4, <1>5 DEF Next, Client

-----------------------------------------------------------------------------
(* What a chain meets from a member of S on is in S.                       *)
LEMMA ChainIn ==
  ASSUME TypeOK, NEW S, S \subseteq Workers, NEW first \in S \cup {Nil},
         \A w \in S : nxt[w] \in S \cup {Nil}
  PROVE  \A i \in DOMAIN Chain(first) : Chain(first)[i] \in S
<1>1. first \in Workers \cup {Nil}
  OBVIOUS
<1>2. PICK at :
        /\ at[0] = first
        /\ \A i \in 1 .. Most : at[i] = IF at[i - 1] = Nil THEN Nil ELSE nxt[at[i - 1]]
        /\ Chain(first) = [i \in {k \in 1 .. Most : at[k - 1] # Nil} |-> at[i - 1]]
  BY <1>1, ChainSteps
<1>3. PICK T : T = S \cup {Nil}
  OBVIOUS
<1>4. at[0] \in T /\ Most \in Nat
  BY <1>2, <1>3, MostNat
<1>5. \A i \in 1 .. Most : at[i - 1] \in T => at[i] \in T
  BY <1>2, <1>3
<1>6. \A i \in 0 .. Most : at[i] \in T
  BY <1>4, <1>5, HoldsThroughout
<1>7. \A i \in 1 .. Most : i - 1 \in 0 .. Most
  BY <1>4
<1> QED BY <1>2, <1>3, <1>6, <1>7

(* To unlink a worker makes no new pointers,                               *)
LEMMA UnlinkedLeads ==
  ASSUME NEW l \in Lists, NEW S, Leads(l, S), NEW w \in Workers
  PROVE  Leads(Unlinked(l, w), S)
<1>1. CASE l.first = w
  BY <1>1 DEF Unlinked, Leads, Lists
<1>2. CASE l.first # w
  <2>1. /\ Unlinked(l, w).first = l.first
        /\ Unlinked(l, w).next = [l.next EXCEPT ![l.prev[w]] = l.next[w]]
    BY <1>2 DEF Unlinked, Lists
  <2> QED BY <2>1 DEF Leads, Lists
<1> QED BY <1>1, <1>2

(* nor does the end of a batch;                                            *)
LEMMA RestLeads ==
  ASSUME TypeOK, NEW S, Leads(List, S)
  PROVE  Leads(RestOfList, S)
<1>1. PICK rest :
        /\ rest \in [0 .. Most -> Lists]
        /\ rest[0] = List
        /\ \A i \in 1 .. Most :
             rest[i] = IF i \in DOMAIN IdleList /\ Given(IdleList[i])
                         THEN Unlinked(rest[i - 1], IdleList[i]) ELSE rest[i - 1]
        /\ RestOfList = rest[Most]
  BY RestSteps
<1>2. PICK T : T = {l \in Lists : Leads(l, S)}
  OBVIOUS
<1>3. rest[0] \in T /\ Most \in Nat
  BY <1>1, <1>2, ListTyped, MostNat
<1>4. \A i \in 1 .. Most : rest[i - 1] \in T => rest[i] \in T
  <2> SUFFICES ASSUME NEW i \in 1 .. Most, rest[i - 1] \in T PROVE rest[i] \in T
    OBVIOUS
  <2>1. rest[i - 1] \in Lists /\ Leads(rest[i - 1], S)
    BY <1>2
  <2>2. CASE i \in DOMAIN IdleList /\ Given(IdleList[i])
    <3>1. IdleList[i] \in Workers /\ rest[i] = Unlinked(rest[i - 1], IdleList[i])
      BY <1>1, <2>2, IdleListTyped
    <3> QED BY <1>2, <2>1, <3>1, UnlinkedLeads, UnlinkedTyped
  <2>3. CASE ~(i \in DOMAIN IdleList /\ Given(IdleList[i]))
    BY <1>1, <2>3
  <2> QED BY <2>2, <2>3
<1>5. \A i \in 0 .. Most : rest[i] \in T
  BY <1>3, <1>4, HoldsThroughout
<1>6. rest[Most] \in T
  BY <1>3, <1>5
<1> QED BY <1>1, <1>2, <1>6

(* and what leads to S leads to more than S.                               *)
LEMMA LeadsMore ==
  ASSUME NEW l, NEW S, NEW T, Leads(l, S), S \subseteq T
  PROVE  Leads(l, T)
BY DEF Leads

(* The same of the list itself.                                            *)
LEMMA UnlinkLeads ==
  ASSUME TypeOK, NEW w \in Workers, Unlink(w), NEW S, Leads(List, S)
  PROVE  Leads(List', S)
<1>1. Unlinked(List, w) \in Lists /\ Leads(Unlinked(List, w), S)
  BY ListTyped, UnlinkedTyped, UnlinkedLeads
<1>2. List'.first = Unlinked(List, w).first /\ List'.next = Unlinked(List, w).next
  BY <1>1 DEF Unlink, SetList, List, Lists
<1> QED BY <1>1, <1>2 DEF Leads

(* A worker that a batch gives a job to is a thread that runs, and the     *)
(* pool was not stopped.                                                   *)
LEMMA GivenStarted ==
  ASSUME TypeOK, LockInBatch, BatchMay, IterNil, Pointed, NEW c \in Clients, BatGive(c)
  PROVE  ~quit /\ \E w \in Started : /\ own[w] = Nil /\ own' = [own EXCEPT ![w] = added + 1]
                                     /\ thr_iter' = nxt[w]
<1>1. c \in InBatches /\ "batch" \in may
  BY DEF BatGive, InBatch, LockInBatch, InBatches, BatchMay
<1>2. PICK i \in DOMAIN Chain(thr_iter) :
        LET w == Chain(thr_iter)[i]
        IN  own[w] = Nil /\ own' = [own EXCEPT ![w] = added + 1] /\ thr_iter' = nxt[w]
  BY DEF BatGive, Given
<1>3. ~quit
  <2>1. SUFFICES ASSUME quit PROVE FALSE
    OBVIOUS
  <2>2. PICK S : S = {}
    OBVIOUS
  <2>3. thr_iter \in S \cup {Nil} /\ S \subseteq Workers /\ \A w \in S : nxt[w] \in S \cup {Nil}
    BY <1>1, <2>1, <2>2 DEF IterNil
  <2>4. Chain(thr_iter)[i] \in S
    BY <2>3, ChainIn
  <2> QED BY <2>2, <2>4
<1>4. /\ thr_iter \in Started \cup {Nil} /\ Started \subseteq Workers
      /\ \A w \in Started : nxt[w] \in Started \cup {Nil}
  BY <1>1, <1>3 DEF Pointed, Leads, List, Started
<1>5. Chain(thr_iter)[i] \in Started
  BY <1>4, ChainIn
<1> QED BY <1>2, <1>3, <1>5

(* A batch of a pool that was stopped finds no worker to look at.          *)
LEMMA NextIterNil ==
  ASSUME TypeOK, OneStops, LockInBatch, BatchMay, ListInv, StopAlone, Drained, IterNil, Pointed,
         [Next]_poolVars
  PROVE  IterNil'
<1> USE DEF CallerAt
<1>1. CASE \E w \in Workers : Worker(w) \/ Expire(w) \/ WakeSpuriously(w)
  BY <1>1, WorkerFrame DEF IterNil, InBatches
<1>2. ASSUME NEW c \in Clients, BatBegins(c) PROVE IterNil'
  <2>1. valid /\ thr_iter' = thr_first /\ quit' = quit
    BY <1>2 DEF BatBegins, flagVars
  <2>2. quit => Idlers = {}
    BY <2>1 DEF OneStops, Drained
  <2>3. quit => thr_first = Nil
    <3>1. SUFFICES ASSUME quit, thr_first # Nil PROVE FALSE
      OBVIOUS
    <3>2. PICK s \in Seq(Workers) : Holds(s)
      BY DEF ListInv
    <3>3. 1 \in 1 .. Len(s)
      BY <3>1, <3>2 DEF Holds, Row, List
    <3>4. s[1] \in Members(s)
      BY <3>3, MembersAre
    <3> QED BY <2>2, <3>1, <3>2, <3>4 DEF Holds
  <2> QED BY <2>1, <2>3 DEF IterNil
<1>3. ASSUME NEW c \in Clients, BatQueue(c) \/ BatClear(c) PROVE IterNil'
  BY <1>3 DEF BatQueue, BatClear, IterNil
<1>4. ASSUME NEW c \in Clients, BatGive(c) PROVE IterNil'
  BY <1>4, GivenStarted DEF BatGive, flagVars, IterNil
<1>5. ASSUME NEW c \in Clients, WaitWorkers(c) \/ WaitWorkersWoken(c) PROVE IterNil'
  <2>1. InBatches = {}
    BY <1>5 DEF WaitWorkers, WaitWorkersWoken, StopAlone, Stopping, InBatches
  <2>2. \E here \in {"stopwait", "idle"} : cpc' = [cpc EXCEPT ![c] = here]
    BY <1>5 DEF WaitWorkers, WaitWorkersWoken, Stopped
  <2>3. InBatches' = {}
    BY <2>1, <2>2 DEF InBatches, TypeOK
  <2> QED BY <2>3 DEF IterNil
<1>6. ASSUME NEW c \in Clients,
             \/ JobDeliver(c) \/ DeliverSignal(c) \/ JobQueue(c) \/ AddBegins(c)
             \/ BatLocks(c) \/ BatEnd(c) \/ Stop(c) \/ Destroy(c)
      PROVE  IterNil'
  <2>1. /\ quit' = quit /\ thr_iter' = thr_iter
        /\ \E here : /\ cpc' = [cpc EXCEPT ![c] = here]
                     /\ here \in {"batlock", "batfirst", "bat"} => c \in InBatches
    BY <1>6 DEF JobDeliver, DeliverSignal, JobQueue, AddBegins, BatLocks, BatEnd, Stop, Destroy,
       flagVars, InBatches
  <2>2. InBatches' \subseteq InBatches
    BY <2>1 DEF InBatches, TypeOK
  <2> QED BY <2>1, <2>2 DEF IterNil
<1>7. CASE UNCHANGED poolVars
  BY <1>7 DEF poolVars, IterNil, InBatches
<1> QED BY <1>1, <1>2, <1>3, <1>4, <1>5, <1>6, <1>7 DEF Next, Client

(* Where there are batches no thread that runs ends before the pool stops. *)
LEMMA NextPointed ==
  ASSUME TypeOK, LockInBatch, BatchMay, IterNil, Separate, Expiring, Pointed, [Next]_poolVars
  PROVE  Pointed'
<1> USE DEF CallerAt
<1>0. may' = may
  BY MayStays
<1>1. CASE \E w \in Workers : Worker(w) \/ Expire(w) \/ WakeSpuriously(w)
  <2> SUFFICES ASSUME "batch" \in may, ~quit
               PROVE  Leads(List', Started') /\ thr_iter' \in Started' \cup {Nil}
    BY <1>0, <1>1, WorkerFrame DEF Pointed
  <2>1. PICK w \in Workers : Worker(w) \/ Expire(w) \/ WakeSpuriously(w)
    BY <1>1
  <2>2. ~WorkerEnds(w)
    BY DEF Separate, Expiring, WorkerEnds, Enough
  <2>3. Started \subseteq Started'
    <3>1. w \in Started => w \in Started'
      BY <2>1, <2>2 DEF Worker, Expire, WakeSpuriously, WorkerStarts, WorkerInitFails, RunOwn,
         RunQueued, JobEnds, BeginWait, WaitAgain, Started, TypeOK
    <3> QED BY <2>1, <3>1, WorkerFrame DEF Started
  <2>4. Leads(List, Started)
    BY DEF Pointed
  <2>5. Leads(List', Started')
    <3>1. CASE BeginWait(w)
      <4>1. w \in Started' /\ LinkFirst(w)
        BY <3>1 DEF BeginWait, Started, TypeOK
      <4>2. List'.first = w /\ List'.next = [nxt EXCEPT ![w] = thr_first]
        BY <4>1 DEF LinkFirst, SetList, List
      <4> QED BY <2>3, <2>4, <4>1, <4>2 DEF Leads, List, TypeOK
    <3>2. CASE RunQueued(w)
      <4>1. CASE UNCHANGED listVars
        BY <2>3, <2>4, <4>1 DEF listVars, Leads, List
      <4>2. CASE Unlink(w)
        BY <2>3, <2>4, <4>2, UnlinkLeads, LeadsMore
      <4> QED BY <3>2, <4>1, <4>2 DEF RunQueued, LeaveList
    <3>3. CASE UNCHANGED listVars
      BY <2>3, <2>4, <3>3 DEF listVars, Leads, List
    <3> QED BY <2>1, <2>2, <3>1, <3>2, <3>3 DEF Worker, Expire, WakeSpuriously, WorkerStarts,
              WorkerInitFails, RunOwn, JobEnds, WaitAgain
  <2> QED BY <2>1, <2>3, <2>5, WorkerFrame DEF Pointed
<1>2. ASSUME NEW c \in Clients, Client(c) \/ AddBegins(c) \/ BatBegins(c) \/ Stop(c) \/ Destroy(c)
      PROVE  Pointed'
  <2>1. Started' = Started
    BY <1>2, ClientWorkers
  <2>2. ~quit' => ~quit
    BY <1>2 DEF Client, JobDeliver, DeliverSignal, JobQueue, AddBegins, BatBegins, BatLocks, BatGive,
       BatQueue, BatEnd, BatClear, Stop, Destroy, WaitWorkers, WaitWorkersWoken, flagVars
  <2> SUFFICES ASSUME "batch" \in may, ~quit
               PROVE  Leads(List', Started) /\ thr_iter' \in Started \cup {Nil}
    BY <1>0, <2>1, <2>2 DEF Pointed
  <2>3. Leads(List, Started) /\ thr_iter \in Started \cup {Nil}
    BY DEF Pointed
  <2>4. Leads(List', Started)
    <3>1. CASE JobDeliver(c)
      <4>1. thr_first \in Workers /\ Unlink(thr_first)
        BY <3>1 DEF JobDeliver, Idler, TypeOK
      <4> QED BY <2>3, <4>1, UnlinkLeads
    <3>2. CASE BatEnd(c)
      <4>1. List' = RestOfList
        BY <3>2, RestTyped DEF BatEnd, SetList, List, Lists
      <4> QED BY <2>3, <4>1, RestLeads
    <3>3. CASE UNCHANGED listVars
      BY <2>3, <3>3 DEF listVars, List
    <3> QED BY <1>2, <3>1, <3>2, <3>3 DEF Client, DeliverSignal, JobQueue, AddBegins, BatBegins,
              BatLocks, BatGive, BatQueue, BatClear, Stop, Destroy, WaitWorkers, WaitWorkersWoken
  <2>5. thr_iter' \in Started \cup {Nil}
    <3>1. CASE BatGive(c)
      <4>1. PICK w \in Started : thr_iter' = nxt[w]
        BY <3>1, GivenStarted
      <4> QED BY <2>3, <4>1 DEF Leads, List, Started
    <3>2. CASE thr_iter' \in {thr_iter, Nil, thr_first}
      BY <2>3, <3>2 DEF Leads, List
    <3> QED BY <1>2, <3>1, <3>2 DEF Client, JobDeliver, DeliverSignal, JobQueue, AddBegins, BatBegins,
              BatLocks, BatQueue, BatEnd, BatClear, Stop, Destroy, WaitWorkers, WaitWorkersWoken
  <2> QED BY <2>4, <2>5
<1>3. CASE UNCHANGED poolVars
  BY <1>3 DEF poolVars, Pointed, Leads, List, Started
<1> QED BY <1>1, <1>2, <1>3 DEF Next

-----------------------------------------------------------------------------
(* A worker is cared for until somebody takes that away.                   *)
LEMMA CaredStays ==
  ASSUME TypeOK, NEW v \in Workers, Cared(v), own'[v] = own[v],
         pc'[v] = pc[v] \/ (pc[v] = "wait" /\ pc'[v] \in {"woken", "expired"}),
         lock # Nil => lock' # Nil /\ List' = List,
         \A c \in Clients : cpc[c] = "signal" => cpc'[c] = "signal" /\ target'[c] = target[c]
  PROVE  Cared(v)'
<1>1. v \in Awake => v \in Awake'
  BY DEF Awake
<1>2. v \in Signalling => v \in Signalling'
  BY DEF Signalling
<1>3. OnList(v) /\ lock # Nil => OnList(v)'
  BY DEF OnList
<1>4. pc'[v] # pc[v] => v \in Awake'
  BY DEF Awake
<1> QED BY <1>1, <1>2, <1>3, <1>4 DEF Cared

(* No step of a worker leaves one with a job asleep,                       *)
LEMMA WorkerCared ==
  ASSUME TypeOK, OwnCared, NEW w \in Workers, Worker(w) \/ Expire(w) \/ WakeSpuriously(w)
  PROVE  OwnCared'
<1>1. lock # Nil => List' = List
  <2>1. UNCHANGED listVars \/ lock = Nil
    BY DEF Worker, WorkerStarts, WorkerInitFails, RunOwn, RunQueued, JobEnds, BeginWait, WaitAgain,
       WorkerEnds, Expire, WakeSpuriously, HasLock
  <2> QED BY <2>1 DEF listVars, List
<1>2. \A c \in Clients : cpc[c] = "signal" => cpc'[c] = "signal" /\ target'[c] = target[c]
  BY WorkerFrame
<1>3. ASSUME NEW v \in Workers, v # w, own'[v] # Nil PROVE Cared(v)'
  <2>1. own'[v] = own[v] /\ pc'[v] = pc[v] /\ lock' = lock
    BY <1>3, WorkerFrame
  <2> QED BY <1>1, <1>2, <1>3, <2>1, CaredStays DEF OwnCared
<1>4. ASSUME own'[w] # Nil PROVE Cared(w)'
  <2>1. own[w] # Nil /\ own'[w] = own[w]
    BY <1>4 DEF Worker, WorkerStarts, WorkerInitFails, RunOwn, RunQueued, JobEnds, BeginWait, WaitAgain,
       WorkerEnds, Expire, WakeSpuriously, HasLock, TypeOK
  <2>2. Cared(w) /\ pc[w] # "init"
    BY <2>1 DEF OwnCared, Cared, Awake
  <2>3. w \in Awake'
    BY <2>1, <2>2, <1>4 DEF Worker, WorkerStarts, WorkerInitFails, RunOwn, RunQueued, JobEnds, BeginWait,
       WaitAgain, WorkerEnds, Expire, WakeSpuriously, NoJobFor, TypeOK, Awake
  <2> QED BY <2>3 DEF Cared
<1> QED BY <1>3, <1>4 DEF OwnCared

(* nor does one of a client.                                               *)
LEMMA ClientCared ==
  ASSUME TypeOK, LockInBatch, BatchMay, ListInv, IterNil, Pointed, OwnCared, NEW c \in Clients,
         Client(c) \/ AddBegins(c) \/ BatBegins(c) \/ Stop(c) \/ Destroy(c)
  PROVE  OwnCared'
<1> USE DEF CallerAt
<1>0. \A v \in Workers : own[v] # Nil => pc'[v] = pc[v] \/ (pc[v] = "wait" /\ pc'[v] = "woken")
  BY ClientWorkers DEF OwnCared, Cared, Awake
<1>1. CASE DeliverSignal(c)
  <2>1. /\ Signal({target[c]}) /\ own' = own /\ lock' = lock /\ List' = List
        /\ \A d \in Clients : d # c => cpc'[d] = cpc[d] /\ target'[d] = target[d]
    BY <1>1 DEF DeliverSignal, listVars, List, TypeOK
  <2> SUFFICES ASSUME NEW v \in Workers, own[v] # Nil PROVE Cared(v)'
    BY <2>1 DEF OwnCared
  <2>2. Cared(v)
    BY DEF OwnCared
  <2>3. CASE v = target[c]
    <3>1. v \in Awake'
      BY <2>1, <2>2, <2>3 DEF Signal, Cared, Awake
    <3> QED BY <3>1 DEF Cared
  <2>4. CASE v # target[c]
    <3>1. v \in Signalling => v \in Signalling'
      BY <2>1, <2>4 DEF Signalling
    <3>2. pc'[v] = pc[v] /\ (OnList(v)' <=> OnList(v))
      BY <2>1, <2>4 DEF Signal, OnList
    <3> QED BY <2>1, <2>2, <3>1, <3>2 DEF Cared, Awake
  <2> QED BY <2>3, <2>4
<1>2. CASE BatEnd(c)
  <2>1. Signal(Woken) /\ own' = own /\ target' = target /\ cpc' = [cpc EXCEPT ![c] = "batclear"] /\ cpc[c] = "bat"
    BY <1>2 DEF BatEnd
  <2> SUFFICES ASSUME NEW v \in Workers, own[v] # Nil PROVE Cared(v)'
    BY <2>1 DEF OwnCared
  <2>2. Cared(v)
    BY DEF OwnCared
  <2>3. OnList(v) => v \in Woken
    <3> SUFFICES ASSUME NEW s \in Seq(Workers), Row(List, s), v \in Members(s) PROVE v \in Woken
      BY DEF OnList
    <3>1. IdleList = s
      BY ChainIsRow
    <3>2. PICK i \in 1 .. Len(s) : s[i] = v
      BY MembersAre
    <3> QED BY <3>1, <3>2 DEF Woken, Given
  <2>4. v \in Awake => v \in Awake'
    BY <1>0 DEF Awake
  <2>5. pc[v] = "wait" /\ v \in Woken => v \in Awake'
    BY <2>1 DEF Signal, Awake
  <2>6. v \in Signalling => v \in Signalling'
    BY <2>1 DEF Signalling, TypeOK
  <2> QED BY <1>0, <2>2, <2>3, <2>4, <2>5, <2>6 DEF Cared, Awake
<1>3. CASE JobDeliver(c)
  <2>1. /\ lock = Nil /\ thr_first \in Workers /\ own' = [own EXCEPT ![thr_first] = added + 1]
        /\ target' = [target EXCEPT ![c] = thr_first] /\ cpc' = [cpc EXCEPT ![c] = "signal"]
        /\ cpc[c] = "add" /\ pc' = pc
    BY <1>3 DEF JobDeliver, Idler, TypeOK
  <2>0. PICK f \in Workers : f = thr_first
    BY <2>1
  <2>2. ASSUME NEW v \in Workers, v # f, own'[v] # Nil PROVE Cared(v)'
    <3>1. own'[v] = own[v] /\ \A d \in Clients : cpc[d] = "signal" => cpc'[d] = "signal" /\ target'[d] = target[d]
      BY <2>0, <2>1, <2>2 DEF TypeOK
    <3> QED BY <2>1, <2>2, <3>1, CaredStays DEF OwnCared
  <2>3. ASSUME own'[f] # Nil PROVE Cared(f)'
    <3>1. PICK s \in Seq(Workers) : Holds(s)
      BY DEF ListInv
    <3>2. 1 \in 1 .. Len(s) /\ f = s[1]
      BY <2>0, <2>1, <3>1, PoolAssumption DEF Holds, Row, List
    <3>3. f \in Idlers
      BY <3>1, <3>2, MembersAre DEF Holds
    <3>4. f \in Signalling'
      BY <2>0, <2>1, <2>3 DEF Signalling, TypeOK
    <3> QED BY <2>1, <3>3, <3>4 DEF Cared, Awake, Idlers
  <2> QED BY <2>2, <2>3 DEF OwnCared
<1>4. CASE BatGive(c)
  <2>1. PICK w \in Started : own[w] = Nil /\ own' = [own EXCEPT ![w] = added + 1]
    BY <1>4, GivenStarted
  <2>2. /\ pc' = pc /\ lock' = lock /\ lock # Nil /\ List' = List /\ target' = target
        /\ \A d \in Clients : cpc[d] = "signal" => cpc'[d] = "signal"
    BY <1>4, PoolAssumption DEF BatGive, InBatch, listVars, List, LockInBatch, TypeOK
  <2>3. ASSUME NEW v \in Workers, v # w, own'[v] # Nil PROVE Cared(v)'
    <3>1. own'[v] = own[v]
      BY <2>1, <2>3 DEF TypeOK
    <3> QED BY <2>2, <2>3, <3>1, CaredStays DEF OwnCared
  <2>4. w \in Workers /\ Cared(w)'
    <3>1. CASE w \in Awake
      BY <2>2, <3>1 DEF Cared, Awake
    <3>2. CASE w \notin Awake
      <4>1. w \in Workers /\ pc[w] = "wait" /\ w \in Idlers
        BY <3>2 DEF Started, Awake, Idlers, TypeOK
      <4>2. OnList(w)
        BY <2>1, <4>1 DEF ListInv, Holds, OnList
      <4>3. OnList(w)'
        BY <2>2, <4>2 DEF OnList
      <4> QED BY <2>2, <4>1, <4>3 DEF Cared
    <3> QED BY <3>1, <3>2 DEF Awake
  <2> QED BY <2>3, <2>4 DEF OwnCared
<1>5. CASE \/ AddBegins(c) \/ BatBegins(c) \/ BatLocks(c) \/ BatClear(c) \/ Stop(c) \/ Destroy(c)
           \/ JobQueue(c) \/ BatQueue(c) \/ WaitWorkers(c) \/ WaitWorkersWoken(c)
  <2>1. own' = own /\ target' = target /\ (lock # Nil => lock' # Nil) /\ List' = List
    BY <1>5, PoolAssumption DEF AddBegins, BatBegins, BatLocks, BatClear, Stop, Destroy, JobQueue, BatQueue,
       WaitWorkers, WaitWorkersWoken, workerVars, listVars, List
  <2>2. cpc[c] # "signal"
    BY <1>5 DEF AddBegins, BatBegins, BatLocks, BatClear, Stop, Destroy, JobQueue, BatQueue, InBatch,
       WaitWorkers, WaitWorkersWoken, LockInBatch
  <2>3. \A d \in Clients : cpc[d] = "signal" => cpc'[d] = "signal" /\ target'[d] = target[d]
    BY <2>1, <2>2, ClientFrame DEF TypeOK
  <2> SUFFICES ASSUME NEW v \in Workers, own[v] # Nil PROVE Cared(v)'
    BY <2>1 DEF OwnCared
  <2> QED BY <1>0, <2>1, <2>3, CaredStays DEF OwnCared
<1> QED BY <1>1, <1>2, <1>3, <1>4, <1>5 DEF Client

-----------------------------------------------------------------------------
(* When no worker waits in the list one is awake, if any runs.             *)
LEMMA NobodyListed ==
  ASSUME TypeOK, ListInv, OwnCared, thr_first = Nil
  PROVE  Awake \cup Signalling # {} \/ \A w \in Workers : pc[w] \in {"none", "init"}
<1> SUFFICES ASSUME NEW w \in Workers, pc[w] \notin {"none", "init"}, w \notin Awake
             PROVE  w \in Signalling
  OBVIOUS
<1>1. ASSUME NEW s \in Seq(Workers), Row(List, s) PROVE w \notin Members(s)
  <2>1. Len(s) = 0
    <3>1. SUFFICES ASSUME Len(s) > 0 PROVE FALSE
      OBVIOUS
    <3>2. thr_first = s[1] /\ s[1] \in Workers
      BY <1>1, <3>1 DEF Row, List
    <3> QED BY <3>2, PoolAssumption
  <2> QED BY <2>1, MembersAre
<1>2. pc[w] = "wait" /\ w \in Idlers
  BY DEF Awake, Idlers, TypeOK
<1>3. own[w] # Nil
  BY <1>1, <1>2 DEF ListInv, Holds
<1>4. ~OnList(w)
  BY <1>1 DEF OnList
<1> QED BY <1>3, <1>4 DEF OwnCared, Cared

(* No thread goes to sleep while there is a job in the queue,              *)
LEMMA WorkerQueueCared ==
  ASSUME TypeOK, QueueCared, NEW w \in Workers, Worker(w) \/ Expire(w) \/ WakeSpuriously(w)
  PROVE  QueueCared'
<1> SUFFICES ASSUME lock' = Nil, queue' # <<>>
             PROVE  Awake' \cup Signalling' # {} \/ \A v \in Workers : pc'[v] \in {"none", "init"}
  BY DEF QueueCared
<1>1. CASE RunQueued(w) \/ RunOwn(w)
  <2>1. w \in Awake'
    BY <1>1 DEF RunQueued, RunOwn, Awake, TypeOK
  <2> QED BY <2>1
<1>2. CASE ~(RunQueued(w) \/ RunOwn(w))
  <2>1. queue' = queue /\ own' = own /\ lock = Nil
    BY <1>2, WorkerFrame DEF Worker, WorkerStarts, WorkerInitFails, JobEnds, BeginWait, WaitAgain,
       WorkerEnds, Expire, WakeSpuriously, HasLock
  <2>2. w \in Awake => w \in Awake'
    BY <1>2, <2>1 DEF Worker, WorkerStarts, WorkerInitFails, JobEnds, BeginWait, WaitAgain,
       WorkerEnds, Expire, WakeSpuriously, NoJobFor, Awake, TypeOK
  <2>3. Awake \subseteq Awake'
    BY <2>2, WorkerFrame DEF Awake
  <2>4. Signalling \subseteq Signalling'
    BY <2>1, WorkerFrame DEF Signalling
  <2>5. pc[w] \in {"none", "init"} => pc'[w] \in {"none", "init"} \/ w \in Awake'
    BY <1>2 DEF Worker, WorkerStarts, WorkerInitFails, JobEnds, BeginWait, WaitAgain,
       WorkerEnds, Expire, WakeSpuriously, HasLock, Awake, TypeOK
  <2> QED BY <2>1, <2>3, <2>4, <2>5, WorkerFrame DEF QueueCared
<1> QED BY <1>1, <1>2

(* and who puts one there, or lets go of the mutex after a batch, leaves   *)
(* somebody awake.                                                         *)
LEMMA ClientQueueCared ==
  ASSUME TypeOK, LockInBatch, ListInv, OwnCared, QueueCared, NEW c \in Clients,
         Client(c) \/ AddBegins(c) \/ BatBegins(c) \/ Stop(c) \/ Destroy(c)
  PROVE  QueueCared'
<1> USE DEF CallerAt
<1> DEFINE Cares == Awake \cup Signalling # {} \/ \A v \in Workers : pc[v] \in {"none", "init"}
<1> SUFFICES ASSUME lock' = Nil, queue' # <<>> PROVE Cares'
  BY DEF QueueCared
<1>1. Awake \subseteq Awake' /\ \A v \in Workers : pc[v] \in {"none", "init"} => pc'[v] \in {"none", "init"}
  BY ClientWorkers
<1>2. ASSUME Cares, Signalling \subseteq Signalling' \cup Awake' PROVE Cares'
  BY <1>1, <1>2
<1>3. CASE DeliverSignal(c)
  <2>1. lock = Nil /\ queue # <<>> /\ Signal({target[c]}) /\ own' = own
    BY <1>3 DEF DeliverSignal
  <2>2. ASSUME NEW v \in Signalling PROVE v \in Signalling' \/ v \in Awake'
    <3>1. CASE v = target[c]
      <4>1. v \in Workers /\ Cared(v)
        BY <2>2 DEF Signalling, OwnCared
      <4> QED BY <2>1, <3>1, <4>1 DEF Signal, Cared, Awake
    <3>2. CASE v # target[c]
      <4>1. PICK d \in Clients : cpc[d] = "signal" /\ target[d] = v
        BY <2>2 DEF Signalling
      <4>2. cpc'[d] = "signal" /\ target'[d] = v
        BY <1>3, <3>2, <4>1 DEF DeliverSignal, TypeOK
      <4> QED BY <2>1, <2>2, <4>2 DEF Signalling
    <3> QED BY <3>1, <3>2
  <2> QED BY <1>2, <2>1, <2>2 DEF QueueCared
<1>4. CASE JobDeliver(c)
  <2>1. lock = Nil /\ queue # <<>> /\ own' = [own EXCEPT ![thr_first] = added + 1]
        /\ cpc' = [cpc EXCEPT ![c] = "signal"] /\ cpc[c] = "add" /\ target' = [target EXCEPT ![c] = thr_first]
        /\ added + 1 # Nil
    BY <1>4, PoolAssumption DEF JobDeliver, TypeOK
  <2>2. Signalling \subseteq Signalling'
    BY <2>1 DEF Signalling, TypeOK
  <2> QED BY <1>2, <2>1, <2>2 DEF QueueCared
<1>5. CASE \/ AddBegins(c) \/ BatBegins(c) \/ BatLocks(c) \/ BatClear(c) \/ Stop(c) \/ Destroy(c)
           \/ WaitWorkers(c) \/ WaitWorkersWoken(c) \/ JobQueue(c) \/ BatEnd(c) \/ BatGive(c) \/ BatQueue(c)
  <2>1. cpc[c] # "signal" /\ target' = target /\ (own' = own \/ BatGive(c))
    BY <1>5 DEF AddBegins, BatBegins, BatLocks, BatClear, Stop, Destroy, JobQueue, BatQueue, InBatch,
       WaitWorkers, WaitWorkersWoken, BatEnd, BatGive, LockInBatch, workerVars
  <2>2. \A d \in Clients : cpc[d] = "signal" => cpc'[d] = "signal"
    BY <2>1, ClientFrame DEF TypeOK
  <2>3. ~BatGive(c) /\ ~BatQueue(c) /\ ~BatLocks(c)
    BY PoolAssumption DEF BatGive, BatQueue, BatLocks, InBatch
  <2>4. Signalling \subseteq Signalling'
    BY <2>1, <2>2, <2>3 DEF Signalling
  <2>5. CASE JobQueue(c)
    <3>1. lock = Nil /\ ~Idler
      BY <2>5 DEF JobQueue
    <3>2. thr_first = Nil
      <4>1. SUFFICES ASSUME thr_first # Nil PROVE FALSE
        OBVIOUS
      <4>2. PICK s \in Seq(Workers) : Holds(s)
        BY DEF ListInv
      <4>3. 1 \in 1 .. Len(s) /\ thr_first = s[1]
        BY <4>1, <4>2 DEF Holds, Row, List
      <4>4. own[thr_first] = Nil
        BY <3>1, <4>2, <4>3, MembersAre DEF Holds
      <4> QED BY <3>1, <4>1, <4>4 DEF Idler
    <3> QED BY <1>2, <2>4, <3>2, NobodyListed
  <2>6. CASE BatEnd(c)
    <3>1. CASE thr_first = Nil
      BY <1>2, <2>4, <3>1, NobodyListed
    <3>2. CASE thr_first # Nil
      <4>1. PICK s \in Seq(Workers) : Holds(s)
        BY DEF ListInv
      <4>2. 1 \in 1 .. Len(s) /\ thr_first = s[1] /\ IdleList = s
        BY <3>2, <4>1, ChainIsRow DEF Holds, Row, List
      <4>3. s[1] \in Idlers /\ s[1] \in Workers
        BY <4>1, <4>2, MembersAre DEF Holds
      <4>4. Len(queue) >= 1 /\ queue' = queue
        BY <2>6 DEF BatEnd, TypeOK
      <4>5. s[1] \in Woken
        <5>1. CASE Given(s[1])
          BY <4>2, <5>1 DEF Woken
        <5>2. CASE ~Given(s[1])
          <6>1. PICK k \in DOMAIN IdleList : k = 1
            BY <4>2
          <6>2. {n \in 1 .. k : ~Given(IdleList[n])} = {1}
            BY <4>2, <5>2, <6>1
          <6>3. Cardinality({n \in 1 .. k : ~Given(IdleList[n])}) <= Len(queue)
            BY <4>4, <6>2, FS_Singleton
          <6>4. IdleList[k] \in Woken
            BY <6>3 DEF Woken
          <6> QED BY <4>2, <6>1, <6>4
        <5> QED BY <5>1, <5>2
      <4>6. s[1] \in Awake'
        BY <2>6, <4>3, <4>5 DEF BatEnd, Signal, Awake, Idlers
      <4> QED BY <4>6
    <3> QED BY <3>1, <3>2
  <2>7. CASE ~(JobQueue(c) \/ BatEnd(c))
    <3>1. queue' = queue /\ lock = Nil
      BY <1>5, <2>3, <2>7 DEF AddBegins, BatBegins, BatClear, Stop, Destroy, WaitWorkers, WaitWorkersWoken
    <3> QED BY <1>2, <2>4, <3>1 DEF QueueCared
  <2> QED BY <2>5, <2>6, <2>7
<1> QED BY <1>3, <1>4, <1>5 DEF Client

(* The last thread does not end while there is a job in the queue.         *)
LEMMA NextQueueServed ==
  ASSUME TypeOK, CountExact, QueueServed, [Next]_poolVars
  PROVE  QueueServed'
<1>0. may' = may
  BY MayStays
<1>1. ASSUME NEW w \in Workers, Worker(w) \/ Expire(w) \/ WakeSpuriously(w) PROVE QueueServed'
  <2>1. CASE WorkerEnds(w)
    BY <1>0, <2>1 DEF WorkerEnds, NoJobFor, QueueServed
  <2>2. CASE WorkerInitFails(w)
    BY <1>0, <2>2 DEF WorkerInitFails, QueueServed
  <2>3. CASE ~WorkerEnds(w) /\ ~WorkerInitFails(w)
    <3>1. pc'[w] # "none"
      BY <1>1, <2>3 DEF Worker, WorkerStarts, RunOwn, RunQueued, JobEnds, BeginWait, WaitAgain,
         Expire, WakeSpuriously, HasLock, TypeOK
    <3> QED BY <3>1 DEF QueueServed, Threads
  <2> QED BY <2>1, <2>2, <2>3
<1>2. ASSUME NEW c \in Clients, Client(c) \/ AddBegins(c) \/ BatBegins(c) \/ Stop(c) \/ Destroy(c)
      PROVE  QueueServed'
  <2>1. Threads \subseteq Threads'
    BY <1>2, ClientWorkers DEF Threads
  <2>2. CASE JobQueue(c) \/ BatQueue(c)
    <3>1. MoreThreads
      BY <2>2 DEF JobQueue, BatQueue, Enqueue
    <3>2. CASE \E w \in Workers : pc[w] = "none" /\ pc' = [pc EXCEPT ![w] = "init"]
      <4>1. Threads' # {}
        BY <3>2 DEF Threads, TypeOK
      <4> QED BY <4>1 DEF QueueServed
    <3>3. CASE count >= parallelism
      <4>1. ASSUME Threads = {} PROVE FALSE
        <5>1. count = 0
          BY <4>1, FS_EmptySet DEF CountExact
        <5> QED BY <3>3, <5>1, PoolAssumption
      <4> QED BY <2>1, <4>1 DEF QueueServed
    <3>4. CASE "nothread" \in may
      BY <1>0, <3>4 DEF QueueServed
    <3> QED BY <3>1, <3>2, <3>3, <3>4 DEF MoreThreads
  <2>3. CASE ~(JobQueue(c) \/ BatQueue(c))
    <3>1. queue' = queue
      BY <1>2, <2>3 DEF Client, AddBegins, BatBegins, BatLocks, BatClear, Stop, Destroy, WaitWorkers,
         WaitWorkersWoken, JobDeliver, DeliverSignal, BatGive, BatEnd
    <3> QED BY <1>0, <2>1, <3>1 DEF QueueServed
  <2> QED BY <2>2, <2>3
<1>3. CASE UNCHANGED poolVars
  BY <1>3 DEF poolVars, QueueServed, Threads
<1> QED BY <1>1, <1>2, <1>3 DEF Next

(* A job that was added is waiting, runs, or has ended.                    *)
LEMMA NextAllJobs ==
  ASSUME TypeOK, CallsFit, RunningRun, OnePlace, AllJobs, [Next]_poolVars
  PROVE  AllJobs'
<1> USE DEF CallerAt, AllJobs
<1>1. ASSUME UNCHANGED <<queue, own, running, ran, added>> PROVE AllJobs'
  BY <1>1 DEF Waiting, Running
<1>2. ASSUME NEW w \in Workers, Worker(w) \/ Expire(w) \/ WakeSpuriously(w) PROVE AllJobs'
  <2>1. CASE RunOwn(w)
    <3>1. ran' = ran /\ added' = added
      BY <2>1 DEF RunOwn, clientVars
    <3> QED BY <2>1, <3>1, OwnMoves
  <2>2. CASE RunQueued(w)
    <3>1. ran' = ran /\ added' = added
      BY <2>2 DEF RunQueued, clientVars
    <3> QED BY <2>2, <3>1, QueuedMoves
  <2>3. CASE JobEnds(w)
    <3>1. added' = added
      BY <2>3 DEF JobEnds, clientVars
    <3> QED BY <2>3, <3>1, EndMoves
  <2>4. CASE \/ WorkerStarts(w) \/ WorkerInitFails(w) \/ BeginWait(w) \/ WaitAgain(w)
             \/ WorkerEnds(w) \/ Expire(w) \/ WakeSpuriously(w)
    <3>1. UNCHANGED <<queue, own, running, ran, added>>
      BY <2>4 DEF WorkerStarts, WorkerInitFails, BeginWait, WaitAgain, WorkerEnds, Expire,
         WakeSpuriously, clientVars
    <3> QED BY <3>1, <1>1
  <2> QED BY <1>2, <2>1, <2>2, <2>3, <2>4 DEF Worker
<1>3. ASSUME NEW c \in Clients, JobDeliver(c) \/ BatGive(c) \/ JobQueue(c) \/ BatQueue(c) PROVE AllJobs'
  <2>1. added + 1 \in Jobs /\ added \in Nat /\ added' = added + 1 /\ ran' = ran
    BY <1>3, CallFits DEF JobDeliver, BatGive, JobQueue, BatQueue, InBatch, Calls, TypeOK
  <2>2. Waiting' = Waiting \cup {added + 1} /\ Running' = Running
    <3>1. CASE JobQueue(c) \/ BatQueue(c)
      BY <2>1, <3>1, EnqueueSubmits DEF JobQueue, BatQueue
    <3>2. CASE JobDeliver(c)
      <4>1. thr_first \in Workers /\ own[thr_first] = Nil
        BY <3>2 DEF JobDeliver, Idler, TypeOK
      <4> QED BY <2>1, <3>2, <4>1, GiveSubmits DEF JobDeliver
    <3>3. CASE BatGive(c)
      <4>1. PICK w \in Workers : own[w] = Nil /\ own' = [own EXCEPT ![w] = added + 1]
        BY <3>3 DEF BatGive, Given
      <4> QED BY <2>1, <3>3, <4>1, GiveSubmits DEF BatGive
    <3> QED BY <1>3, <3>1, <3>2, <3>3
  <2>3. \A j \in 1 .. added + 1 : j \in 1 .. added \/ j = added + 1
    BY <2>1
  <2> QED BY <2>1, <2>2, <2>3
<1>4. ASSUME \/ UNCHANGED poolVars
             \/ \E c \in Clients :
                  \/ DeliverSignal(c) \/ AddBegins(c) \/ BatBegins(c) \/ BatLocks(c)
                  \/ BatEnd(c) \/ BatClear(c) \/ Stop(c) \/ Destroy(c)
                  \/ WaitWorkers(c) \/ WaitWorkersWoken(c)
      PROVE  AllJobs'
  <2>1. UNCHANGED <<queue, own, running, ran, added>>
    BY <1>4 DEF poolVars, DeliverSignal, AddBegins, BatBegins, BatLocks, BatEnd, BatClear,
       Stop, Destroy, WaitWorkers, WaitWorkersWoken, workerVars
  <2> QED BY <2>1, <1>1
<1> QED BY <1>2, <1>3, <1>4 DEF Next, Client

-----------------------------------------------------------------------------
JInv == LInv /\ AllJobs /\ (Separate => Calm)

(* All of this holds at the start                                          *)
LEMMA InitJInv == Init => JInv
<1> SUFFICES ASSUME Init PROVE JInv
  OBVIOUS
<1> USE DEF Init
<1>1. LInv
  BY InitLInv
<1>2. AllJobs
  BY DEF AllJobs
<1>3. Expiring /\ StopAlone /\ Drained /\ IterNil
  BY DEF Expiring, StopAlone, Stopping, Drained, IterNil
<1>4. Pointed
  BY DEF Pointed, Leads, List
<1>5. OwnCared /\ QueueCared /\ QueueServed
  BY DEF OwnCared, QueueCared, QueueServed
<1> QED BY <1>1, <1>2, <1>3, <1>4, <1>5 DEF JInv, Calm

(* and is kept by every step.                                              *)
LEMMA NextJInv == ASSUME JInv, [Next]_poolVars PROVE JInv'
<1>1. LInv' /\ AllJobs'
  BY NextLInv, NextAllJobs DEF JInv, LInv, PInv
<1>2. ASSUME Separate PROVE Calm'
  <2>1. /\ TypeOK /\ CountExact /\ OneStops /\ LockInBatch /\ BatchMay /\ ListInv
        /\ Expiring /\ StopAlone /\ Drained /\ IterNil /\ Pointed
        /\ OwnCared /\ QueueCared /\ QueueServed
    BY <1>2 DEF JInv, Calm, LInv, PInv
  <2>2. Expiring' /\ StopAlone' /\ Drained' /\ IterNil' /\ Pointed' /\ QueueServed'
    BY <1>2, <2>1, NextExpiring, NextStopAlone, NextDrained, NextIterNil, NextPointed, NextQueueServed
  <2>3. OwnCared' /\ QueueCared'
    <3>1. CASE UNCHANGED poolVars
      <4>1. UNCHANGED <<own, pc, lock, cpc, target, thr_first, nxt, prv, queue>>
        BY <3>1 DEF poolVars
      <4>2. \A w : OnList(w)' <=> OnList(w)
        BY <4>1 DEF OnList, List
      <4>3. Awake' = Awake /\ Signalling' = Signalling
        BY <4>1 DEF Awake, Signalling
      <4> QED BY <2>1, <4>1, <4>2, <4>3 DEF OwnCared, Cared, QueueCared
    <3> QED BY <2>1, <3>1, WorkerCared, ClientCared, WorkerQueueCared, ClientQueueCared DEF Next
  <2> QED BY <2>2, <2>3 DEF Calm
<1>3. may' = may
  BY MayStays DEF JInv, LInv, PInv
<1> QED BY <1>1, <1>2, <1>3 DEF JInv, Separate

(* In every reachable state no job is lost and, in a pool with timeouts or *)
(* with batches, every job that waits has a thread that will look for it.  *)
THEOREM PoolJobsSafe == Spec => []JInv
<1>1. JInv /\ [Next]_poolVars => JInv'
  BY NextJInv
<1> QED BY InitJInv, <1>1, PTL DEF Spec

(* While worker_mutex is free no job is left to a worker that sleeps: not  *)
(* a job in the queue (job_append, bat_add_end), and not one given to a    *)
(* worker whose signal has still to come (job_deliver).  For pools with    *)
(* idle timeouts or batches, not both.                                     *)
THEOREM NoStrandedJobSafe == Spec => [](Separate => NoStrandedJob)
<1>1. JInv => (Separate => NoStrandedJob)
  BY DEF JInv, Calm, OwnCared, QueueCared, Cared, NoStrandedJob
<1> QED BY PoolJobsSafe, <1>1, PTL

(* With no thread left there is nowhere a job could be but among those     *)
(* that ended.                                                             *)
LEMMA QuietAtTheEnd ==
  ASSUME JInv, Separate
  PROVE  DestroyedIsQuiet
<1> SUFFICES ASSUME freed = "yes"
             PROVE  /\ \A w \in Workers : pc[w] = "none"
                    /\ may \cap {"nothread", "noinit"} = {} => ran = 1 .. added
  BY DEF DestroyedIsQuiet
<1>1. /\ TypeOK /\ OneStops /\ RunningRun /\ OnePlace /\ AllJobs /\ OwnCared /\ QueueServed
  BY DEF JInv, LInv, PInv, Calm
<1>2. Threads = {}
  BY <1>1 DEF OneStops
<1>3. \A w \in Workers : pc[w] = "none"
  BY <1>2 DEF Threads
<1>4. \A w \in Workers : own[w] = Nil /\ running[w] = Nil
  BY <1>1, <1>3 DEF RunningRun, OwnCared, Cared, Awake
<1>5. Running = {}
  BY <1>4 DEF Running
<1>6. ASSUME may \cap {"nothread", "noinit"} = {} PROVE ran = 1 .. added
  <2>1. queue = <<>>
    BY <1>1, <1>2, <1>6 DEF QueueServed
  <2>2. Waiting = {}
    BY <1>4, <2>1 DEF Waiting
  <2> QED BY <1>1, <1>5, <2>2 DEF AllJobs, OnePlace
<1> QED BY <1>3, <1>6

(* When acl_pthread_pool_destroy has returned no thread is left and, where *)
(* threads can be had, every job that was added has run.  For pools with   *)
(* idle timeouts or batches, not both.                                     *)
THEOREM DestroyedIsQuietSafe == Spec => [](Separate => DestroyedIsQuiet)
<1>1. JInv => (Separate => DestroyedIsQuiet)
  BY QuietAtTheEnd
<1> QED BY PoolJobsSafe, <1>1, PTL
=============================================================================
