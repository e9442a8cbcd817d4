----------------------------- MODULE MasterServ -----------------------------
(***************************************************************************)
(* One service of the process manager of lib_acl (master/framework): the   *)
(* master forks children that accept connections on a listen socket they   *)
(* share with it, and watches that socket itself only when it believes     *)
(* that no child does.  What it believes comes from status messages the    *)
(* children write to a pipe, and from the deaths it reaps.                 *)
(*                                                                         *)
(* The master is one thread with an event loop: a handler is one action.   *)
(* m is what the handlers of the master work on, and they are functions of *)
(* it.  The children follow acl_single_server.c, one connection at a time. *)
(***************************************************************************)
EXTENDS Integers, Sequences, FiniteSets

CONSTANTS
  Pids,          \* process ids
  None,          \* no process, no entry
  Services,      \* configurations: [prefork, max, removed]
  MaxConns,      \* bound of the model: connections that ever arrive
  MaxDeaths,     \* bound of the model: children that die unasked
  MaxForkFails,  \* bound of the model: forks that fail
  MaxRestarts    \* bound of the model: reloads of the configuration

AVAIL == "avail"
TAKEN == "taken"

(* An entry of the table, and a process.                                   *)
Entries == [gen : Nat, avail : {AVAIL, TAKEN}, used : BOOLEAN]
Procs   == [gen : Nat, old : BOOLEAN,
            doing : {"idle", "accepted", "serving", "exited", "crashed"}]

ASSUME MasterAssumption ==
  /\ IsFiniteSet(Pids) /\ None \notin Pids /\ None \notin Entries /\ None \notin Procs
  /\ Services \subseteq [prefork : Nat, max : Nat, removed : BOOLEAN]
  /\ \A s \in Services : s.max > 0 => s.prefork <= s.max
  /\ {MaxConns, MaxDeaths, MaxForkFails, MaxRestarts} \subseteq Nat

VARIABLES
  conf,     \* prefork_proc and max_proc; removed: the service may be removed
  m,        \* the master's side of the service, see MasterInit
  os,       \* the processes: what each child is doing, or None
  pipe,     \* the status messages the master has not read
  conns,    \* connections nobody has accepted
  arrived, deaths, restarts, \* what MaxConns, MaxDeaths, MaxRestarts bound
  stopped   \* acl_master_stop_service has returned

masterVars == <<conf, m, os, pipe, conns, arrived, deaths, restarts, stopped>>

(* started: acl_master_start_service was called; throttled, reloading: the *)
(* flags; listening: the read event of the listen socket; avail, total:    *)
(* avail_proc, total_proc; table: acl_var_master_child_table; gen:         *)
(* _master_generation; panicked: acl_msg_panic was called; luck: how many  *)
(* more forks succeed in the handler; failed: how many have failed.        *)
MasterInit ==
  [started |-> FALSE, throttled |-> FALSE, reloading |-> FALSE, listening |-> FALSE,
   avail |-> 0, total |-> 0, table |-> [p \in Pids |-> None], gen |-> 0,
   panicked |-> FALSE, luck |-> 0, failed |-> 0]

Alive(p)   == os[p] # None /\ os[p].doing \notin {"exited", "crashed"}
Children(n) == {p \in Pids : n.table[p] # None}
LIMIT_OK(count) == conf.max = 0 \/ count < conf.max

-----------------------------------------------------------------------------
(* A pid the system may give out: not of a process, dead or alive, nor of  *)
(* an entry the master is about to delete.                                 *)
FreePids(n) == {p \in Pids : os[p] = None /\ n.table[p] = None}

FreePid(n) == CHOOSE p \in FreePids(n) : TRUE

(* acl_master_avail_more, for an entry that is not available.              *)
acl_master_avail_more(n, p) ==
  [n EXCEPT !.avail = @ + 1, !.table[p].avail = AVAIL, !.listening = FALSE]

master_throttle(n) == [n EXCEPT !.throttled = TRUE]

(* The parent's side of a fork that succeeds.                              *)
Forked(n) ==
  LET p == FreePid(n)
  IN  acl_master_avail_more(
        [n EXCEPT !.total = @ + 1,
                  !.table[p] = [gen |-> n.gen, avail |-> TAKEN, used |-> FALSE]], p)

(* fork fails out of luck, or when there is no pid left.                   *)
acl_master_spawn(n) ==
  LET tried == [n EXCEPT !.reloading = FALSE, !.gen = @ + 1, !.luck = @ - 1]
  IN  CASE n.throttled -> [n EXCEPT !.reloading = FALSE, !.panicked = TRUE]
        [] ~n.throttled /\ n.luck > 0 /\ FreePids(n) # {} -> Forked(tried)
        [] OTHER -> master_throttle([tried EXCEPT !.luck = 0, !.failed = @ + 1])

Least(i, j) == IF i < j THEN i ELSE j

(* How many children master_prefork starts.                                *)
PreforkCount(n) ==
  CASE n.reloading /\ conf.prefork > 0 -> conf.prefork
    [] ~n.reloading /\ n.total < conf.prefork ->
         IF conf.max > n.total THEN Least(conf.prefork - n.total, conf.max - n.total)
                               ELSE conf.prefork - n.total
    [] OTHER -> 0

(* A panic ends the master, and the loop.                                  *)
master_prefork(n) ==
  LET after[i \in 0 .. PreforkCount(n)] ==
        IF i = 0 THEN n
        ELSE IF after[i - 1].panicked THEN after[i - 1] ELSE acl_master_spawn(after[i - 1])
  IN  after[PreforkCount(n)]

acl_master_avail_listen(n) ==
  CASE n.throttled -> n
    [] ~n.throttled /\ PreforkCount(n) > 0 -> master_prefork(n)
    [] ~n.throttled /\ PreforkCount(n) = 0 /\ ~n.reloading
       /\ (n.avail > 0 \/ ~LIMIT_OK(n.total)) -> n
    [] OTHER -> [n EXCEPT !.listening = TRUE]

(* For an entry that is available.                                         *)
acl_master_avail_less(n, p) ==
  acl_master_avail_listen([n EXCEPT !.avail = @ - 1, !.table[p].avail = TAKEN])

(* Faulty variants: avail_proc is not told of the death of a child; the    *)
(* master does not listen again when a busy child made room for another.   *)
DeleteUntold(n, p) ==
  [acl_master_avail_listen([n EXCEPT !.total = @ - 1]) EXCEPT !.table[p] = None]

DeleteDeaf(n, p) ==
  LET fewer == [n EXCEPT !.total = @ - 1]
      told  == IF n.table[p].avail = AVAIL THEN acl_master_avail_less(fewer, p) ELSE fewer
  IN  [told EXCEPT !.table[p] = None]

master_delete_child(n, p) ==
  LET fewer == [n EXCEPT !.total = @ - 1]
      told  == IF n.table[p].avail = AVAIL THEN acl_master_avail_less(fewer, p)
               ELSE IF LIMIT_OK(fewer.total) /\ n.avail < 1 THEN acl_master_avail_listen(fewer)
               ELSE fewer
  IN  [told EXCEPT !.table[p] = None]

(* The body of the loop of acl_master_reap_child, for one death.           *)
Reaped(n, p) ==
  IF n.table[p] = None \/ n.panicked THEN n
  ELSE IF os[p].doing = "crashed" /\ ~n.table[p].used
    THEN master_delete_child(master_throttle(n), p)
    ELSE master_delete_child(n, p)

ReapedAll(n, order) ==
  LET after[i \in 0 .. Len(order)] == IF i = 0 THEN n ELSE Reaped(after[i - 1], order[i])
  IN  after[Len(order)]

(* Faulty variant: the throttle is released and nothing is listened to.    *)
UnthrottleDeaf(n) == [n EXCEPT !.throttled = FALSE]

master_unthrottle(n) ==
  IF n.throttled THEN acl_master_avail_listen([n EXCEPT !.throttled = FALSE]) ELSE n

-----------------------------------------------------------------------------
Init ==
  /\ conf \in Services
  /\ m = MasterInit
  /\ os = [p \in Pids |-> None]
  /\ pipe = <<>>
  /\ conns = 0 /\ arrived = 0 /\ deaths = 0 /\ restarts = 0
  /\ stopped = FALSE

MasterUp == m.started /\ ~m.panicked /\ ~stopped

(* A handler of the master: forks succeed until, perhaps, one fails.       *)
Lucks == IF m.failed < MaxForkFails THEN 0 .. Cardinality(Pids) ELSE {Cardinality(Pids)}

Handles(H(_)) ==
  \E k \in Lucks : m' = [H([m EXCEPT !.luck = k]) EXCEPT !.luck = 0]

(* The processes after a handler: those it forked, and without those gone. *)
Born(p) == m'.table[p] # None /\ m'.table[p].gen > m.gen

Processes(gone) ==
  os' = [p \in Pids |->
           IF Born(p) THEN [gen |-> m'.table[p].gen, doing |-> "idle", old |-> FALSE]
           ELSE IF p \in gone THEN None ELSE os[p]]

childVars == <<conns, arrived, deaths>>

acl_master_start_service ==
  /\ ~m.started
  /\ Handles(LAMBDA n : acl_master_avail_listen([n EXCEPT !.started = TRUE]))
  /\ Processes({})
  /\ UNCHANGED <<conf, pipe, childVars, restarts, stopped>>

AvailEvent(n) ==
  CASE n.throttled -> [n EXCEPT !.listening = FALSE]
    [] ~n.throttled /\ (conf.prefork = 0 \/ conf.max = 0) -> acl_master_spawn(n)
    [] ~n.throttled /\ conf.prefork > 0 /\ conf.max > 0 ->
         IF PreforkCount(n) > 0 THEN master_prefork(n)
         ELSE IF n.total < conf.max THEN acl_master_spawn(n) ELSE n

(* The listen socket is readable; the master accepts nothing.              *)
master_avail_event ==
  /\ MasterUp
  /\ m.listening /\ conns > 0
  /\ Handles(AvailEvent)
  /\ Processes({})
  /\ UNCHANGED <<conf, pipe, childVars, restarts, stopped>>

(* Faulty variant: the generation is not compared.                         *)
StatusOfAnyone(n, msg) ==
  LET proc == n.table[msg.pid]
  IN  IF proc = None THEN n
      ELSE IF proc.avail = msg.avail THEN n
      ELSE IF msg.avail = AVAIL
        THEN acl_master_avail_more([n EXCEPT !.table[msg.pid].used = TRUE], msg.pid)
        ELSE acl_master_avail_less(n, msg.pid)

StatusEvent(n, msg) ==
  LET proc == n.table[msg.pid]
  IN  IF proc = None THEN n
      ELSE IF proc.gen # msg.gen \/ proc.avail = msg.avail THEN n
      ELSE IF msg.avail = AVAIL
        THEN acl_master_avail_more([n EXCEPT !.table[msg.pid].used = TRUE], msg.pid)
        ELSE acl_master_avail_less(n, msg.pid)

master_status_event ==
  /\ MasterUp
  /\ pipe # <<>>
  /\ Handles(LAMBDA n : StatusEvent(n, Head(pipe)))
  /\ pipe' = Tail(pipe)
  /\ Processes({})
  /\ UNCHANGED <<conf, childVars, restarts, stopped>>

Dead == {p \in Pids : os[p] # None /\ ~Alive(p)}

Orders(S) == {s \in [1 .. Cardinality(S) -> S] : \A i, j \in DOMAIN s : s[i] = s[j] => i = j}

acl_master_reap_child ==
  /\ MasterUp
  /\ Dead # {}
  /\ \E order \in Orders(Dead) : Handles(LAMBDA n : ReapedAll(n, order))
  /\ Processes(Dead)
  /\ UNCHANGED <<conf, pipe, childVars, restarts, stopped>>

(* The timer that master_throttle requested.                               *)
master_unthrottle_wrapper ==
  /\ MasterUp
  /\ m.throttled
  /\ Handles(master_unthrottle)
  /\ Processes({})
  /\ UNCHANGED <<conf, pipe, childVars, restarts, stopped>>

(* The children of before lose the pipe, and what they wrote to it.        *)
Orphaned == [p \in Pids |-> IF os[p] = None THEN None ELSE [os[p] EXCEPT !.old = TRUE]]

acl_master_restart_service ==
  /\ MasterUp
  /\ restarts < MaxRestarts
  /\ restarts' = restarts + 1
  /\ pipe' = <<>>
  /\ Handles(LAMBDA n : acl_master_avail_listen([n EXCEPT !.reloading = TRUE]))
  /\ os' = [p \in Pids |-> IF Born(p) THEN [gen |-> m'.table[p].gen, doing |-> "idle", old |-> FALSE]
                           ELSE Orphaned[p]]
  /\ UNCHANGED <<conf, childVars, stopped>>

(* acl_master_delete_children: throttled, so that a death starts nothing,  *)
(* the master kills its children, reaps until none is left, and releases   *)
(* the throttle; then the listen socket is closed.                         *)
DeleteChildren(n, order) ==
  [master_unthrottle(ReapedAll(master_throttle(n), order)) EXCEPT !.listening = FALSE]

acl_master_stop_service ==
  /\ MasterUp
  /\ conf.removed
  /\ \E order \in Orders(Children(m)) : Handles(LAMBDA n : DeleteChildren(n, order))
  /\ Processes(Children(m))
  /\ pipe' = <<>>
  /\ stopped' = TRUE
  /\ UNCHANGED <<conf, childVars, restarts>>

Master ==
  \/ acl_master_start_service \/ master_avail_event \/ master_status_event
  \/ acl_master_reap_child \/ master_unthrottle_wrapper

-----------------------------------------------------------------------------
(* The children.  A notice is written to the pipe of the child; one whose  *)
(* pipe the master closed ends instead.                                    *)
Doing(p, here, there) ==
  os[p] # None /\ os[p].doing = here /\ os' = [os EXCEPT ![p].doing = there]

acl_master_notify(p, here, there, status) ==
  /\ Doing(p, here, IF os[p] # None /\ os[p].old THEN "exited" ELSE there)
  /\ pipe' = IF os[p].old THEN pipe
             ELSE Append(pipe, [pid |-> p, gen |-> os[p].gen, avail |-> status])
  /\ UNCHANGED <<conf, m, childVars, restarts, stopped>>

Accept(p) ==
  /\ Doing(p, "idle", "accepted")
  /\ conns > 0 /\ conns' = conns - 1
  /\ UNCHANGED <<conf, m, pipe, arrived, deaths, restarts, stopped>>

NotifyTaken(p) == acl_master_notify(p, "accepted", "serving", TAKEN)

NotifyAvail(p) == acl_master_notify(p, "serving", "idle", AVAIL)

(* single_server_abort: the pipe to the master is gone.                    *)
Abort(p) ==
  /\ Doing(p, "idle", "exited") /\ os[p].old
  /\ UNCHANGED <<conf, m, pipe, childVars, restarts, stopped>>

(* single_server_timeout, or the limit of uses.                            *)
Expire(p) ==
  /\ Doing(p, "idle", "exited")
  /\ deaths < MaxDeaths /\ deaths' = deaths + 1
  /\ UNCHANGED <<conf, m, pipe, conns, arrived, restarts, stopped>>

Crash(p) ==
  /\ \E here \in {"idle", "accepted", "serving"} : Doing(p, here, "crashed")
  /\ deaths < MaxDeaths /\ deaths' = deaths + 1
  /\ UNCHANGED <<conf, m, pipe, conns, arrived, restarts, stopped>>

Arrive ==
  /\ arrived < MaxConns
  /\ arrived' = arrived + 1 /\ conns' = conns + 1
  /\ UNCHANGED <<conf, m, os, pipe, deaths, restarts, stopped>>

Child(p) == Accept(p) \/ NotifyTaken(p) \/ NotifyAvail(p) \/ Abort(p)

Next ==
  \/ Master \/ acl_master_restart_service \/ acl_master_stop_service
  \/ \E p \in Pids : Child(p) \/ Expire(p) \/ Crash(p)
  \/ Arrive

Spec == Init /\ [][Next]_masterVars

(* The event loop of the master gets to every event, signal and timer; the *)
(* children run, and a service routine returns.                            *)
Fairness ==
  /\ WF_masterVars(acl_master_start_service)
  /\ WF_masterVars(master_avail_event)
  /\ WF_masterVars(master_status_event)
  /\ WF_masterVars(acl_master_reap_child)
  /\ WF_masterVars(master_unthrottle_wrapper)
  /\ \A p \in Pids : WF_masterVars(Child(p))

FairSpec == Spec /\ Fairness

-----------------------------------------------------------------------------
(* avail_proc and total_proc count the children in the table, and without  *)
(* a reload there are no more than max_proc.                               *)
CountsExact ==
  /\ m.total = Cardinality(Children(m))
  /\ m.avail = Cardinality({p \in Children(m) : m.table[p].avail = AVAIL})
  /\ restarts = 0 /\ conf.max > 0 => m.total <= conf.max

(* The master watches the listen socket when it takes no child for idle    *)
(* and may start one; but for a reload, it leaves the socket alone while   *)
(* it takes one for idle.                                                  *)
ListensExactly ==
  MasterUp =>
    /\ ~m.throttled /\ m.avail = 0 /\ LIMIT_OK(m.total) => m.listening
    /\ m.listening /\ restarts = 0 => m.avail = 0

(* Gossip converges: the last status the master has or will have of a      *)
(* child is the one the child is in.                                       *)
Told(p) ==
  LET of == {i \in DOMAIN pipe : pipe[i].pid = p /\ pipe[i].gen = os[p].gen}
  IN  IF of = {} THEN m.table[p].avail
      ELSE pipe[CHOOSE i \in of : \A j \in of : j <= i].avail

GossipConverges ==
  \A p \in Pids :
    ~stopped /\ os[p] # None /\ Alive(p) /\ ~os[p].old =>
      /\ m.table[p] # None /\ m.table[p].gen = os[p].gen
      /\ Told(p) = IF os[p].doing = "serving" THEN TAKEN ELSE AVAIL

(* A service that was stopped has no child left.                           *)
StoppedIsEmpty == stopped => Children(m) = {}

NeverPanics == ~m.panicked

(* A connection is accepted in the end, by a child that may have to be     *)
(* started for it, and no throttle is for ever.                            *)
ConnsAccepted == (conns > 0) ~> (conns = 0 \/ stopped)
=============================================================================
