------------------------------ MODULE FiberIO --------------------------------
(***************************************************************************)
(* Waiting for descriptors and for time in fibers (fiber_io.c, event.c and *)
(* event_epoll.c of lib_fiber) on top of FiberSched: the event table with  *)
(* its deferred deletions, the ring of sleeping fibers, timer fibers, and  *)
(* the loop of the fiber that polls.                                       *)
(*                                                                         *)
(* The callbacks run inside event_process, on the stack of the polling     *)
(* fiber, and only make fibers ready, so one pass of its loop is one       *)
(* action.  A deadline is kept as the time that is left to it, 0 once it   *)
(* has passed: the code compares deadlines with each other and with the    *)
(* clock only.  The loop keeps the clock in an int, which holds it modulo  *)
(* 2^32; the differences it takes come out right, and its last test        *)
(* (fiber_io.c:184) is false for every clock since February 1970, so that  *)
(* one pass ends the sleep of at most one fiber.                           *)
(*                                                                         *)
(* Left out: io_count, nsleeping, maxfd and timeout, which end up in a log *)
(* line or in how long one poll takes; descriptors that epoll refuses.     *)
(***************************************************************************)
EXTENDS FiberSched

CONSTANTS
  Io,       \* the fiber fiber_io_check creates to run fiber_io_loop
  Timer,    \* the ring of sleeping fibers, FIBER_TLS.ev_timer
  Fds,      \* sockets
  MaxDelay, \* bound of the model: the longest sleep, and step of the clock
  NoFiber,
  Careful   \* programs neither wake, close nor reset under a fiber that waits

ASSUME IoAssumption ==
  /\ Io \in Fibers /\ Timer \in WaitRings
  /\ MaxDelay \in Nat \ {0}
  /\ NoFiber \notin Fibers
  /\ IsFiniteSet(Fds)
  /\ Careful \in BOOLEAN

Dirs == {"r", "w"}   \* EVENT_READABLE, EVENT_WRITABLE

NoWait == << >>
Sleep  == <<Timer>>

VARIABLES
  ev,      \* the EVENT: mask, ctx and deferred deletions of each descriptor,
           \* and what epoll has been told to watch
  inside,  \* what a fiber waits for: NoWait, Sleep or <<fd, direction>>
  left,    \* ACL_FIBER.when, as the time left to it
  timers,  \* the fibers that run fiber_timer_callback
  io_stop, \* FIBER_TLS.io_stop
  polling  \* fiber_io_loop has not returned

ioVars  == <<ev, inside, left, timers, io_stop, polling>>
allVars == <<schedVars, ioVars>>

-----------------------------------------------------------------------------
(* The event table.  ev.defers[d] is the array r_defers or w_defers up to  *)
(* its count, ev.place[d][fd] the entry r_defer or w_defer of fd points    *)
(* to, 0 for NULL.                                                         *)

NoEvents ==
  [mask   |-> [fd \in Fds |-> {}],
   kernel |-> [fd \in Fds |-> {}],
   ctx    |-> [fd \in Fds |-> [d \in Dirs |-> NoFiber]],
   defers |-> [d \in Dirs |-> << >>],
   place  |-> [d \in Dirs |-> [fd \in Fds |-> 0]]]

(* Faulty variant of Undefer: nobody tells the moved entry its new place.   *)
UndeferUntold(e, d, fd) ==
  LET q == e.defers[d]
  IN  [e EXCEPT !.defers[d] = [i \in 1 .. Len(q) - 1 |->
                                 IF i = e.place[d][fd] THEN q[Len(q)] ELSE q[i]],
                !.place[d][fd] = 0]

(* Take fd out of the deferred deletions: the last entry takes its place.  *)
Undefer(e, d, fd) ==
  LET q   == e.defers[d]
      pos == e.place[d][fd]
  IN  [e EXCEPT !.defers[d] = [i \in 1 .. Len(q) - 1 |->
                                 IF i = pos THEN q[Len(q)] ELSE q[i]],
                !.place[d] = [@ EXCEPT ![q[Len(q)]] = pos, ![fd] = 0]]

(* Faulty variant of event_add: a pending deletion is not called off.       *)
AddOverPending(e, fd, d, f) ==
  [e EXCEPT !.mask[fd]   = @ \cup {d},
            !.kernel[fd] = IF d \in e.mask[fd] THEN @ ELSE e.mask[fd] \cup {d},
            !.ctx[fd][d] = f]

(* A pending deletion of the same kind is called off, and the descriptor   *)
(* is then still watched; otherwise epoll is told.                         *)
event_add(e, fd, d, f) ==
  LET pending == e.place[d][fd] # 0
      m == IF pending THEN Undefer(e, d, fd) ELSE e
  IN  [m EXCEPT !.mask[fd]   = @ \cup {d},
                !.kernel[fd] = IF pending \/ d \in e.mask[fd] THEN @
                               ELSE e.mask[fd] \cup {d},
                !.ctx[fd][d] = f]

(* event_del with EVENT_ERROR: all of it, at once.                         *)
event_error_del(e, fd) ==
  LET r == IF e.place["r"][fd] # 0 THEN Undefer(e, "r", fd) ELSE e
      w == IF r.place["w"][fd] # 0 THEN Undefer(r, "w", fd) ELSE r
  IN  [w EXCEPT !.mask[fd] = {}, !.kernel[fd] = {},
                !.ctx[fd] = [d \in Dirs |-> NoFiber]]

(* What is left of the table when the masks have shrunk to kept.  Contexts *)
(* are not read again before event_add replaces them.                      *)
Shrink(e, kept) ==
  [NoEvents EXCEPT
     !.mask = kept, !.kernel = kept,
     !.ctx = [fd \in Fds |-> [d \in Dirs |-> IF d \in kept[fd] THEN e.ctx[fd][d]
                                            ELSE NoFiber]]]

(* Faulty variant of RemoveDeferred: a descriptor with a deferred deletion  *)
(* is forgotten altogether.                                                *)
RemoveWhole(e) ==
  Shrink(e, [fd \in Fds |-> IF \E d \in Dirs : e.place[d][fd] # 0 THEN {} ELSE e.mask[fd]])

(* The first part of event_process: __event_del for both arrays.           *)
RemoveDeferred(e) ==
  Shrink(e, [fd \in Fds |-> {d \in e.mask[fd] : e.place[d][fd] = 0}])

-----------------------------------------------------------------------------
IoInit ==
  /\ ring = acl_ring_prepend(acl_ring_init(Nodes), Ready, Io)
  /\ running = Original
  /\ status = [f \in Fibers |-> IF f = Io THEN "ready" ELSE "free"]
  /\ killed = [f \in Fibers |-> FALSE]
  /\ signum = [f \in Fibers |-> NoSignal]
  /\ fibers = <<Io>>
  /\ slot = [f \in Fibers |-> IF f = Io THEN 1 ELSE 0]
  /\ scheduled = FALSE
  /\ ev = NoEvents
  /\ inside = [f \in Fibers |-> NoWait]
  /\ left = [f \in Fibers |-> 0]
  /\ timers = {}
  /\ io_stop = FALSE /\ polling = TRUE

(* A fiber of the application runs its own code.                           *)
Runs(f) == running = f /\ f # Io /\ inside[f] = NoWait

Watching(f) == inside[f] \in Fds \X Dirs

(* fiber_wait_read and fiber_wait_write.                                   *)
fiber_wait(f, fd, d) ==
  /\ Runs(f) /\ f \notin timers
  /\ Careful => \A g \in Fibers : inside[g] # <<fd, d>>
  /\ ev' = event_add(ev, fd, d, f)
  /\ inside' = [inside EXCEPT ![f] = <<fd, d>>]
  /\ acl_fiber_switch(ring)
  /\ UNCHANGED <<status, killed, signum, fibers, slot, scheduled>>
  /\ UNCHANGED <<left, timers, io_stop, polling>>

(* Where acl_fiber_delay links a sleep of n: behind the last fiber that is *)
(* to wake no later.                                                       *)
SleepAfter(n) ==
  LET sleepers == Walk(ring, Timer)
      earlier  == {i \in DOMAIN sleepers : left[sleepers[i]] <= n}
  IN  IF earlier = {} THEN Timer
      ELSE sleepers[CHOOSE i \in earlier : \A j \in earlier : j <= i]

acl_fiber_delay(f, n) ==
  /\ Runs(f)
  /\ acl_fiber_switch(acl_ring_append(ring, SleepAfter(n), f))
  /\ left' = [left EXCEPT ![f] = n]
  /\ inside' = [inside EXCEPT ![f] = Sleep]
  /\ UNCHANGED <<status, killed, signum, fibers, slot, scheduled>>
  /\ UNCHANGED <<ev, timers, io_stop, polling>>

(* The wait is over: the fiber runs again.  Only a timer fiber looks at    *)
(* its deadline after that.                                                *)
IoWaitReturn(f) ==
  /\ running = f /\ inside[f] # NoWait
  /\ inside' = [inside EXCEPT ![f] = NoWait]
  /\ left' = IF f \in timers THEN left ELSE [left EXCEPT ![f] = 0]
  /\ UNCHANGED <<schedVars, ev, timers, io_stop, polling>>

(* fiber_io_close.                                                         *)
fiber_io_close(f, fd) ==
  /\ Runs(f) /\ f \notin timers
  /\ Careful => \A g \in Fibers, d \in Dirs : inside[g] # <<fd, d>>
  /\ ev' = event_error_del(ev, fd)
  /\ ev' # ev
  /\ UNCHANGED <<schedVars, inside, left, timers, io_stop, polling>>

(* Timer fibers: created, and their deadline set anew.                     *)
acl_fiber_create_timer(f, n) ==
  /\ polling /\ Create(f)
  /\ timers' = timers \cup {f}
  /\ left' = [left EXCEPT ![f] = n]
  /\ UNCHANGED <<ev, inside, io_stop, polling>>

acl_fiber_reset_timer(f, n) ==
  /\ CanCall /\ running # Io
  /\ f \in timers /\ Alive(f)
  /\ Careful => inside[f] # Sleep
  /\ left' = [left EXCEPT ![f] = n]
  /\ UNCHANGED <<schedVars, ev, inside, timers, io_stop, polling>>

(* fiber_timer_callback: it sleeps until its deadline, calls its function  *)
(* and ends.                                                               *)
fiber_timer_callback(f) ==
  /\ f \in timers
  /\ \/ left[f] > 0 /\ acl_fiber_delay(f, left[f])
     \/ /\ left[f] = 0 /\ Runs(f)
        /\ fiber_exit(f)
        /\ timers' = timers \ {f}
        /\ UNCHANGED <<ev, inside, left, io_stop, polling>>

(* acl_fiber_kill, or another signal.                                      *)
Signal(f, g, sig) ==
  /\ Runs(f) /\ f \notin timers /\ g # Io
  /\ Careful => ~Watching(g)
  /\ acl_fiber_signal(f, g, sig)
  /\ UNCHANGED ioVars

acl_fiber_schedule_stop ==
  /\ CanCall /\ running # Io /\ ~io_stop
  /\ io_stop' = TRUE
  /\ UNCHANGED <<schedVars, ev, inside, left, timers, polling>>

IoOtherStep ==
  /\ \/ acl_fiber_schedule
     \/ \E f \in Fibers :
          \/ polling /\ Create(f)
          \/ Runs(f) /\ f \notin timers /\ (acl_fiber_yield(f) \/ fiber_exit(f))
  /\ UNCHANGED ioVars

-----------------------------------------------------------------------------
(* The polling fiber.                                                      *)

(* It may poll: nobody else can run.                                       *)
Idle == running = Io /\ polling /\ NoEntry(ring, Ready)

(* Any other fiber that can run goes first.                                *)
IoYield == running = Io /\ polling /\ acl_fiber_yield(Io) /\ UNCHANGED ioVars

(* The orders in which event_process may meet what has fired: by           *)
(* descriptor, and reading before writing.                                 *)
Orders(fired) ==
  {s \in [1 .. Cardinality(fired) -> fired] :
     /\ IsInjective(s)
     /\ \A i, j \in DOMAIN s : s[i][1] = s[j][1] /\ s[i][2] = "r" /\ s[j][2] = "w"
                                 => j = i + 1}

(* event_del without EVENT_ERROR.                                          *)
Defer(e, fd, d) ==
  [e EXCEPT !.defers[d]    = Append(@, fd),
            !.place[d][fd] = Len(e.defers[d]) + 1]

(* read_callback and write_callback of s, in that order: each defers the   *)
(* deletion of its event, and makes its fiber ready.                       *)
DeferAll(e, s) ==
  LET after[i \in 0 .. Len(s)] ==
        IF i = 0 THEN e ELSE Defer(after[i - 1], s[i][1], s[i][2])
  IN  after[Len(s)]

ReadyAll(m, e, s) ==
  LET after[i \in 0 .. Len(s)] ==
        IF i = 0 THEN m ELSE acl_fiber_ready(after[i - 1], e.ctx[s[i][1]][s[i][2]])
  IN  after[Len(s)]

Watched == {p \in Fds \X Dirs :
              p[2] \in ev.kernel[p[1]] /\ ev.place[p[2]][p[1]] = 0}

(* Faulty variant of Due: the time that passed is not compared.             *)
DueAtOnce(elapsed) == ~NoEntry(ring, Timer)

(* The first sleeper's time has come, elapsed after the pass began.        *)
Due(elapsed) == ~NoEntry(ring, Timer) /\ elapsed >= left[First(ring, Timer)]

(* One pass with nobody ready: what is watched may fire, some time goes by *)
(* in epoll_wait, and at most one sleeper wakes.                           *)
IoPass(fired, elapsed) ==
  /\ Idle
  /\ fired \subseteq Watched
  /\ \E s \in Orders(fired) :
       /\ ev' = DeferAll(RemoveDeferred(ev), s)
       /\ \E m \in {ReadyAll(ring, ev, s)} :
            ring' = IF ~io_stop /\ Due(elapsed) THEN ReadyFirst(m, Timer) ELSE m
  /\ left' = [f \in Fibers |-> IF left[f] > elapsed THEN left[f] - elapsed ELSE 0]
  /\ polling' = ~io_stop
  /\ UNCHANGED <<running, status, killed, signum, fibers, slot, scheduled>>
  /\ UNCHANGED <<inside, timers, io_stop>>

(* The loop was left: fiber_start ends the fiber.                          *)
IoEnd == ~polling /\ fiber_exit(Io) /\ UNCHANGED ioVars

(* Time also passes while fibers run.                                      *)
Tick ==
  /\ \E f \in Fibers : left[f] > 0
  /\ left' = [f \in Fibers |-> IF left[f] > 0 THEN left[f] - 1 ELSE 0]
  /\ UNCHANGED <<schedVars, ev, inside, timers, io_stop, polling>>

IoLoop ==
  \/ IoYield
  \/ \E fired \in SUBSET Watched, elapsed \in 0 .. MaxDelay : IoPass(fired, elapsed)
  \/ IoEnd

IoNext ==
  \/ IoOtherStep
  \/ IoLoop
  \/ Tick
  \/ acl_fiber_schedule_stop
  \/ \E f \in Fibers :
       \/ IoWaitReturn(f)
       \/ fiber_timer_callback(f)
       \/ \E fd \in Fds :
            \/ fiber_io_close(f, fd)
            \/ \E d \in Dirs : fiber_wait(f, fd, d)
       \/ \E n \in 1 .. MaxDelay :
            \/ f \notin timers /\ acl_fiber_delay(f, n)
            \/ acl_fiber_create_timer(f, n)
            \/ acl_fiber_reset_timer(f, n)
       \/ \E g \in Fibers, sig \in Signals : Signal(f, g, sig)

IoSpec == IoInit /\ [][IoNext]_allVars

(* The thread keeps running, each fiber of it gives it up in the end, time *)
(* goes by while it polls, and whatever is watched again and again becomes *)
(* ready some time, if need be alone.                                      *)
IoFairSpec ==
  /\ IoSpec
  /\ WF_allVars(acl_fiber_schedule /\ UNCHANGED ioVars)
  /\ WF_allVars(IoYield)
  /\ \A f \in Fibers \ {Io} : []<>(running # f)
  /\ SF_allVars(IoPass({}, MaxDelay))
  /\ \A fd \in Fds, d \in Dirs : SF_allVars(IoPass({<<fd, d>>}, MaxDelay))

-----------------------------------------------------------------------------
(* The arrays of deferred deletions and the pointers into them agree, and  *)
(* what is deferred is still in the mask: a pointer left behind by the     *)
(* move of the last entry (event.c:138, 314) would delete another          *)
(* descriptor's events, or merge with them.                                *)
DefersExact ==
  \A d \in Dirs, fd \in Fds :
    /\ ev.place[d][fd] \in 0 .. Len(ev.defers[d])
    /\ \A i \in 1 .. Len(ev.defers[d]) : ev.defers[d][i] = fd <=> ev.place[d][fd] = i
    /\ ev.place[d][fd] # 0 => d \in ev.mask[fd]

(* epoll watches what the masks say, and a fiber suspended in a wait is    *)
(* the one the callback will wake; conversely everything registered and    *)
(* not about to be deleted has a fiber waiting for it, in no ring, so that *)
(* the callback may link it.                                               *)
WatchedExactly ==
  /\ ev.kernel = ev.mask
  /\ \A fd \in Fds, d \in Dirs, f \in Fibers :
       (d \in ev.mask[fd] /\ ev.place[d][fd] = 0 /\ ev.ctx[fd][d] = f)
         <=> (inside[f] = <<fd, d>> /\ Suspended(f))

(* The ring of sleepers is in the order of their deadlines, so that the    *)
(* loop may look at its head only (fiber_io.c:144).                        *)
SleepersSorted ==
  LET sleepers == Walk(ring, Timer)
  IN  /\ \A i \in DOMAIN sleepers : inside[sleepers[i]] = Sleep
      /\ \A i, j \in DOMAIN sleepers : i < j => left[sleepers[i]] <= left[sleepers[j]]

Sleeping(f) == ring.parent[f] = Timer

(* Nobody but a signal ends a sleep early, and nobody is woken before one  *)
(* whose time came earlier.                                                *)
SleptEnough ==
  [][\A f \in Fibers :
       Sleeping(f) /\ ~Sleeping(f)' =>
         \/ \E g \in Fibers, sig \in Signals : Signal(g, f, sig)
         \/ /\ left'[f] = 0
            /\ \A g \in Fibers : Sleeping(g) => left[f] <= left[g]]_allVars

(* Every sleep and every wait comes to an end, as long as nobody stops the *)
(* loop and the fibers let it poll: a program whose fibers are never all   *)
(* waiting starves every sleeper (fiber_io.c:142).                         *)
WaitersWoken ==
  []<>Idle => \A f \in Fibers : inside[f] # NoWait ~> inside[f] = NoWait
=============================================================================
