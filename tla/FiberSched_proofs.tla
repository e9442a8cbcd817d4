-------------------------- MODULE FiberSched_proofs --------------------------
(***************************************************************************)
(* Proofs about the scheduler, for any number of fibers, any waiting rings *)
(* and any size of the cache of dead fibers.                               *)
(***************************************************************************)
EXTENDS FiberSched, QueueOps, Iteration, FunctionTheorems, FiniteSetTheorems, TLAPS

-----------------------------------------------------------------------------
(* What the operations of acl_ring.c do to well formed rings.              *)

(* The node after a head that has entries is one of its entries.           *)
LEMMA FirstIsEntry ==
  ASSUME NEW E, NEW H, NEW m, RingType(m, E, H), WellLinked(m, E, H),
         NEW h \in H, ~NoEntry(m, h)
  PROVE  First(m, h) \in E /\ m.parent[First(m, h)] = h
BY DEF RingType, WellLinked, NoEntry, First

(* Queueing a detached entry behind the others keeps the rings in order.   *)
LEMMA PrependKeeps ==
  ASSUME NEW E, NEW H, E \cap H = {}, NEW m,
         RingType(m, E, H), WellLinked(m, E, H),
         NEW h \in H, NEW e \in E, m.parent[e] = e
  PROVE  LET p == acl_ring_prepend(m, h, e)
         IN  /\ RingType(p, E, H) /\ WellLinked(p, E, H)
             /\ p.parent = [m.parent EXCEPT ![e] = h]
<1> DEFINE p == acl_ring_prepend(m, h, e)
<1>1. RingType(p, E, H) /\ p.parent = [m.parent EXCEPT ![e] = h]
  <2>1. m.parent[h] = h /\ m.succ[h] \in E \cup H /\ m.pred[h] \in E \cup H
    BY DEF RingType, WellLinked
  <2>2. p.succ \in [E \cup H -> E \cup H] /\ p.pred \in [E \cup H -> E \cup H]
    BY <2>1 DEF RingType, acl_ring_prepend
  <2>3. p.parent = [m.parent EXCEPT ![e] = h] /\ p.parent \in [E \cup H -> E \cup H]
    BY <2>1 DEF RingType, acl_ring_prepend
  <2>4. p.len \in [E \cup H -> Int]
    BY <2>1 DEF RingType, acl_ring_prepend
  <2>5. p = [succ |-> p.succ, pred |-> p.pred, parent |-> p.parent, len |-> p.len]
    BY DEF acl_ring_prepend
  <2> QED BY <2>2, <2>3, <2>4, <2>5 DEF RingType
<1>2. m.succ[e] = e /\ m.pred[e] = e /\ e # h /\ m.parent[h] = h
  BY DEF RingType, WellLinked
<1>3. /\ m.succ[m.pred[h]] = h /\ m.pred[h] # e /\ m.pred[h] \in E \cup H
      /\ m.parent[m.pred[h]] = h
  BY <1>2 DEF RingType, WellLinked
<1>4. \A n \in E \cup H : p.succ[p.pred[n]] = n /\ p.pred[p.succ[n]] = n
  <2> TAKE n \in E \cup H
  <2>1. /\ m.succ[m.pred[n]] = n /\ m.pred[m.succ[n]] = n
        /\ m.succ[n] \in E \cup H /\ m.pred[n] \in E \cup H
    BY DEF RingType, WellLinked
  <2>2. p.succ[p.pred[n]] = n
    BY <1>2, <1>3, <2>1 DEF acl_ring_prepend, RingType
  <2>3. p.pred[p.succ[n]] = n
    BY <1>2, <1>3, <2>1 DEF acl_ring_prepend, RingType
  <2> QED BY <2>2, <2>3
<1>5. \A n \in E \cup H : p.parent[p.succ[n]] = p.parent[n]
  <2> TAKE n \in E \cup H
  <2>1. m.parent[m.succ[n]] = m.parent[n] /\ m.pred[m.succ[n]] = n /\ m.succ[n] \in E \cup H
    BY DEF RingType, WellLinked
  <2> QED BY <1>2, <1>3, <2>1 DEF acl_ring_prepend, RingType
<1>6. \A g \in H : p.parent[g] = g
  BY <1>1, <1>2 DEF RingType, WellLinked
<1>7. \A d \in E : p.parent[d] \in H \/ (p.parent[d] = d /\ p.succ[d] = d)
  <2> TAKE d \in E
  <2>1. CASE d = e
    BY <2>1, <1>1 DEF RingType
  <2>2. CASE d # e
    BY <2>2, <1>1, <1>2, <1>3 DEF RingType, WellLinked, acl_ring_prepend
  <2> QED BY <2>1, <2>2
<1> QED BY <1>1, <1>4, <1>5, <1>6, <1>7 DEF WellLinked

(* So does inserting it before the others.                                 *)
LEMMA AppendKeeps ==
  ASSUME NEW E, NEW H, E \cap H = {}, NEW m,
         RingType(m, E, H), WellLinked(m, E, H),
         NEW h \in H, NEW e \in E, m.parent[e] = e
  PROVE  LET p == acl_ring_append(m, h, e)
         IN  /\ RingType(p, E, H) /\ WellLinked(p, E, H)
             /\ p.parent = [m.parent EXCEPT ![e] = h]
             /\ First(p, h) = e /\ ~NoEntry(p, h)
<1> DEFINE p == acl_ring_append(m, h, e)
<1>1. RingType(p, E, H) /\ p.parent = [m.parent EXCEPT ![e] = h]
  <2>1. m.parent[h] = h /\ m.succ[h] \in E \cup H /\ m.pred[h] \in E \cup H
    BY DEF RingType, WellLinked
  <2>2. p.succ \in [E \cup H -> E \cup H] /\ p.pred \in [E \cup H -> E \cup H]
    BY <2>1 DEF RingType, acl_ring_append
  <2>3. p.parent = [m.parent EXCEPT ![e] = h] /\ p.parent \in [E \cup H -> E \cup H]
    BY <2>1 DEF RingType, acl_ring_append
  <2>4. p.len \in [E \cup H -> Int]
    BY <2>1 DEF RingType, acl_ring_append
  <2>5. p = [succ |-> p.succ, pred |-> p.pred, parent |-> p.parent, len |-> p.len]
    BY DEF acl_ring_append
  <2> QED BY <2>2, <2>3, <2>4, <2>5 DEF RingType
<1>2. m.succ[e] = e /\ m.pred[e] = e /\ e # h /\ m.parent[h] = h
  BY DEF RingType, WellLinked
<1>3. /\ m.pred[m.succ[h]] = h /\ m.succ[h] # e /\ m.succ[h] \in E \cup H
      /\ m.parent[m.succ[h]] = h
  BY <1>2 DEF RingType, WellLinked
<1>4. \A n \in E \cup H : p.succ[p.pred[n]] = n /\ p.pred[p.succ[n]] = n
  <2> TAKE n \in E \cup H
  <2>1. /\ m.succ[m.pred[n]] = n /\ m.pred[m.succ[n]] = n
        /\ m.succ[n] \in E \cup H /\ m.pred[n] \in E \cup H
    BY DEF RingType, WellLinked
  <2>2. p.succ[p.pred[n]] = n
    BY <1>2, <1>3, <2>1 DEF acl_ring_append, RingType
  <2>3. p.pred[p.succ[n]] = n
    BY <1>2, <1>3, <2>1 DEF acl_ring_append, RingType
  <2> QED BY <2>2, <2>3
<1>5. \A n \in E \cup H : p.parent[p.succ[n]] = p.parent[n]
  <2> TAKE n \in E \cup H
  <2>1. m.parent[m.succ[n]] = m.parent[n] /\ m.pred[m.succ[n]] = n /\ m.succ[n] \in E \cup H
    BY DEF RingType, WellLinked
  <2> QED BY <1>2, <1>3, <2>1 DEF acl_ring_append, RingType
<1>6. \A g \in H : p.parent[g] = g
  BY <1>1, <1>2 DEF RingType, WellLinked
<1>7. \A d \in E : p.parent[d] \in H \/ (p.parent[d] = d /\ p.succ[d] = d)
  <2> TAKE d \in E
  <2>1. CASE d = e
    BY <2>1, <1>1 DEF RingType
  <2>2. CASE d # e
    BY <2>2, <1>1, <1>2, <1>3 DEF RingType, WellLinked, acl_ring_append
  <2> QED BY <2>1, <2>2
<1>8. First(p, h) = e /\ ~NoEntry(p, h)
  BY <1>2 DEF First, NoEntry, acl_ring_append, RingType
<1> QED BY <1>1, <1>4, <1>5, <1>6, <1>7, <1>8 DEF WellLinked

(* Detaching an entry leaves it alone and its ring in order; detaching it  *)
(* twice, as the lock and semaphore code does, is harmless.                *)
LEMMA DetachKeeps ==
  ASSUME NEW E, NEW H, E \cap H = {}, NEW m,
         RingType(m, E, H), WellLinked(m, E, H), NEW e \in E
  PROVE  LET d == acl_ring_detach(m, e)
         IN  /\ RingType(d, E, H) /\ WellLinked(d, E, H)
             /\ d.parent = [m.parent EXCEPT ![e] = e]
<1> DEFINE d == acl_ring_detach(m, e)
<1>0. CASE m.parent[e] = e
  <2>1. d = m /\ m.parent = [m.parent EXCEPT ![e] = e]
    BY <1>0 DEF acl_ring_detach, RingType
  <2> QED BY <2>1
<1>1. CASE m.parent[e] # e
  <2>1. RingType(d, E, H) /\ d.parent = [m.parent EXCEPT ![e] = e]
    BY <1>1 DEF RingType, WellLinked, acl_ring_detach
  <2>2. /\ m.parent[e] \in H /\ m.parent[m.parent[e]] = m.parent[e]
        /\ m.succ[e] \in E \cup H /\ m.pred[e] \in E \cup H
        /\ m.succ[m.pred[e]] = e /\ m.pred[m.succ[e]] = e
    BY <1>1 DEF RingType, WellLinked
  <2>3. \A n \in E \cup H : d.succ[d.pred[n]] = n /\ d.pred[d.succ[n]] = n
    <3> TAKE n \in E \cup H
    <3>1. /\ m.succ[m.pred[n]] = n /\ m.pred[m.succ[n]] = n
          /\ m.succ[n] \in E \cup H /\ m.pred[n] \in E \cup H
      BY DEF RingType, WellLinked
    <3>2. d.succ[d.pred[n]] = n
      BY <1>1, <2>2, <3>1 DEF acl_ring_detach, RingType
    <3>3. d.pred[d.succ[n]] = n
      BY <1>1, <2>2, <3>1 DEF acl_ring_detach, RingType
    <3> QED BY <3>2, <3>3
  <2>4. \A n \in E \cup H : d.parent[d.succ[n]] = d.parent[n]
    <3> TAKE n \in E \cup H
    <3>1. /\ m.parent[m.succ[n]] = m.parent[n] /\ m.pred[m.succ[n]] = n
          /\ m.succ[n] \in E \cup H /\ m.parent[m.succ[e]] = m.parent[e]
      BY DEF RingType, WellLinked
    <3> QED BY <1>1, <2>2, <3>1 DEF acl_ring_detach, RingType
  <2>5. \A g \in H : d.parent[g] = g
    BY <2>1 DEF RingType, WellLinked
  <2>6. \A c \in E : d.parent[c] \in H \/ (d.parent[c] = c /\ d.succ[c] = c)
    BY <1>1, <2>1, <2>2 DEF RingType, WellLinked, acl_ring_detach
  <2> QED BY <2>1, <2>3, <2>4, <2>5, <2>6 DEF WellLinked
<1> QED BY <1>0, <1>1

-----------------------------------------------------------------------------
(* The invariant of the scheduler.  The rings alone are not inductive: that *)
(* an operation links only detached fibers needs the status of each fiber  *)
(* to say which ring it can be in.                                         *)

Rings(m) == RingType(m, Fibers, Heads) /\ WellLinked(m, Fibers, Heads)

IInv == TypeOK /\ RingsWellFormed /\ RingsMatchStatus /\ TableExact

(* What the assumptions say of the two heads of FIBER_TLS.                 *)
LEMMA HeadsFacts ==
  /\ Fibers \cap Heads = {}
  /\ Ready \in Heads /\ Dead \in Heads /\ Ready # Dead
  /\ WaitRings \subseteq Heads /\ Ready \notin WaitRings /\ Dead \notin WaitRings
  /\ Original \notin Fibers
BY HeadsAssumption, ConstantsAssumption DEF Heads, Nodes

(* A thread that has no fiber yet satisfies the invariant.                 *)
LEMMA InitIInv == Init => IInv
<1> SUFFICES ASSUME Init PROVE IInv
  OBVIOUS
<1> USE HeadsFacts, ConstantsAssumption
<1>1. TypeOK
  <2>1. RingType(ring, Fibers, Heads)
    BY DEF Init, RingType, acl_ring_init, Nodes
  <2>2. status \in [Fibers -> {"free", "ready", "exiting"}] /\ killed \in [Fibers -> BOOLEAN]
    BY DEF Init
  <2>3. signum \in [Fibers -> Signals \cup {NoSignal}] /\ slot \in [Fibers -> Nat]
    BY DEF Init
  <2>4. running \in Fibers \cup {Original} /\ scheduled \in BOOLEAN
    BY DEF Init
  <2>5. << >> \in Seq(Fibers)
    OBVIOUS
  <2>6. fibers = << >>
    BY DEF Init
  <2> QED BY <2>1, <2>2, <2>3, <2>4, <2>5, <2>6 DEF TypeOK
<1>2. RingsWellFormed
  BY DEF Init, RingsWellFormed, WellLinked, acl_ring_init, Nodes
<1>3. RingsMatchStatus
  BY DEF Init, RingsMatchStatus, acl_ring_init, Nodes, Linked
<1>4. TableExact
  BY DEF Init, TableExact, Alive
<1> QED BY <1>1, <1>2, <1>3, <1>4 DEF IInv

(* Popping a head detaches its first entry, if there is one.               *)
LEMMA PopKeeps ==
  ASSUME NEW m, Rings(m), NEW h \in Heads
  PROVE  LET p == acl_ring_pop_head(m, h)
         IN  /\ Rings(p)
             /\ NoEntry(m, h) => p = m
             /\ ~NoEntry(m, h) => /\ First(m, h) \in Fibers
                                 /\ m.parent[First(m, h)] = h
                                 /\ p.parent = [m.parent EXCEPT ![First(m, h)] = First(m, h)]
<1>1. CASE NoEntry(m, h)
  BY <1>1 DEF acl_ring_pop_head
<1>2. CASE ~NoEntry(m, h)
  <2>1. First(m, h) \in Fibers /\ m.parent[First(m, h)] = h
    BY <1>2, FirstIsEntry DEF Rings
  <2>2. LET d == acl_ring_detach(m, First(m, h))
        IN  /\ RingType(d, Fibers, Heads) /\ WellLinked(d, Fibers, Heads)
            /\ d.parent = [m.parent EXCEPT ![First(m, h)] = First(m, h)]
    BY <2>1, DetachKeeps, HeadsFacts DEF Rings
  <2>3. acl_ring_pop_head(m, h) = acl_ring_detach(m, First(m, h))
    BY <1>2 DEF acl_ring_pop_head
  <2> QED BY <1>2, <2>1, <2>2, <2>3 DEF Rings
<1> QED BY <1>1, <1>2

(* Handing the thread over runs a fiber of the ready ring, detached, or    *)
(* the loop of acl_fiber_schedule.                                         *)
LEMMA SwitchKeeps ==
  ASSUME NEW m, Rings(m), acl_fiber_switch(m)
  PROVE  /\ Rings(ring')
         /\ \/ running' = Original /\ ring' = m
            \/ /\ running' \in Fibers /\ m.parent[running'] = Ready
               /\ ring'.parent = [m.parent EXCEPT ![running'] = running']
BY PopKeeps, HeadsFacts DEF acl_fiber_switch

(* Readying a detached fiber puts it in the ready ring.                    *)
LEMMA ReadyKeeps ==
  ASSUME NEW m, Rings(m), NEW f \in Fibers, m.parent[f] = f, status[f] = "ready"
  PROVE  /\ Rings(acl_fiber_ready(m, f))
         /\ acl_fiber_ready(m, f).parent = [m.parent EXCEPT ![f] = Ready]
BY PrependKeeps, HeadsFacts DEF Rings, acl_fiber_ready

(* What a step that changes the rings and the running context only has to  *)
(* preserve.                                                               *)
LEMMA RingStep ==
  ASSUME IInv, Rings(ring'), running' \in Fibers \cup {Original},
         UNCHANGED <<status, fibers, slot>>,
         killed' \in [Fibers -> BOOLEAN], scheduled' \in BOOLEAN,
         signum' \in [Fibers -> Signals \cup {NoSignal}],
         running' \in Fibers =>
            status[running'] = "ready" /\ ring'.parent[running'] = running',
         \A f \in Fibers :
            /\ ring'.parent[f] = Dead <=> ring.parent[f] = Dead
            /\ status[f] = "free" => ring'.parent[f] = f
  PROVE  IInv'
<1>1. TypeOK'
  BY DEF IInv, TypeOK, Rings
<1>2. RingsWellFormed'
  BY DEF Rings, RingsWellFormed
<1>3. RingsMatchStatus'
  BY DEF IInv, RingsMatchStatus, Alive, Linked
<1>4. TableExact'
  BY DEF IInv, TableExact, Alive
<1> QED BY <1>1, <1>2, <1>3, <1>4 DEF IInv

(* The running fiber is alive and detached, so it can be linked anywhere.  *)
LEMMA RunningFiber ==
  ASSUME IInv, NEW f \in Fibers, running = f
  PROVE  Rings(ring) /\ status[f] = "ready" /\ ring.parent[f] = f
BY DEF IInv, TypeOK, Rings, RingsWellFormed, RingsMatchStatus, Alive, Linked

(* A step that ends by handing over the thread, having linked or detached  *)
(* only living fibers.                                                     *)
LEMMA SwitchStep ==
  ASSUME IInv, NEW m, Rings(m), acl_fiber_switch(m),
         UNCHANGED <<status, fibers, slot, scheduled>>,
         killed' \in [Fibers -> BOOLEAN],
         signum' \in [Fibers -> Signals \cup {NoSignal}],
         \A f \in Fibers :
            \/ m.parent[f] = ring.parent[f]
            \/ status[f] = "ready" /\ m.parent[f] # Dead
  PROVE  IInv'
<1>1. Rings(ring) /\ Rings(ring')
  BY SwitchKeeps DEF IInv, TypeOK, RingsWellFormed, Rings
<1>2. running' \in Fibers \cup {Original} /\ scheduled' \in BOOLEAN
  BY SwitchKeeps DEF IInv, TypeOK
<1>3. \A f \in Fibers :
        /\ status[f] = "exiting" <=> ring.parent[f] = Dead
        /\ status[f] = "free" => ring.parent[f] = f
        /\ status[f] \in {"free", "ready", "exiting"}
  BY DEF IInv, TypeOK, RingsMatchStatus, Linked
<1>4. running' \in Fibers =>
        status[running'] = "ready" /\ ring'.parent[running'] = running'
  <2> SUFFICES ASSUME running' \in Fibers
               PROVE  status[running'] = "ready" /\ ring'.parent[running'] = running'
    OBVIOUS
  <2>1. /\ m.parent[running'] = Ready
        /\ ring'.parent = [m.parent EXCEPT ![running'] = running']
    BY SwitchKeeps, HeadsFacts
  <2> QED BY <1>3, <2>1, HeadsFacts DEF Rings, RingType
<1>5. \A f \in Fibers :
        /\ ring'.parent[f] = Dead <=> ring.parent[f] = Dead
        /\ status[f] = "free" => ring'.parent[f] = f
  <2> TAKE f \in Fibers
  <2>1. m.parent[f] = Dead <=> ring.parent[f] = Dead
    BY <1>3
  <2>2. status[f] = "free" => m.parent[f] = f
    BY <1>3
  <2>3. \/ ring'.parent[f] = m.parent[f]
        \/ m.parent[f] = Ready /\ ring'.parent[f] = f
    <3>1. \/ ring' = m
          \/ /\ running' \in Fibers /\ m.parent[running'] = Ready
             /\ ring'.parent = [m.parent EXCEPT ![running'] = running']
      BY SwitchKeeps
    <3> QED BY <3>1 DEF Rings, RingType
  <2>4. f # Dead /\ f # Ready /\ Ready # Dead
    BY HeadsFacts
  <2>5. CASE ring'.parent[f] = m.parent[f]
    BY <2>1, <2>2, <2>5
  <2>6. CASE m.parent[f] = Ready /\ ring'.parent[f] = f
    BY <2>1, <2>4, <2>6
  <2> QED BY <2>3, <2>5, <2>6
<1> QED BY <1>1, <1>2, <1>4, <1>5, RingStep

(* The loop of acl_fiber_schedule keeps it.                                *)
LEMMA ScheduleKeeps == IInv /\ acl_fiber_schedule => IInv'
<1> SUFFICES ASSUME IInv, acl_fiber_schedule PROVE IInv'
  OBVIOUS
<1>0. Rings(ring)
  BY DEF IInv, TypeOK, RingsWellFormed, Rings
<1>1. CASE ScheduleEnter
  BY <1>1, <1>0, RingStep DEF ScheduleEnter, IInv, TypeOK, RingsMatchStatus, Alive, Linked
<1>2. CASE ScheduleRun
  BY <1>2, <1>0, SwitchStep DEF ScheduleRun, IInv, TypeOK
<1>3. CASE ScheduleFree
  <2> DEFINE g == First(ring, Dead)
  <2>1. /\ g \in Fibers /\ ring.parent[g] = Dead /\ Rings(ring')
        /\ ring'.parent = [ring.parent EXCEPT ![g] = g]
        /\ status' = [status EXCEPT ![g] = "free"]
        /\ UNCHANGED <<running, killed, signum, fibers, slot, scheduled>>
    BY <1>0, <1>3, PopKeeps, HeadsFacts DEF ScheduleFree
  <2>2. status[g] = "exiting"
    BY <2>1 DEF IInv, RingsMatchStatus
  <2>3. TypeOK'
    BY <2>1 DEF IInv, TypeOK, Rings
  <2>4. RingsWellFormed'
    BY <2>1 DEF RingsWellFormed, Rings
  <2>5. RingsMatchStatus'
    BY <2>1, <2>2, HeadsFacts DEF IInv, TypeOK, RingType, RingsMatchStatus, Alive, Linked
  <2>6. TableExact'
    BY <2>1, <2>2 DEF IInv, TypeOK, TableExact, Alive
  <2> QED BY <2>3, <2>4, <2>5, <2>6 DEF IInv
<1>4. CASE ScheduleReturn
  BY <1>4, <1>0, RingStep DEF ScheduleReturn, IInv, TypeOK, RingsMatchStatus, Alive, Linked
<1> QED BY <1>1, <1>2, <1>3, <1>4 DEF acl_fiber_schedule

(* acl_fiber_yield keeps it.                                               *)
LEMMA YieldKeeps == \A f \in Fibers : IInv /\ acl_fiber_yield(f) => IInv'
<1> SUFFICES ASSUME NEW f \in Fibers, IInv, acl_fiber_yield(f) PROVE IInv'
  OBVIOUS
<1> DEFINE m == acl_fiber_ready(ring, f)
<1>1. Rings(m) /\ m.parent = [ring.parent EXCEPT ![f] = Ready] /\ status[f] = "ready"
  BY RunningFiber, ReadyKeeps DEF acl_fiber_yield
<1>2. \A g \in Fibers : \/ m.parent[g] = ring.parent[g]
                        \/ status[g] = "ready" /\ m.parent[g] # Dead
  BY <1>1, HeadsFacts DEF IInv, TypeOK, RingType
<1>3. acl_fiber_switch(m) /\ UNCHANGED <<status, fibers, slot, scheduled>>
  BY DEF acl_fiber_yield
<1>4. /\ killed' \in [Fibers -> BOOLEAN]
      /\ signum' \in [Fibers -> Signals \cup {NoSignal}]
  BY DEF acl_fiber_yield, IInv, TypeOK
<1> QED BY <1>1, <1>2, <1>3, <1>4, SwitchStep

(* A fiber that suspends itself keeps it.                                  *)
LEMMA SuspendKeeps == \A f \in Fibers : IInv /\ Suspend(f) => IInv'
BY RunningFiber, SwitchStep DEF Suspend, IInv, TypeOK

(* So does one that queues up at a lock or semaphore.                      *)
LEMMA WaitInKeeps ==
  \A f \in Fibers : \A w \in WaitRings : IInv /\ WaitIn(f, w) => IInv'
<1> SUFFICES ASSUME NEW f \in Fibers, NEW w \in WaitRings, IInv, WaitIn(f, w)
             PROVE  IInv'
  OBVIOUS
<1> DEFINE m == acl_ring_prepend(ring, w, f)
<1>1. Rings(m) /\ m.parent = [ring.parent EXCEPT ![f] = w] /\ status[f] = "ready"
  BY RunningFiber, PrependKeeps, HeadsFacts DEF WaitIn, Rings
<1>2. \A g \in Fibers : \/ m.parent[g] = ring.parent[g]
                        \/ status[g] = "ready" /\ m.parent[g] # Dead
  BY <1>1, HeadsFacts DEF IInv, TypeOK, RingType
<1>3. acl_fiber_switch(m) /\ UNCHANGED <<status, fibers, slot, scheduled>>
  BY DEF WaitIn
<1>4. /\ killed' \in [Fibers -> BOOLEAN]
      /\ signum' \in [Fibers -> Signals \cup {NoSignal}]
  BY DEF WaitIn, IInv, TypeOK
<1> QED BY <1>1, <1>2, <1>3, <1>4, SwitchStep

(* acl_fiber_ready on a suspended fiber keeps it.                          *)
LEMMA WakeKeeps == \A g \in Fibers : IInv /\ Wake(g) => IInv'
<1> SUFFICES ASSUME NEW g \in Fibers, IInv, Wake(g) PROVE IInv'
  OBVIOUS
<1>1. Rings(ring) /\ status[g] = "ready" /\ ring.parent[g] = g /\ running # g
  BY DEF Wake, Suspended, Alive, Linked, IInv, TypeOK, RingsWellFormed, Rings
<1>2. Rings(ring') /\ ring'.parent = [ring.parent EXCEPT ![g] = Ready]
  BY <1>1, ReadyKeeps DEF Wake
<1>3. \A f \in Fibers : /\ ring'.parent[f] = Dead <=> ring.parent[f] = Dead
                        /\ status[f] = "free" => ring'.parent[f] = f
  BY <1>1, <1>2, HeadsFacts DEF IInv, TypeOK, RingType, RingsMatchStatus, Linked
<1>4. running' \in Fibers =>
        status[running'] = "ready" /\ ring'.parent[running'] = running'
  BY <1>1, <1>2 DEF Wake, IInv, TypeOK, RingType, RingsMatchStatus, Alive, Linked
<1> QED BY <1>2, <1>3, <1>4, RingStep DEF Wake, IInv, TypeOK

(* The first waiter leaves the waiting ring for the ready ring.            *)
LEMMA ReadyFirstKeeps ==
  ASSUME IInv, NEW w \in WaitRings, ~NoEntry(ring, w)
  PROVE  LET g == First(ring, w)
         IN  /\ g \in Fibers /\ ring.parent[g] = w /\ status[g] = "ready" /\ running # g
             /\ Rings(ReadyFirst(ring, w))
             /\ ReadyFirst(ring, w).parent = [ring.parent EXCEPT ![g] = Ready]
<1> DEFINE g == First(ring, w)
           d == acl_ring_detach(ring, g)
<1>1. Rings(ring) /\ w \in Heads
  BY HeadsFacts DEF IInv, TypeOK, RingsWellFormed, Rings
<1>2. g \in Fibers /\ ring.parent[g] = w
  BY <1>1, FirstIsEntry DEF Rings
<1>3. status[g] = "ready" /\ running # g
  BY <1>2, HeadsFacts DEF IInv, TypeOK, RingsMatchStatus, Linked
<1>4. Rings(d) /\ d.parent = [ring.parent EXCEPT ![g] = g]
  BY <1>1, <1>2, DetachKeeps, HeadsFacts DEF Rings
<1>5. d.parent[g] = g
  BY <1>1, <1>2, <1>4 DEF Rings, RingType
<1>6. /\ Rings(acl_fiber_ready(d, g))
      /\ acl_fiber_ready(d, g).parent = [d.parent EXCEPT ![g] = Ready]
  BY <1>2, <1>3, <1>4, <1>5, ReadyKeeps
<1>7. [d.parent EXCEPT ![g] = Ready] = [ring.parent EXCEPT ![g] = Ready]
  BY <1>1, <1>2, <1>4 DEF Rings, RingType
<1> QED BY <1>2, <1>3, <1>6, <1>7 DEF ReadyFirst

(* Letting the first waiter go keeps it.                                   *)
LEMMA WakeFirstKeeps == \A w \in WaitRings : IInv /\ WakeFirst(w) => IInv'
<1> SUFFICES ASSUME NEW w \in WaitRings, IInv, WakeFirst(w) PROVE IInv'
  OBVIOUS
<1> DEFINE g == First(ring, w)
<1>1. /\ g \in Fibers /\ ring.parent[g] = w /\ status[g] = "ready" /\ running # g
      /\ Rings(ring') /\ ring'.parent = [ring.parent EXCEPT ![g] = Ready]
  BY ReadyFirstKeeps DEF WakeFirst
<1>2. \A f \in Fibers : /\ ring'.parent[f] = Dead <=> ring.parent[f] = Dead
                        /\ status[f] = "free" => ring'.parent[f] = f
  BY <1>1, HeadsFacts DEF IInv, TypeOK, RingType, RingsMatchStatus, Linked
<1>3. running' \in Fibers =>
        status[running'] = "ready" /\ ring'.parent[running'] = running'
  BY <1>1 DEF WakeFirst, IInv, TypeOK, RingType, RingsMatchStatus, Alive, Linked
<1> QED BY <1>1, <1>2, <1>3, RingStep DEF WakeFirst, IInv, TypeOK

(* acl_fiber_signal keeps it, wherever the target waits.                   *)
LEMMA SignalKeeps ==
  \A f, g \in Fibers : \A sig \in Signals : IInv /\ acl_fiber_signal(f, g, sig) => IInv'
<1> SUFFICES ASSUME NEW f \in Fibers, NEW g \in Fibers, NEW sig \in Signals,
                    IInv, acl_fiber_signal(f, g, sig)
             PROVE  IInv'
  OBVIOUS
<1> DEFINE m0 == acl_ring_detach(ring, f)
           m1 == acl_ring_detach(m0, g)
           m2 == acl_ring_append(m1, Ready, f)
           m3 == acl_ring_append(m2, Ready, g)
<1>1. Rings(ring) /\ status[f] = "ready" /\ ring.parent[f] = f /\ status[g] = "ready"
  BY RunningFiber DEF acl_fiber_signal, Alive
<1>2. /\ killed' \in [Fibers -> BOOLEAN]
      /\ signum' \in [Fibers -> Signals \cup {NoSignal}]
  BY DEF acl_fiber_signal, IInv, TypeOK
<1>3. UNCHANGED <<status, fibers, slot, scheduled>>
  BY DEF acl_fiber_signal
<1>4. CASE g = f
  <2>1. UNCHANGED <<ring, running>>
    BY <1>4 DEF acl_fiber_signal
  <2> QED
    BY <1>1, <1>2, <1>3, <2>1, RingStep
       DEF IInv, TypeOK, RingsMatchStatus, Alive, Linked
<1>5. CASE g # f
  <2>1. m0 = ring
    BY <1>1 DEF acl_ring_detach
  <2>2. Rings(m1) /\ m1.parent = [ring.parent EXCEPT ![g] = g]
    <3>1. m1 = acl_ring_detach(ring, g)
      BY <2>1
    <3> HIDE DEF m1
    <3> QED BY <1>1, <3>1, DetachKeeps, HeadsFacts DEF Rings
  <2>3. m1.parent[f] = f /\ m1.parent[g] = g
    BY <1>1, <2>2 DEF Rings, RingType
  <2>4. Rings(m2) /\ m2.parent = [m1.parent EXCEPT ![f] = Ready]
    <3> HIDE DEF m1
    <3>1. /\ RingType(m1, Fibers, Heads) /\ WellLinked(m1, Fibers, Heads)
          /\ Fibers \cap Heads = {} /\ Ready \in Heads /\ m1.parent[f] = f
      BY <2>2, <2>3, HeadsFacts DEF Rings
    <3>2. LET p == acl_ring_append(m1, Ready, f)
          IN  /\ RingType(p, Fibers, Heads) /\ WellLinked(p, Fibers, Heads)
              /\ p.parent = [m1.parent EXCEPT ![f] = Ready]
      BY <3>1, AppendKeeps
    <3> QED BY <3>2 DEF Rings
  <2>5. m2.parent[g] = g
    BY <1>5, <2>2, <2>3, <2>4 DEF Rings, RingType
  <2>6. Rings(m3) /\ m3.parent = [m2.parent EXCEPT ![g] = Ready]
    <3> HIDE DEF m2
    <3>1. /\ RingType(m2, Fibers, Heads) /\ WellLinked(m2, Fibers, Heads)
          /\ Fibers \cap Heads = {} /\ Ready \in Heads /\ m2.parent[g] = g
      BY <2>4, <2>5, HeadsFacts DEF Rings
    <3>2. LET p == acl_ring_append(m2, Ready, g)
          IN  /\ RingType(p, Fibers, Heads) /\ WellLinked(p, Fibers, Heads)
              /\ p.parent = [m2.parent EXCEPT ![g] = Ready]
      BY <3>1, AppendKeeps
    <3> QED BY <3>2 DEF Rings
  <2>7. acl_fiber_switch(m3)
    BY <1>5 DEF acl_fiber_signal
  <2>8. \A h \in Fibers : \/ m3.parent[h] = ring.parent[h]
                          \/ status[h] = "ready" /\ m3.parent[h] # Dead
    BY <1>1, <2>2, <2>4, <2>6, HeadsFacts DEF Rings, RingType
  <2> QED BY <1>2, <1>3, <2>6, <2>7, <2>8, SwitchStep
<1> QED BY <1>4, <1>5

(* acl_fiber_create keeps it, with a new block or a dead one.              *)
LEMMA CreateKeeps == \A f \in Fibers : IInv /\ Create(f) => IInv'
<1> SUFFICES ASSUME NEW f \in Fibers, IInv, Create(f) PROVE IInv'
  OBVIOUS
<1> DEFINE m == acl_ring_pop_head(ring, Dead)
           n == Len(fibers) + 1
<1>1. Rings(ring) /\ n \in Nat /\ fibers \in Seq(Fibers)
  BY DEF IInv, TypeOK, RingsWellFormed, Rings
<1>2. /\ status[f] # "ready" /\ running # f
      /\ Rings(m) /\ m.parent = [ring.parent EXCEPT ![f] = f]
  <2>1. CASE NoEntry(ring, Dead)
    <3>1. m = ring /\ status[f] = "free"
      BY <1>1, <2>1, PopKeeps, HeadsFacts DEF Create
    <3>2. ring.parent[f] = f /\ running # f
      BY <3>1 DEF IInv, RingsMatchStatus, Linked, Alive
    <3> QED BY <1>1, <3>1, <3>2 DEF Rings, RingType
  <2>2. CASE ~NoEntry(ring, Dead)
    <3>1. /\ f = First(ring, Dead) /\ Rings(m)
          /\ ring.parent[f] = Dead /\ m.parent = [ring.parent EXCEPT ![f] = f]
      BY <1>1, <2>2, PopKeeps, HeadsFacts DEF Create
    <3>2. status[f] = "exiting" /\ running # f
      BY <3>1 DEF IInv, RingsMatchStatus, Alive
    <3> QED BY <3>1, <3>2
  <2> QED BY <2>1, <2>2
<1>3. Rings(ring') /\ ring'.parent = [ring.parent EXCEPT ![f] = Ready]
  <2> HIDE DEF m
  <2>1. m.parent[f] = f
    BY <1>1, <1>2 DEF Rings, RingType
  <2>2. ring' = acl_ring_prepend(m, Ready, f)
    BY DEF Create, m
  <2>3. LET p == acl_ring_prepend(m, Ready, f)
        IN  /\ RingType(p, Fibers, Heads) /\ WellLinked(p, Fibers, Heads)
            /\ p.parent = [m.parent EXCEPT ![f] = Ready]
    <3>1. RingType(m, Fibers, Heads) /\ WellLinked(m, Fibers, Heads)
      BY <1>2 DEF Rings
    <3> QED BY <2>1, <3>1, PrependKeeps, HeadsFacts
  <2>4. Rings(ring') /\ ring'.parent = [m.parent EXCEPT ![f] = Ready]
    BY <2>2, <2>3 DEF Rings
  <2> QED BY <1>1, <1>2, <2>4 DEF Rings, RingType
<1>4. /\ status' = [status EXCEPT ![f] = "ready"] /\ UNCHANGED <<running, scheduled>>
      /\ fibers' = Append(fibers, f) /\ slot' = [slot EXCEPT ![f] = n]
  BY DEF Create
<1>5. TypeOK'
  <2>1. fibers' \in Seq(Fibers) /\ slot' \in [Fibers -> Nat]
    BY <1>1, <1>4 DEF IInv, TypeOK
  <2> QED BY <1>3, <1>4, <2>1 DEF Create, IInv, TypeOK, Rings
<1>6. RingsWellFormed'
  BY <1>3 DEF RingsWellFormed, Rings
<1>7. RingsMatchStatus'
  BY <1>1, <1>2, <1>3, <1>4, HeadsFacts
     DEF IInv, TypeOK, Rings, RingType, RingsMatchStatus, Alive, Linked
<1>8. TableExact'
  <2>1. /\ Len(fibers') = n /\ fibers'[n] = f
        /\ \A i \in 1 .. Len(fibers) : fibers'[i] = fibers[i]
    BY <1>1, <1>4
  <2>2. \A i \in 1 .. Len(fibers') :
          status'[fibers'[i]] = "ready" /\ slot'[fibers'[i]] = i
    BY <1>1, <1>2, <1>4, <2>1 DEF IInv, TypeOK, TableExact, Alive
  <2>3. \A g \in Fibers :
          Alive(g)' => slot'[g] \in 1 .. Len(fibers') /\ fibers'[slot'[g]] = g
    BY <1>1, <1>2, <1>4, <2>1 DEF IInv, TypeOK, TableExact, Alive
  <2> QED BY <2>2, <2>3 DEF TableExact, Alive
<1> QED BY <1>5, <1>6, <1>7, <1>8 DEF IInv

(* The fiber that ends leaves the table as if it had never been there.     *)
LEMMA DropKeeps ==
  ASSUME IInv, NEW f \in Fibers, Alive(f), DropFromTable(f),
         status' \in [Fibers -> {"free", "ready", "exiting"}],
         \A g \in Fibers : status'[g] = "ready" <=> status[g] = "ready" /\ g # f
  PROVE  TableExact' /\ fibers' \in Seq(Fibers) /\ slot' \in [Fibers -> Nat]
<1> DEFINE n == Len(fibers)
           last == fibers[n]
           s == slot[f]
<1>1. /\ n \in Nat /\ s \in 1 .. n /\ fibers[s] = f /\ fibers \in Seq(Fibers)
      /\ last \in Fibers /\ slot[last] = n /\ slot \in [Fibers -> Nat]
  BY DEF IInv, TypeOK, TableExact
<1>2. /\ fibers' = [i \in 1 .. n - 1 |-> IF i = s THEN last ELSE fibers[i]]
      /\ slot' = [slot EXCEPT ![last] = s]
  BY DEF DropFromTable
<1>3. fibers' \in Seq(Fibers) /\ Len(fibers') = n - 1 /\ slot' \in [Fibers -> Nat]
  BY <1>1, <1>2
<1>4. ASSUME NEW i \in 1 .. n - 1
      PROVE  status'[fibers'[i]] = "ready" /\ slot'[fibers'[i]] = i
  <2>1. fibers[i] \in Fibers /\ slot[fibers[i]] = i /\ status[fibers[i]] = "ready"
    BY <1>1 DEF IInv, TypeOK, TableExact, Alive
  <2>2. status[last] = "ready"
    BY <1>1 DEF IInv, TableExact, Alive
  <2>3. CASE i = s
    BY <1>1, <1>2, <2>2, <2>3
  <2>4. CASE i # s
    BY <1>1, <1>2, <2>1, <2>4
  <2> QED BY <2>3, <2>4
<1>5. ASSUME NEW g \in Fibers, status'[g] = "ready"
      PROVE  slot'[g] \in 1 .. n - 1 /\ fibers'[slot'[g]] = g
  <2>1. g # f /\ slot[g] \in 1 .. n /\ fibers[slot[g]] = g
    BY <1>5 DEF IInv, TableExact, Alive
  <2>2. CASE g = last
    BY <1>1, <1>2, <2>1, <2>2
  <2>3. CASE g # last
    BY <1>1, <1>2, <2>1, <2>3
  <2> QED BY <2>2, <2>3
<1> QED BY <1>3, <1>4, <1>5 DEF TableExact, Alive

(* The end of a fiber keeps it.                                            *)
LEMMA ExitKeeps == \A f \in Fibers : IInv /\ fiber_exit(f) => IInv'
<1> SUFFICES ASSUME NEW f \in Fibers, IInv, fiber_exit(f) PROVE IInv'
  OBVIOUS
<1> DEFINE m == acl_ring_pop_head(ring, Ready)
           k == fiber_kick(m)
           d == First(m, Dead)
<1>1. Rings(ring) /\ status[f] = "ready" /\ ring.parent[f] = f /\ Alive(f)
  BY RunningFiber DEF fiber_exit, Alive
<1>2. Rings(m) /\ \/ running' = Original /\ m = ring
                  \/ /\ running' \in Fibers /\ ring.parent[running'] = Ready
                     /\ m.parent = [ring.parent EXCEPT ![running'] = running']
  BY <1>1, PopKeeps, HeadsFacts DEF fiber_exit
<1>3. Rings(k) /\ \/ k = m /\ Kicked(m) = {}
                  \/ /\ Kicked(m) = {d} /\ d \in Fibers /\ m.parent[d] = Dead
                     /\ k.parent = [m.parent EXCEPT ![d] = d]
  <2> HIDE DEF m
  <2> QED BY <1>2, PopKeeps, HeadsFacts DEF fiber_kick, Kicked
<1>4. k.parent[f] = f
  <2> HIDE DEF m, k
  <2> QED BY <1>1, <1>2, <1>3, HeadsFacts DEF Rings, RingType
<1>5. Rings(ring') /\ ring'.parent = [k.parent EXCEPT ![f] = Dead]
  <2>1. ring' = acl_ring_prepend(k, Dead, f)
    BY DEF fiber_exit
  <2> HIDE DEF k
  <2>2. LET p == acl_ring_prepend(k, Dead, f)
        IN  /\ RingType(p, Fibers, Heads) /\ WellLinked(p, Fibers, Heads)
            /\ p.parent = [k.parent EXCEPT ![f] = Dead]
    <3>1. RingType(k, Fibers, Heads) /\ WellLinked(k, Fibers, Heads)
      BY <1>3 DEF Rings
    <3> QED BY <1>4, <3>1, PrependKeeps, HeadsFacts
  <2> QED BY <2>1, <2>2 DEF Rings
<1>6. status' = [g \in Fibers |-> IF g = f THEN "exiting"
                                 ELSE IF g \in Kicked(m) THEN "free" ELSE status[g]]
  BY DEF fiber_exit
<1> HIDE DEF m, k, d
<1>7. \A g \in Kicked(m) : g # f /\ status[g] = "exiting" /\ ring.parent[g] = Dead
  BY <1>1, <1>2, <1>3, HeadsFacts DEF Rings, RingType, IInv, RingsMatchStatus
<1>8. TableExact' /\ fibers' \in Seq(Fibers) /\ slot' \in [Fibers -> Nat]
  <2>1. status' \in [Fibers -> {"free", "ready", "exiting"}]
    BY <1>6 DEF IInv, TypeOK
  <2>2. \A g \in Fibers : status'[g] = "ready" <=> status[g] = "ready" /\ g # f
    BY <1>6, <1>7
  <2> QED BY <1>1, <2>1, <2>2, DropKeeps DEF fiber_exit
<1>9. TypeOK'
  <2>1. running' \in Fibers \cup {Original} /\ UNCHANGED <<killed, signum, scheduled>>
    BY <1>2 DEF fiber_exit
  <2>2. status' \in [Fibers -> {"free", "ready", "exiting"}]
    BY <1>6 DEF IInv, TypeOK
  <2> QED BY <1>5, <1>8, <2>1, <2>2 DEF IInv, TypeOK, Rings
<1>10. RingsWellFormed'
  BY <1>5 DEF RingsWellFormed, Rings
<1>11. RingsMatchStatus'
  <2>1. running' \in Fibers =>
          status'[running'] = "ready" /\ ring'.parent[running'] = running'
    <3> SUFFICES ASSUME running' \in Fibers
                 PROVE  status'[running'] = "ready" /\ ring'.parent[running'] = running'
      OBVIOUS
    <3>1. /\ ring.parent[running'] = Ready /\ running' # f
          /\ m.parent = [ring.parent EXCEPT ![running'] = running']
      BY <1>1, <1>2, HeadsFacts
    <3>2. status[running'] = "ready"
      BY <3>1, HeadsFacts DEF IInv, TypeOK, RingsMatchStatus, Linked
    <3>3. running' \notin Kicked(m)
      BY <1>7, <3>2
    <3> QED BY <1>1, <1>3, <1>5, <1>6, <3>1, <3>2, <3>3 DEF Rings, RingType
  <2>2. ASSUME NEW g \in Fibers
        PROVE  /\ status'[g] = "exiting" <=> ring'.parent[g] = Dead
               /\ status'[g] = "free" => ring'.parent[g] = g
    <3>1. /\ status[g] = "exiting" <=> ring.parent[g] = Dead
          /\ status[g] = "free" => ring.parent[g] = g
      BY DEF IInv, RingsMatchStatus, Linked
    <3>2. CASE g = f
      BY <1>3, <1>5, <1>6, <3>2 DEF Rings, RingType
    <3>3. CASE g \in Kicked(m)
      BY <1>3, <1>5, <1>6, <1>7, <3>3, HeadsFacts DEF Rings, RingType
    <3>4. CASE g # f /\ g \notin Kicked(m)
      <4>1. status'[g] = status[g]
        BY <1>6, <3>4
      <4>2. ring'.parent[g] = m.parent[g]
        BY <1>3, <1>5, <3>4 DEF Rings, RingType
      <4>3. m.parent[g] = ring.parent[g] \/ (ring.parent[g] = Ready /\ m.parent[g] = g)
        BY <1>1, <1>2 DEF Rings, RingType
      <4> QED BY <3>1, <4>1, <4>2, <4>3, HeadsFacts
    <3> QED BY <3>2, <3>3, <3>4
  <2> QED BY <2>1, <2>2 DEF RingsMatchStatus, Alive, Linked
<1> QED BY <1>8, <1>9, <1>10, <1>11 DEF IInv

(* The invariant of the scheduler is inductive: no call of fiber.c breaks it. *)
THEOREM NextIInv == IInv /\ [Next]_schedVars => IInv'
<1> SUFFICES ASSUME IInv, [Next]_schedVars PROVE IInv'
  OBVIOUS
<1>1. CASE UNCHANGED schedVars
  BY <1>1 DEF schedVars, IInv, TypeOK, RingsWellFormed, RingsMatchStatus,
              TableExact, Alive, Linked
<1>2. CASE Next
  BY <1>2, ScheduleKeeps, CreateKeeps, YieldKeeps, SuspendKeeps, ExitKeeps, WakeKeeps,
     WaitInKeeps, SignalKeeps, WakeFirstKeeps DEF Next
<1> QED BY <1>1, <1>2

-----------------------------------------------------------------------------
(* Hence it always holds in a thread that runs fibers.                     *)
THEOREM SpecIInv == Spec => []IInv
BY InitIInv, NextIInv, PTL DEF Spec

(* Every variable keeps a value its C counterpart can hold.                *)
THEOREM TypeCorrect == Spec => []TypeOK
BY SpecIInv, PTL DEF IInv

(* No sequence of scheduler calls ever links a fiber into two rings or     *)
(* breaks the links of one.                                                *)
THEOREM RingsSafe == Spec => []RingsWellFormed
BY SpecIInv, PTL DEF IInv

(* Only living fibers run or wait, dead ones are in the dead ring, freed   *)
(* blocks in none: acl_fiber_switch never jumps into a finished fiber.     *)
THEOREM RingsStatusSafe == Spec => []RingsMatchStatus
BY SpecIInv, PTL DEF IInv

(* The table of fibers always lists the living fibers and only them.       *)
THEOREM TableSafe == Spec => []TableExact
BY SpecIInv, PTL DEF IInv

-----------------------------------------------------------------------------
(* What a step leaves to the fibers that wait for a lock or a semaphore:   *)
(* they stay in their ring unless the step readies or signals them, and a  *)
(* waiting ring that is empty stays empty unless somebody enters it.       *)

Stays(f) == \A w \in WaitRings : ring.parent[f] = w => ring'.parent[f] = w

(* acl_fiber_switch leaves every fiber of another ring where it is.        *)
LEMMA SwitchStays ==
  ASSUME NEW m, Rings(m), acl_fiber_switch(m), NEW f \in Fibers,
         m.parent[f] \in WaitRings
  PROVE  ring'.parent[f] = m.parent[f]
<1>1. \/ ring' = m
      \/ /\ running' \in Fibers /\ m.parent[running'] = Ready
         /\ ring'.parent = [m.parent EXCEPT ![running'] = running']
  BY SwitchKeeps
<1>2. m.parent[f] # Ready
  BY HeadsFacts
<1>3. CASE ring' = m
  BY <1>3
<1>4. CASE /\ running' \in Fibers /\ m.parent[running'] = Ready
           /\ ring'.parent = [m.parent EXCEPT ![running'] = running']
  BY <1>2, <1>4 DEF Rings, RingType
<1> QED BY <1>1, <1>3, <1>4

(* acl_fiber_schedule too.                                                 *)
LEMMA ScheduleStays ==
  ASSUME IInv, acl_fiber_schedule, NEW f \in Fibers
  PROVE  Stays(f)
<1>0. Rings(ring)
  BY DEF IInv, TypeOK, RingsWellFormed, Rings
<1>1. CASE ScheduleEnter \/ ScheduleReturn
  BY <1>1 DEF ScheduleEnter, ScheduleReturn, Stays
<1>2. CASE ScheduleRun
  BY <1>0, <1>2, SwitchStays DEF ScheduleRun, Stays
<1>3. CASE ScheduleFree
  <2> DEFINE g == First(ring, Dead)
  <2>1. /\ g \in Fibers /\ ring.parent[g] = Dead
        /\ ring'.parent = [ring.parent EXCEPT ![g] = g]
    BY <1>0, <1>3, PopKeeps, HeadsFacts DEF ScheduleFree
  <2> HIDE DEF g
  <2> QED BY <1>0, <2>1, HeadsFacts DEF Stays, Rings, RingType
<1> QED BY <1>1, <1>2, <1>3 DEF acl_fiber_schedule

(* acl_fiber_create too.                                                   *)
LEMMA CreateStays ==
  ASSUME IInv, NEW g \in Fibers, Create(g), NEW f \in Fibers
  PROVE  Stays(f) /\ (Alive(f) => f # g)
<1> DEFINE m == acl_ring_pop_head(ring, Dead)
<1>0. Rings(ring)
  BY DEF IInv, TypeOK, RingsWellFormed, Rings
<1>1. Rings(m) /\ ~Alive(g) /\ m.parent[g] = g
               /\ \A w \in WaitRings : ring.parent[f] = w => m.parent[f] = w /\ f # g
  <2>1. CASE NoEntry(ring, Dead)
    <3>1. m = ring /\ status[g] = "free"
      BY <1>0, <2>1, PopKeeps, HeadsFacts DEF Create
    <3>2. ring.parent[g] = g /\ g \notin WaitRings
      BY <3>1, HeadsFacts DEF IInv, RingsMatchStatus, Linked
    <3> QED BY <1>0, <3>1, <3>2 DEF Alive
  <2>2. CASE ~NoEntry(ring, Dead)
    <3>1. /\ g = First(ring, Dead) /\ Rings(m)
          /\ ring.parent[g] = Dead /\ m.parent = [ring.parent EXCEPT ![g] = g]
      BY <1>0, <2>2, PopKeeps, HeadsFacts DEF Create
    <3> HIDE DEF m
    <3> QED BY <1>0, <3>1, HeadsFacts DEF IInv, RingsMatchStatus, Alive, Rings, RingType
  <2> QED BY <2>1, <2>2
<1>2. ring' = acl_ring_prepend(m, Ready, g)
  BY DEF Create
<1> HIDE DEF m
<1>3. ring'.parent = [m.parent EXCEPT ![g] = Ready]
  <2>1. RingType(m, Fibers, Heads) /\ WellLinked(m, Fibers, Heads)
    BY <1>1 DEF Rings
  <2> QED BY <1>1, <1>2, <2>1, PrependKeeps, HeadsFacts
<1> QED BY <1>1, <1>3, HeadsFacts DEF Stays, Rings, RingType

(* acl_fiber_yield too.                                                    *)
LEMMA YieldStays ==
  ASSUME IInv, NEW g \in Fibers, acl_fiber_yield(g), NEW f \in Fibers
  PROVE  Stays(f)
<1> DEFINE m == acl_fiber_ready(ring, g)
<1>1. /\ Rings(ring) /\ Rings(m) /\ ring.parent[g] = g
      /\ m.parent = [ring.parent EXCEPT ![g] = Ready]
  BY RunningFiber, ReadyKeeps DEF acl_fiber_yield
<1>2. acl_fiber_switch(m)
  BY DEF acl_fiber_yield
<1> HIDE DEF m
<1>3. \A w \in WaitRings : ring.parent[f] = w => m.parent[f] = w
  BY <1>1, HeadsFacts DEF Rings, RingType
<1> QED BY <1>1, <1>2, <1>3, SwitchStays DEF Stays

(* Suspending too.                                                         *)
LEMMA SuspendStays ==
  ASSUME IInv, NEW g \in Fibers, Suspend(g), NEW f \in Fibers
  PROVE  Stays(f)
BY RunningFiber, SwitchStays DEF Suspend, Stays

(* Waking too.                                                             *)
LEMMA WakeStays ==
  ASSUME IInv, NEW g \in Fibers, Wake(g), NEW f \in Fibers
  PROVE  Stays(f)
<1>1. Rings(ring) /\ status[g] = "ready" /\ ring.parent[g] = g
  BY DEF Wake, Suspended, Alive, Linked, IInv, TypeOK, RingsWellFormed, Rings
<1>2. ring'.parent = [ring.parent EXCEPT ![g] = Ready]
  BY <1>1, ReadyKeeps DEF Wake
<1> QED BY <1>1, <1>2, HeadsFacts DEF Stays, Rings, RingType

(* Queueing up at a ring too.                                              *)
LEMMA WaitInStays ==
  ASSUME IInv, NEW g \in Fibers, NEW w \in WaitRings, WaitIn(g, w), NEW f \in Fibers
  PROVE  Stays(f) /\ (f = g => ring'.parent[f] = w)
<1> DEFINE m == acl_ring_prepend(ring, w, g)
<1>1. /\ Rings(ring) /\ Rings(m) /\ ring.parent[g] = g
      /\ m.parent = [ring.parent EXCEPT ![g] = w]
  BY RunningFiber, PrependKeeps, HeadsFacts DEF WaitIn, Rings
<1>2. acl_fiber_switch(m)
  BY DEF WaitIn
<1> HIDE DEF m
<1>3. /\ \A v \in WaitRings : ring.parent[f] = v => m.parent[f] = v
      /\ f = g => m.parent[f] = w
  BY <1>1, HeadsFacts DEF Rings, RingType
<1> QED BY <1>1, <1>2, <1>3, SwitchStays DEF Stays

(* Letting the first waiter of another ring go too.                        *)
LEMMA WakeFirstStays ==
  ASSUME IInv, NEW w \in WaitRings, WakeFirst(w), NEW f \in Fibers, f # First(ring, w)
  PROVE  Stays(f)
<1> DEFINE g == First(ring, w)
<1>1. g \in Fibers /\ ring'.parent = [ring.parent EXCEPT ![g] = Ready]
  BY ReadyFirstKeeps DEF WakeFirst
<1> HIDE DEF g
<1>2. f # g
  BY DEF g
<1> QED BY <1>1, <1>2 DEF Stays, IInv, TypeOK, RingType

(* The end of a fiber too.                                                 *)
LEMMA ExitStays ==
  ASSUME IInv, NEW g \in Fibers, fiber_exit(g), NEW f \in Fibers
  PROVE  Stays(f) /\ (Alive(f) /\ f # g => Alive(f)')
<1> DEFINE m == acl_ring_pop_head(ring, Ready)
           k == fiber_kick(m)
           d == First(m, Dead)
<1>1. Rings(ring) /\ ring.parent[g] = g
  BY RunningFiber DEF fiber_exit
<1>2. Rings(m) /\ \/ m = ring
                  \/ /\ First(ring, Ready) \in Fibers
                     /\ ring.parent[First(ring, Ready)] = Ready
                     /\ m.parent = [ring.parent EXCEPT ![First(ring, Ready)] = First(ring, Ready)]
  BY <1>1, PopKeeps, HeadsFacts
<1>3. Rings(k) /\ \/ k = m /\ Kicked(m) = {}
                  \/ /\ Kicked(m) = {d} /\ d \in Fibers /\ m.parent[d] = Dead
                     /\ k.parent = [m.parent EXCEPT ![d] = d]
  <2> HIDE DEF m
  <2> QED BY <1>2, PopKeeps, HeadsFacts DEF fiber_kick, Kicked
<1>4. /\ ring' = acl_ring_prepend(k, Dead, g)
      /\ status' = [h \in Fibers |-> IF h = g THEN "exiting"
                                     ELSE IF h \in Kicked(m) THEN "free" ELSE status[h]]
  BY DEF fiber_exit
<1> HIDE DEF m, k, d
<1>5. /\ \A w \in WaitRings : ring.parent[f] = w => m.parent[f] = w
      /\ m.parent[f] = Dead => ring.parent[f] = Dead
      /\ m.parent[g] = g
  BY <1>1, <1>2, HeadsFacts DEF Rings, RingType
<1>6. /\ \A w \in WaitRings : ring.parent[f] = w => k.parent[f] = w
      /\ k.parent[g] = g
  BY <1>2, <1>3, <1>5, HeadsFacts DEF Rings, RingType
<1>7. ring'.parent = [k.parent EXCEPT ![g] = Dead]
  <2>1. RingType(k, Fibers, Heads) /\ WellLinked(k, Fibers, Heads)
    BY <1>3 DEF Rings
  <2>2. LET p == acl_ring_prepend(k, Dead, g)
        IN  /\ RingType(p, Fibers, Heads) /\ WellLinked(p, Fibers, Heads)
            /\ p.parent = [k.parent EXCEPT ![g] = Dead]
    BY <1>6, <2>1, PrependKeeps, HeadsFacts
  <2> QED BY <1>4, <2>2
<1>8. Stays(f)
  BY <1>1, <1>3, <1>6, <1>7, HeadsFacts DEF Stays, Rings, RingType
<1>9. Alive(f) /\ f # g => Alive(f)'
  BY <1>3, <1>4, <1>5 DEF Alive, IInv, RingsMatchStatus
<1> QED BY <1>8, <1>9

(* A signal too, for those it is not sent to.                              *)
LEMMA SignalStays ==
  ASSUME IInv, NEW g \in Fibers, NEW h \in Fibers, NEW sig \in Signals,
         acl_fiber_signal(g, h, sig), NEW f \in Fibers, f # h
  PROVE  Stays(f)
<1> DEFINE m0 == acl_ring_detach(ring, g)
           m1 == acl_ring_detach(m0, h)
           m2 == acl_ring_append(m1, Ready, g)
           m3 == acl_ring_append(m2, Ready, h)
<1>1. Rings(ring) /\ ring.parent[g] = g
  BY RunningFiber DEF acl_fiber_signal
<1>2. CASE g = h
  BY <1>2 DEF acl_fiber_signal, Stays
<1>3. CASE g # h
  <2>0. m0 = ring
    BY <1>1 DEF acl_ring_detach
  <2>1. acl_fiber_switch(m3) /\ m1 = acl_ring_detach(ring, h)
    BY <1>3, <2>0 DEF acl_fiber_signal
  <2> HIDE DEF m0, m1
  <2>2. Rings(m1) /\ m1.parent = [ring.parent EXCEPT ![h] = h]
    BY <1>1, <2>1, DetachKeeps, HeadsFacts DEF Rings
  <2>3. RingType(m1, Fibers, Heads) /\ WellLinked(m1, Fibers, Heads) /\ m1.parent[g] = g
    BY <1>1, <2>2 DEF Rings, RingType
  <2>4. Rings(m2) /\ m2.parent = [m1.parent EXCEPT ![g] = Ready]
    <3>1. LET p == acl_ring_append(m1, Ready, g)
          IN  /\ RingType(p, Fibers, Heads) /\ WellLinked(p, Fibers, Heads)
              /\ p.parent = [m1.parent EXCEPT ![g] = Ready]
      BY <2>3, AppendKeeps, HeadsFacts
    <3> QED BY <3>1 DEF Rings
  <2> HIDE DEF m2
  <2>5. RingType(m2, Fibers, Heads) /\ WellLinked(m2, Fibers, Heads) /\ m2.parent[h] = h
    BY <1>1, <1>3, <2>2, <2>4 DEF Rings, RingType
  <2>6. Rings(m3) /\ m3.parent = [m2.parent EXCEPT ![h] = Ready]
    <3>1. LET p == acl_ring_append(m2, Ready, h)
          IN  /\ RingType(p, Fibers, Heads) /\ WellLinked(p, Fibers, Heads)
              /\ p.parent = [m2.parent EXCEPT ![h] = Ready]
      BY <2>5, AppendKeeps, HeadsFacts
    <3> QED BY <3>1 DEF Rings
  <2> HIDE DEF m3
  <2>7. \A w \in WaitRings : ring.parent[f] = w => m3.parent[f] = w
    BY <1>1, <2>2, <2>4, <2>6, HeadsFacts DEF Rings, RingType
  <2> QED BY <2>1, <2>6, <2>7, SwitchStays DEF Stays
<1> QED BY <1>2, <1>3

(* An operation on one ring does not fill an empty one.                    *)
LEMMA PrependElsewhere ==
  ASSUME NEW m, Rings(m), NEW h \in Heads, NEW e \in Fibers, m.parent[e] = e,
         NEW w \in Heads, w # h, NoEntry(m, w)
  PROVE  NoEntry(acl_ring_prepend(m, h, e), w)
<1>1. m.pred[h] # w
  BY DEF Rings, RingType, WellLinked, NoEntry
<1> QED BY <1>1, HeadsFacts DEF Rings, RingType, NoEntry, acl_ring_prepend

(* Inserting an entry at another head leaves a ring as it is.              *)
LEMMA AppendElsewhere ==
  ASSUME NEW m, Rings(m), NEW h \in Heads, NEW e \in Fibers, m.parent[e] = e,
         NEW w \in Heads, w # h, NoEntry(m, w)
  PROVE  NoEntry(acl_ring_append(m, h, e), w)
BY HeadsFacts DEF Rings, RingType, NoEntry, acl_ring_append

(* Detaching an entry of another ring too.                                 *)
LEMMA DetachElsewhere ==
  ASSUME NEW m, Rings(m), NEW e \in Fibers, NEW w \in Heads, NoEntry(m, w)
  PROVE  NoEntry(acl_ring_detach(m, e), w)
<1>1. m.pred[e] # w /\ e # w
  BY HeadsFacts DEF Rings, RingType, WellLinked, NoEntry
<1> QED BY <1>1 DEF Rings, RingType, NoEntry, acl_ring_detach

(* Popping the head of another ring too.                                   *)
LEMMA PopElsewhere ==
  ASSUME NEW m, Rings(m), NEW h \in Heads, NEW w \in Heads, NoEntry(m, w)
  PROVE  NoEntry(acl_ring_pop_head(m, h), w)
BY PopKeeps, DetachElsewhere DEF acl_ring_pop_head

(* A step of Next by which nobody enters w.                                *)
NextBut(w) ==
  \/ acl_fiber_schedule
  \/ \E f \in Fibers :
       \/ Create(f) \/ acl_fiber_yield(f) \/ Suspend(f) \/ fiber_exit(f) \/ Wake(f)
       \/ \E v \in WaitRings \ {w} : WaitIn(f, v)
       \/ \E g \in Fibers, sig \in Signals : acl_fiber_signal(f, g, sig)
  \/ \E v \in WaitRings : WakeFirst(v)

(* An empty waiting ring stays empty while nobody queues up there.         *)
LEMMA EmptyStays ==
  ASSUME IInv, NEW w \in WaitRings, NoEntry(ring, w), NextBut(w)
  PROVE  NoEntry(ring', w)
<1>0. Rings(ring) /\ w \in Heads /\ w # Ready /\ w # Dead
  BY HeadsFacts DEF IInv, TypeOK, RingsWellFormed, Rings
<1>1. CASE acl_fiber_schedule
  BY <1>0, <1>1, PopElsewhere, HeadsFacts
     DEF acl_fiber_schedule, ScheduleEnter, ScheduleRun, ScheduleFree, ScheduleReturn,
         acl_fiber_switch
<1>2. ASSUME NEW f \in Fibers, Create(f) PROVE NoEntry(ring', w)
  <2> DEFINE m == acl_ring_pop_head(ring, Dead)
  <2>1. Rings(m) /\ NoEntry(m, w) /\ ring' = acl_ring_prepend(m, Ready, f)
    BY <1>0, <1>2, PopKeeps, PopElsewhere, HeadsFacts DEF Create
  <2>2. m.parent[f] = f
    <3>1. CASE NoEntry(ring, Dead)
      BY <1>0, <1>2, <3>1, PopKeeps, HeadsFacts DEF Create, IInv, RingsMatchStatus, Linked
    <3>2. CASE ~NoEntry(ring, Dead)
      <4>1. f = First(ring, Dead) /\ m.parent = [ring.parent EXCEPT ![f] = f]
        BY <1>0, <1>2, <3>2, PopKeeps, HeadsFacts DEF Create
      <4> HIDE DEF m
      <4> QED BY <1>0, <4>1 DEF Rings, RingType
    <3> QED BY <3>1, <3>2
  <2> HIDE DEF m
  <2> QED BY <1>0, <2>1, <2>2, PrependElsewhere, HeadsFacts
<1>3. ASSUME NEW f \in Fibers, acl_fiber_yield(f) PROVE NoEntry(ring', w)
  <2> DEFINE m == acl_fiber_ready(ring, f)
  <2>1. Rings(m) /\ ring.parent[f] = f /\ m = acl_ring_prepend(ring, Ready, f)
    BY <1>3, RunningFiber, ReadyKeeps DEF acl_fiber_yield, acl_fiber_ready
  <2>2. ring' = acl_ring_pop_head(m, Ready)
    BY <1>3 DEF acl_fiber_yield, acl_fiber_switch
  <2> HIDE DEF m
  <2>3. NoEntry(m, w)
    BY <1>0, <2>1, PrependElsewhere, HeadsFacts
  <2> QED BY <1>0, <2>1, <2>2, <2>3, PopElsewhere, HeadsFacts
<1>4. ASSUME NEW f \in Fibers, Suspend(f) PROVE NoEntry(ring', w)
  BY <1>0, <1>4, PopElsewhere, HeadsFacts DEF Suspend, acl_fiber_switch
<1>5. ASSUME NEW f \in Fibers, Wake(f) PROVE NoEntry(ring', w)
  <2>1. ring.parent[f] = f /\ ring' = acl_ring_prepend(ring, Ready, f)
    BY <1>5 DEF Wake, Suspended, Alive, Linked, acl_fiber_ready
  <2> QED BY <1>0, <2>1, PrependElsewhere, HeadsFacts
<1>6. ASSUME NEW f \in Fibers, fiber_exit(f) PROVE NoEntry(ring', w)
  <2> DEFINE m == acl_ring_pop_head(ring, Ready)
             k == fiber_kick(m)
  <2>1. Rings(m) /\ NoEntry(m, w) /\ ring.parent[f] = f
    BY <1>0, <1>6, RunningFiber, PopKeeps, PopElsewhere, HeadsFacts DEF fiber_exit
  <2>2. m.parent[f] = f
    <3> DEFINE r == First(ring, Ready)
    <3>1. m = ring \/ (r \in Fibers /\ m.parent = [ring.parent EXCEPT ![r] = r])
      BY <1>0, PopKeeps, HeadsFacts
    <3> HIDE DEF m, r
    <3> QED BY <1>0, <2>1, <3>1 DEF Rings, RingType
  <2>3. ring' = acl_ring_prepend(k, Dead, f)
    BY <1>6 DEF fiber_exit
  <2> HIDE DEF m
  <2>4. Rings(k) /\ NoEntry(k, w)
    BY <1>0, <2>1, PopKeeps, PopElsewhere, HeadsFacts DEF fiber_kick
  <2>5. k.parent[f] = f
    <3> DEFINE d == First(m, Dead)
    <3>1. k = m \/ (d \in Fibers /\ k.parent = [m.parent EXCEPT ![d] = d])
      BY <2>1, PopKeeps, HeadsFacts DEF fiber_kick
    <3> HIDE DEF k, d
    <3> QED BY <2>1, <2>2, <3>1 DEF Rings, RingType
  <2> HIDE DEF k
  <2> QED BY <1>0, <2>3, <2>4, <2>5, PrependElsewhere, HeadsFacts
<1>7. ASSUME NEW f \in Fibers, NEW v \in WaitRings \ {w}, WaitIn(f, v) PROVE NoEntry(ring', w)
  <2> DEFINE m == acl_ring_prepend(ring, v, f)
  <2>1. ring.parent[f] = f /\ v # w /\ v \in Heads /\ ring' = acl_ring_pop_head(m, Ready)
    BY <1>7, RunningFiber, HeadsFacts DEF WaitIn, acl_fiber_switch
  <2>2. Rings(m)
    BY <1>0, <2>1, PrependKeeps, HeadsFacts DEF Rings
  <2>3. NoEntry(m, w)
    BY <1>0, <2>1, PrependElsewhere
  <2> HIDE DEF m
  <2> QED BY <1>0, <2>1, <2>2, <2>3, PopElsewhere, HeadsFacts
<1>8. ASSUME NEW v \in WaitRings, WakeFirst(v) PROVE NoEntry(ring', w)
  <2> DEFINE g == First(ring, v)
             d == acl_ring_detach(ring, g)
  <2>1. g \in Fibers /\ status[g] = "ready" /\ ring' = acl_fiber_ready(d, g)
    BY <1>8, ReadyFirstKeeps DEF WakeFirst, ReadyFirst
  <2> HIDE DEF g
  <2>2. Rings(d) /\ d.parent = [ring.parent EXCEPT ![g] = g]
    BY <1>0, <2>1, DetachKeeps, HeadsFacts DEF Rings
  <2>3. NoEntry(d, w)
    BY <1>0, <2>1, DetachElsewhere
  <2> HIDE DEF d
  <2>4. d.parent[g] = g
    BY <1>0, <2>1, <2>2 DEF Rings, RingType
  <2> QED BY <1>0, <2>1, <2>2, <2>3, <2>4, PrependElsewhere, HeadsFacts DEF acl_fiber_ready
<1>9. ASSUME NEW f \in Fibers, NEW g \in Fibers, NEW sig \in Signals,
             acl_fiber_signal(f, g, sig)
      PROVE  NoEntry(ring', w)
  <2> DEFINE m1 == acl_ring_detach(acl_ring_detach(ring, f), g)
             m2 == acl_ring_append(m1, Ready, f)
             m3 == acl_ring_append(m2, Ready, g)
  <2>1. CASE g = f
    BY <1>9, <2>1 DEF acl_fiber_signal
  <2>2. CASE g # f
    <3>1. ring.parent[f] = f /\ m1 = acl_ring_detach(ring, g)
          /\ ring' = acl_ring_pop_head(m3, Ready)
      BY <1>9, <2>2, RunningFiber DEF acl_fiber_signal, acl_fiber_switch, acl_ring_detach
    <3> HIDE DEF m1
    <3>2. Rings(m1) /\ m1.parent = [ring.parent EXCEPT ![g] = g]
      BY <1>0, <3>1, DetachKeeps, HeadsFacts DEF Rings
    <3>3. m1.parent[f] = f /\ m1.parent[g] = g /\ NoEntry(m1, w)
      <4>1. NoEntry(m1, w)
        BY <1>0, <3>1, DetachElsewhere
      <4> QED BY <1>0, <3>1, <3>2, <4>1 DEF Rings, RingType
    <3>4. Rings(m2) /\ m2.parent = [m1.parent EXCEPT ![f] = Ready]
      <4>1. LET p == acl_ring_append(m1, Ready, f)
            IN  /\ RingType(p, Fibers, Heads) /\ WellLinked(p, Fibers, Heads)
                /\ p.parent = [m1.parent EXCEPT ![f] = Ready]
        <5>1. /\ RingType(m1, Fibers, Heads) /\ WellLinked(m1, Fibers, Heads)
              /\ Fibers \cap Heads = {} /\ Ready \in Heads /\ m1.parent[f] = f
          BY <3>2, <3>3, HeadsFacts DEF Rings
        <5> QED BY <5>1, AppendKeeps
      <4> QED BY <4>1 DEF Rings
    <3>5. NoEntry(m2, w)
      BY <1>0, <3>2, <3>3, AppendElsewhere, HeadsFacts
    <3> HIDE DEF m2
    <3>6. m2.parent[g] = g
      BY <2>2, <3>2, <3>3, <3>4 DEF Rings, RingType
    <3>7. Rings(m3)
      <4>1. LET p == acl_ring_append(m2, Ready, g)
            IN  RingType(p, Fibers, Heads) /\ WellLinked(p, Fibers, Heads)
        <5>1. RingType(m2, Fibers, Heads) /\ WellLinked(m2, Fibers, Heads)
          BY <3>4 DEF Rings
        <5> QED BY <3>6, <5>1, AppendKeeps, HeadsFacts
      <4> QED BY <4>1 DEF Rings
    <3>8. NoEntry(m3, w)
      BY <1>0, <3>4, <3>5, <3>6, AppendElsewhere, HeadsFacts
    <3> HIDE DEF m3
    <3> QED BY <1>0, <3>1, <3>7, <3>8, PopElsewhere, HeadsFacts
  <2> QED BY <2>1, <2>2
<1> QED
  BY <1>1, <1>2, <1>3, <1>4, <1>5, <1>6, <1>7, <1>8, <1>9 DEF NextBut

-----------------------------------------------------------------------------
(* The queue a ring stands for.                                            *)

(* The node at place i: the head comes before the first and after the last *)
(* of the queue.                                                           *)
Place(s, h, i) == IF i \in 1 .. Len(s) THEN s[i] ELSE h

(* The ring of h has the entries of s, in that order.                      *)
Order(m, h, s) ==
  /\ s \in Seq(Fibers)
  /\ Len(s) = m.len[h]
  /\ \A i \in 1 .. Len(s) : m.parent[s[i]] = h
  /\ \A f \in Fibers : m.parent[f] = h => \E i \in 1 .. Len(s) : s[i] = f
  /\ \A i, j \in 1 .. Len(s) : s[i] = s[j] => i = j
  /\ \A i \in 0 .. Len(s) : m.succ[Place(s, h, i)] = Place(s, h, i + 1)

(* Walking the ring gives that queue.                                      *)
LEMMA OrderIsWalk ==
  ASSUME NEW m, NEW h, NEW s, Order(m, h, s)
  PROVE  Walk(m, h) = s
<1>1. PICK n \in Nat : n = Len(s) /\ n = m.len[h]
  BY DEF Order
<1> DEFINE IsNode(f) == f = [i \in 0 .. n |-> IF i = 0 THEN h ELSE m.succ[f[i - 1]]]
<1>2. PICK place : place = [i \in 0 .. n |-> Place(s, h, i)]
  OBVIOUS
<1>3. place[0] = h /\ \A i \in 1 .. n : place[i] = s[i] /\ place[i] = m.succ[place[i - 1]]
  <2>1. place[0] = h
    BY <1>2 DEF Place
  <2>2. ASSUME NEW i \in 1 .. n PROVE place[i] = s[i] /\ place[i] = m.succ[place[i - 1]]
    <3>1. i \in 0 .. n /\ i - 1 \in 0 .. n /\ (i - 1) + 1 = i
      OBVIOUS
    <3>2. m.succ[Place(s, h, i - 1)] = Place(s, h, i)
      BY <1>1, <3>1 DEF Order
    <3> QED BY <1>1, <1>2, <3>1, <3>2 DEF Place
  <2> QED BY <2>1, <2>2
<1>4. IsNode(place)
  <2>1. \A i \in 0 .. n : i = 0 \/ i \in 1 .. n
    OBVIOUS
  <2>2. \A i \in 0 .. n : place[i] = IF i = 0 THEN h ELSE m.succ[place[i - 1]]
    BY <1>3, <2>1
  <2>3. place = [i \in 0 .. n |-> place[i]]
    BY <1>2
  <2> QED BY <2>2, <2>3
<1>5. PICK node : node = (CHOOSE f : IsNode(f))
  OBVIOUS
<1>6. IsNode(node)
  BY <1>4, <1>5
<1>7. Walk(m, h) = [i \in 1 .. n |-> node[i]]
  BY <1>1, <1>5 DEF Walk
<1>8. node[0] = h /\ \A i \in 1 .. n : node[i] = m.succ[node[i - 1]]
  <2>1. 0 \in 0 .. n /\ \A i \in 1 .. n : i \in 0 .. n /\ i # 0
    OBVIOUS
  <2> QED BY <1>6, <2>1
<1>9. \A i \in 0 .. n : node[i] = place[i]
  BY <1>3, <1>8, AgreeThroughout
<1>10. \A i \in 1 .. n : node[i] = s[i]
  <2>1. \A i \in 1 .. n : i \in 0 .. n
    OBVIOUS
  <2> QED BY <1>3, <1>9, <2>1
<1>11. s = [i \in 1 .. n |-> s[i]]
  BY <1>1 DEF Order
<1> QED BY <1>7, <1>10, <1>11

(* What the two neighbours of each node of the ring are.                   *)
LEMMA OrderLinks ==
  ASSUME NEW m, Rings(m), NEW h \in Heads, NEW s, Order(m, h, s)
  PROVE  /\ Len(s) \in Nat
         /\ m.parent[h] = h /\ h \notin Fibers
         /\ \A i \in 1 .. Len(s) : s[i] \in Fibers /\ s[i] # h
         /\ \A i \in 0 .. Len(s) : m.pred[Place(s, h, i + 1)] = Place(s, h, i)
         /\ m.succ[h] = IF s = << >> THEN h ELSE s[1]
         /\ m.pred[h] = IF s = << >> THEN h ELSE s[Len(s)]
         /\ NoEntry(m, h) <=> s = << >>
         /\ s # << >> => Len(s) > 0 /\ First(m, h) = Head(s) /\ Head(s) = s[1]
<1>1. Len(s) \in Nat /\ m.parent[h] = h /\ h \notin Fibers
  BY HeadsFacts DEF Order, Rings, WellLinked
<1>2. \A i \in 1 .. Len(s) : s[i] \in Fibers /\ s[i] # h
  BY <1>1 DEF Order
<1>3. \A i \in Int : Place(s, h, i) \in Fibers \cup Heads
  BY <1>2 DEF Place
<1>4. \A i \in 0 .. Len(s) : m.pred[Place(s, h, i + 1)] = Place(s, h, i)
  <2> TAKE i \in 0 .. Len(s)
  <2>1. m.succ[Place(s, h, i)] = Place(s, h, i + 1) /\ Place(s, h, i) \in Fibers \cup Heads
    BY <1>1, <1>3 DEF Order
  <2> QED BY <2>1 DEF Rings, WellLinked
<1>5. (s = << >> <=> Len(s) = 0) /\ (s # << >> => Head(s) = s[1])
  BY DEF Order
<1>6. m.succ[h] = IF s = << >> THEN h ELSE s[1]
  <2>1. m.succ[Place(s, h, 0)] = Place(s, h, 0 + 1)
    BY <1>1 DEF Order
  <2> QED BY <1>1, <1>5, <2>1 DEF Place
<1>7. m.pred[h] = IF s = << >> THEN h ELSE s[Len(s)]
  <2>1. m.pred[Place(s, h, Len(s) + 1)] = Place(s, h, Len(s))
    BY <1>1, <1>4
  <2> QED BY <1>1, <1>5, <2>1 DEF Place
<1> QED BY <1>1, <1>2, <1>4, <1>5, <1>6, <1>7 DEF NoEntry, First

(* An operation that leaves the entries of a ring where they are leaves    *)
(* their order.                                                            *)
LEMMA OrderElsewhere ==
  ASSUME NEW m, NEW p, NEW g, NEW s, Order(m, g, s),
         \A f \in Fibers : p.parent[f] = g <=> m.parent[f] = g,
         \A n \in {g} \cup {f \in Fibers : m.parent[f] = g} : p.succ[n] = m.succ[n],
         p.len[g] = m.len[g]
  PROVE  Order(p, g, s)
<1>1. \A i \in 1 .. Len(s) : s[i] \in Fibers /\ m.parent[s[i]] = g
  BY DEF Order
<1>2. \A i \in 0 .. Len(s) : p.succ[Place(s, g, i)] = m.succ[Place(s, g, i)]
  BY <1>1 DEF Place
<1> QED BY <1>1, <1>2 DEF Order

(* Queueing an entry puts it at the end.                                   *)
LEMMA PrependOrder ==
  ASSUME NEW m, Rings(m), NEW h \in Heads, NEW e \in Fibers, m.parent[e] = e,
         NEW g \in Heads, NEW s, Order(m, g, s)
  PROVE  Order(acl_ring_prepend(m, h, e), g, IF g = h THEN Append(s, e) ELSE s)
<1> DEFINE p == acl_ring_prepend(m, h, e)
<1>0. /\ m.parent[h] = h /\ e # h /\ h \notin Fibers /\ g \notin Fibers
      /\ m.succ[e] = e /\ e \notin Heads
      /\ m.succ[m.pred[h]] = h /\ m.pred[h] # e /\ m.pred[h] \in Fibers \cup Heads
      /\ m.parent[m.pred[h]] = h
  <2>1. m.parent[h] = h /\ e # h /\ h \notin Fibers /\ g \notin Fibers /\ m.succ[e] = e /\ e \notin Heads
    BY HeadsFacts DEF Rings, WellLinked
  <2>2. m.pred[h] \in Fibers \cup Heads /\ m.succ[m.pred[h]] = h
    BY DEF Rings, RingType, WellLinked
  <2>3. m.parent[m.pred[h]] = h
    BY <2>1, <2>2 DEF Rings, RingType, WellLinked
  <2> QED BY <2>1, <2>2, <2>3
<1>1. /\ p.parent = [m.parent EXCEPT ![e] = h]
      /\ p.len = [m.len EXCEPT ![h] = @ + 1]
      /\ p.succ = [m.succ EXCEPT ![e] = h, ![m.pred[h]] = e]
  BY <1>0 DEF acl_ring_prepend
<1> HIDE DEF p
<1>2. CASE g # h
  <2>1. \A n \in {g} \cup {f \in Fibers : m.parent[f] = g} : n # e /\ n # m.pred[h]
    <3>1. m.parent[g] = g
      BY DEF Rings, WellLinked
    <3> QED BY <1>0, <1>2, <3>1, HeadsFacts
  <2>2. \A n \in {g} \cup {f \in Fibers : m.parent[f] = g} : p.succ[n] = m.succ[n]
    BY <1>1, <2>1 DEF Rings, RingType
  <2>3. \A f \in Fibers : p.parent[f] = g <=> m.parent[f] = g
    BY <1>0, <1>1, <1>2 DEF Rings, RingType
  <2>4. p.len[g] = m.len[g]
    BY <1>1, <1>2 DEF Rings, RingType
  <2>5. Order(p, g, s)
    BY <2>2, <2>3, <2>4, OrderElsewhere
  <2> QED BY <1>2, <2>5 DEF p
<1>3. CASE g = h
  <2> DEFINE t == Append(s, e)
             n == Len(s)
  <2>1. /\ t \in Seq(Fibers) /\ Len(t) = n + 1 /\ n \in Nat
        /\ t[n + 1] = e /\ \A i \in 1 .. n : t[i] = s[i]
    BY DEF Order
  <2>2. p.len[h] = n + 1
    BY <1>1, <1>3 DEF Order, Rings, RingType
  <2>3. \A i \in 1 .. n : s[i] \in Fibers /\ s[i] # e /\ m.parent[s[i]] = h
    BY <1>0, <1>3, <2>1 DEF Order
  <2>4. \A i \in 1 .. n + 1 : p.parent[t[i]] = h
    <3>1. \A i \in 1 .. n + 1 : i = n + 1 \/ i \in 1 .. n
      BY <2>1
    <3> HIDE DEF t, n
    <3> QED BY <1>1, <2>1, <2>3, <3>1 DEF Rings, RingType
  <2>5. \A f \in Fibers : p.parent[f] = h => \E i \in 1 .. n + 1 : t[i] = f
    <3> TAKE f \in Fibers
    <3>1. CASE f = e
      BY <2>1, <3>1
    <3>2. CASE f # e
      <4>1. p.parent[f] = h => \E i \in 1 .. n : s[i] = f
        BY <1>1, <1>3, <3>2 DEF Order, Rings, RingType
      <4> QED BY <2>1, <4>1
    <3> QED BY <3>1, <3>2
  <2>6. \A i, j \in 1 .. n + 1 : t[i] = t[j] => i = j
    <3>1. \A i \in 1 .. n + 1 : i = n + 1 \/ i \in 1 .. n
      BY <2>1
    <3>2. \A i, j \in 1 .. n : s[i] = s[j] => i = j
      BY DEF Order
    <3> HIDE DEF t, n
    <3> QED BY <2>1, <2>3, <3>1, <3>2
  <2>7. \A i \in 0 .. n + 1 : p.succ[Place(t, h, i)] = Place(t, h, i + 1)
    <3> TAKE i \in 0 .. n + 1
    <3>1. m.pred[h] = Place(s, h, n)
      <4>1. m.pred[h] = IF s = << >> THEN h ELSE s[n]
        BY <1>3, OrderLinks
      <4>2. s = << >> <=> n = 0
        BY <2>1 DEF Order
      <4> QED BY <2>1, <4>1, <4>2 DEF Place
    <3>2. CASE i = n + 1
      <4>1. Place(t, h, i) = e /\ Place(t, h, i + 1) = h
        BY <2>1, <3>2 DEF Place
      <4> QED BY <1>0, <1>1, <4>1 DEF Rings, RingType
    <3>3. CASE i = n
      <4>1. Place(t, h, i) = Place(s, h, n) /\ Place(t, h, i + 1) = e
        BY <2>1, <3>3 DEF Place
      <4> QED BY <1>0, <1>1, <3>1, <4>1 DEF Rings, RingType
    <3>4. CASE i < n
      <4>1. Place(t, h, i) = Place(s, h, i) /\ Place(t, h, i + 1) = Place(s, h, i + 1)
        BY <2>1, <3>4 DEF Place
      <4>2. Place(s, h, i) # e /\ Place(s, h, i) \in Fibers \cup Heads
        BY <1>0, <2>3, <3>4 DEF Place
      <4>3. Place(s, h, i) # Place(s, h, n)
        <5>1. CASE i = 0
          BY <2>1, <2>3, <3>4, <5>1, <1>0 DEF Place
        <5>2. CASE i # 0
          <6>1. i \in 1 .. n /\ n \in 1 .. n /\ i # n
            BY <2>1, <3>4, <5>2
          <6> QED BY <6>1 DEF Place, Order
        <5> QED BY <5>1, <5>2
      <4>4. p.succ[Place(s, h, i)] = m.succ[Place(s, h, i)]
        BY <1>1, <3>1, <4>2, <4>3 DEF Rings, RingType
      <4>5. m.succ[Place(s, h, i)] = Place(s, h, i + 1)
        BY <1>3, <2>1, <3>4 DEF Order
      <4> QED BY <4>1, <4>4, <4>5
    <3> QED BY <2>1, <3>2, <3>3, <3>4
  <2>8. Order(p, h, t)
    BY <2>1, <2>2, <2>4, <2>5, <2>6, <2>7 DEF Order
  <2> QED BY <1>3, <2>8 DEF p
<1> QED BY <1>2, <1>3

(* Inserting one right after the head puts it in front.                    *)
LEMMA AppendOrder ==
  ASSUME NEW m, Rings(m), NEW h \in Heads, NEW e \in Fibers, m.parent[e] = e,
         NEW g \in Heads, NEW s, Order(m, g, s)
  PROVE  Order(acl_ring_append(m, h, e), g, IF g = h THEN <<e>> \o s ELSE s)
<1> DEFINE p == acl_ring_append(m, h, e)
<1>0. /\ m.parent[h] = h /\ e # h /\ h \notin Fibers /\ g \notin Fibers /\ e \notin Heads
      /\ m.succ[h] \in Fibers \cup Heads /\ m.succ[h] # e
  <2>1. m.parent[h] = h /\ e # h /\ h \notin Fibers /\ g \notin Fibers /\ e \notin Heads
    BY HeadsFacts DEF Rings, WellLinked
  <2>2. m.succ[h] \in Fibers \cup Heads /\ m.parent[m.succ[h]] = h
    BY <2>1 DEF Rings, RingType, WellLinked
  <2> QED BY <2>1, <2>2
<1>1. /\ p.parent = [m.parent EXCEPT ![e] = h]
      /\ p.len = [m.len EXCEPT ![h] = @ + 1]
      /\ p.succ = [m.succ EXCEPT ![e] = m.succ[h], ![h] = e]
  BY <1>0 DEF acl_ring_append
<1> HIDE DEF p
<1>2. CASE g # h
  <2>1. \A n \in {g} \cup {f \in Fibers : m.parent[f] = g} : n # e /\ n # h
    BY <1>0, <1>2, HeadsFacts
  <2>2. \A n \in {g} \cup {f \in Fibers : m.parent[f] = g} : p.succ[n] = m.succ[n]
    BY <1>1, <2>1 DEF Rings, RingType
  <2>3. \A f \in Fibers : p.parent[f] = g <=> m.parent[f] = g
    BY <1>0, <1>1, <1>2 DEF Rings, RingType
  <2>4. p.len[g] = m.len[g]
    BY <1>1, <1>2 DEF Rings, RingType
  <2>5. Order(p, g, s)
    BY <2>2, <2>3, <2>4, OrderElsewhere
  <2> QED BY <1>2, <2>5 DEF p
<1>3. CASE g = h
  <2> DEFINE t == <<e>> \o s
             n == Len(s)
  <2>1. /\ t \in Seq(Fibers) /\ Len(t) = n + 1 /\ n \in Nat
        /\ t[1] = e /\ \A i \in 1 .. n : t[i + 1] = s[i]
    BY DEF Order
  <2>2. p.len[h] = n + 1
    BY <1>1, <1>3 DEF Order, Rings, RingType
  <2>3. \A i \in 1 .. n : s[i] \in Fibers /\ s[i] # e /\ m.parent[s[i]] = h
    BY <1>0, <1>3, <2>1 DEF Order
  <2>0. ASSUME NEW i \in 1 .. n + 1 PROVE i = 1 \/ (i - 1 \in 1 .. n /\ t[i] = s[i - 1])
    <3>1. i = 1 \/ (i - 1 \in 1 .. n /\ (i - 1) + 1 = i)
      BY <2>1
    <3> HIDE DEF t, n
    <3> QED BY <2>1, <3>1
  <2>4. ASSUME NEW i \in 1 .. n + 1 PROVE p.parent[t[i]] = h
    <3>1. i = 1 \/ (i - 1 \in 1 .. n /\ t[i] = s[i - 1])
      BY <2>0
    <3> HIDE DEF t, n
    <3> QED BY <1>1, <2>1, <2>3, <3>1 DEF Rings, RingType
  <2>5. \A f \in Fibers : p.parent[f] = h => \E i \in 1 .. n + 1 : t[i] = f
    <3> TAKE f \in Fibers
    <3>1. CASE f = e
      BY <2>1, <3>1
    <3>2. CASE f # e
      <4>1. p.parent[f] = h => \E i \in 1 .. n : s[i] = f
        BY <1>1, <1>3, <3>2 DEF Order, Rings, RingType
      <4>2. \A i \in 1 .. n : i + 1 \in 1 .. n + 1
        BY <2>1
      <4> HIDE DEF t, n
      <4> QED BY <2>1, <4>1, <4>2
    <3> QED BY <3>1, <3>2
  <2>6. \A i, j \in 1 .. n + 1 : t[i] = t[j] => i = j
    <3>2. \A i, j \in 1 .. n : s[i] = s[j] => i = j
      BY DEF Order
    <3>3. SUFFICES ASSUME NEW i \in 1 .. n + 1, NEW j \in 1 .. n + 1, t[i] = t[j] PROVE i = j
      OBVIOUS
    <3> HIDE DEF t
    <3>4. (i = 1 \/ (i - 1 \in 1 .. n /\ t[i] = s[i - 1])) /\ (j = 1 \/ (j - 1 \in 1 .. n /\ t[j] = s[j - 1]))
      BY <2>0
    <3> QED BY <2>1, <2>3, <3>2, <3>3, <3>4
  <2>7. \A i \in 0 .. n + 1 : p.succ[Place(t, h, i)] = Place(t, h, i + 1)
    <3> TAKE i \in 0 .. n + 1
    <3>1. CASE i = 0
      <4>1. Place(t, h, i) = h /\ Place(t, h, i + 1) = e
        BY <2>1, <3>1 DEF Place
      <4> QED BY <1>0, <1>1, <4>1 DEF Rings, RingType
    <3>2. CASE i = 1
      <4>1. Place(t, h, i) = e /\ Place(t, h, i + 1) = Place(s, h, 1)
        <5>1. 2 \in 1 .. n + 1 <=> 1 \in 1 .. n
          BY <2>1
        <5> HIDE DEF t, n
        <5>2. Place(t, h, 1) = e
          BY <2>1 DEF Place
        <5>3. CASE 1 \in 1 .. n
          <6>1. t[2] = s[1]
            BY <2>1, <5>3
          <6> QED BY <2>1, <3>2, <5>1, <5>2, <5>3, <6>1 DEF Place, n
        <5>4. CASE 1 \notin 1 .. n
          BY <2>1, <3>2, <5>1, <5>2, <5>4 DEF Place, n
        <5> QED BY <5>3, <5>4
      <4>2. m.succ[h] = Place(s, h, 1)
        <5>1. m.succ[Place(s, h, 0)] = Place(s, h, 0 + 1)
          BY <1>3, <2>1 DEF Order
        <5> QED BY <5>1 DEF Place
      <4> QED BY <1>0, <1>1, <4>1, <4>2 DEF Rings, RingType
    <3>3. CASE i > 1
      <4>0. i - 1 \in 1 .. n /\ i \in 1 .. n + 1 /\ (i - 1) + 1 = i
        BY <2>1, <3>3
      <4>1. Place(t, h, i) = Place(s, h, i - 1) /\ Place(t, h, i + 1) = Place(s, h, i)
        <5>1. t[i] = s[i - 1] /\ (i \in 1 .. n => t[i + 1] = s[i])
          <6> HIDE DEF t, n
          <6> QED BY <2>1, <4>0
        <5>2. i + 1 \in 1 .. n + 1 <=> i \in 1 .. n
          BY <2>1, <3>3
        <5> HIDE DEF t
        <5> QED BY <2>1, <4>0, <5>1, <5>2 DEF Place
      <4>2. Place(s, h, i - 1) # e /\ Place(s, h, i - 1) # h /\ Place(s, h, i - 1) \in Fibers
        BY <1>0, <2>3, <4>0 DEF Place
      <4>3. p.succ[Place(s, h, i - 1)] = m.succ[Place(s, h, i - 1)]
        BY <1>1, <4>2 DEF Rings, RingType
      <4>4. m.succ[Place(s, h, i - 1)] = Place(s, h, i)
        BY <1>3, <2>1, <4>0 DEF Order
      <4> QED BY <4>1, <4>3, <4>4
    <3> QED BY <2>1, <3>1, <3>2, <3>3
  <2>8. Order(p, h, t)
    BY <2>1, <2>2, <2>4, <2>5, <2>6, <2>7 DEF Order
  <2> QED BY <1>3, <2>8 DEF p
<1> QED BY <1>2, <1>3

(* What is left of a queue without one of its members.                     *)
LEMMA WithoutIs ==
  ASSUME NEW S, NEW s \in Seq(S), \A i, j \in 1 .. Len(s) : s[i] = s[j] => i = j,
         NEW k \in 1 .. Len(s)
  PROVE  Without(s, s[k]) = [i \in 1 .. Len(s) - 1 |-> IF i < k THEN s[i] ELSE s[i + 1]]
<1>1. (CHOOSE i \in 1 .. Len(s) : s[i] = s[k]) = k
  OBVIOUS
<1> QED BY <1>1 DEF Without

(* Detaching an entry leaves the others in their order.                    *)
LEMMA DetachOrder ==
  ASSUME NEW m, Rings(m), NEW e \in Fibers, NEW g \in Heads, NEW s, Order(m, g, s)
  PROVE  Order(acl_ring_detach(m, e), g, Without(s, e))
<1> DEFINE d == acl_ring_detach(m, e)
<1>0. CASE m.parent[e] = e
  <2>1. d = m
    BY <1>0 DEF acl_ring_detach
  <2>2. ~\E i \in 1 .. Len(s) : s[i] = e
    BY <1>0, HeadsFacts DEF Order
  <2> QED BY <2>1, <2>2 DEF Without
<1>1. CASE m.parent[e] # e
  <2> DEFINE h == m.parent[e]
  <2>1. /\ h \in Heads /\ h \notin Fibers /\ e # h
        /\ m.succ[m.pred[e]] = e /\ m.pred[e] \in Fibers \cup Heads
        /\ m.parent[m.pred[e]] = h
    <3>1. h \in Heads /\ h \notin Fibers /\ m.succ[m.pred[e]] = e /\ m.pred[e] \in Fibers \cup Heads
      BY <1>1, HeadsFacts DEF Rings, RingType, WellLinked
    <3>2. m.parent[m.succ[m.pred[e]]] = m.parent[m.pred[e]]
      BY <3>1 DEF Rings, WellLinked
    <3> QED BY <3>1, <3>2
  <2>2. /\ d.parent = [m.parent EXCEPT ![e] = e]
        /\ d.len = [m.len EXCEPT ![h] = @ - 1, ![e] = 0]
        /\ d.succ = [m.succ EXCEPT ![m.pred[e]] = m.succ[e], ![e] = e]
    BY <1>1 DEF acl_ring_detach
  <2> HIDE DEF d
  <2>3. CASE g # h
    <3>1. \A n \in {g} \cup {f \in Fibers : m.parent[f] = g} : n # e /\ n # m.pred[e]
      <4>1. m.parent[g] = g
        BY DEF Rings, WellLinked
      <4> QED BY <2>1, <2>3, <4>1, HeadsFacts
    <3>2. \A n \in {g} \cup {f \in Fibers : m.parent[f] = g} : d.succ[n] = m.succ[n]
      BY <2>2, <3>1 DEF Rings, RingType
    <3>3. \A f \in Fibers : d.parent[f] = g <=> m.parent[f] = g
      BY <2>1, <2>2, <2>3, HeadsFacts DEF Rings, RingType
    <3>4. d.len[g] = m.len[g]
      BY <2>2, <2>3, HeadsFacts DEF Rings, RingType
    <3>5. Order(d, g, s)
      BY <3>2, <3>3, <3>4, OrderElsewhere
    <3>6. ~\E i \in 1 .. Len(s) : s[i] = e
      BY <2>3 DEF Order
    <3> QED BY <3>5, <3>6 DEF Without, d
  <2>4. CASE g = h
    <3>1. PICK k \in 1 .. Len(s) : s[k] = e
      BY <2>4 DEF Order
    <3> DEFINE n == Len(s)
               t == [i \in 1 .. n - 1 |-> IF i < k THEN s[i] ELSE s[i + 1]]
    <3>2. Without(s, e) = t /\ n \in Nat
      <4>1. s \in Seq(Fibers) /\ \A i, j \in 1 .. Len(s) : s[i] = s[j] => i = j
        BY DEF Order
      <4>2. Without(s, s[k]) = t
        BY <4>1, WithoutIs
      <4> QED BY <3>1, <4>1, <4>2
    <3>3. \A i \in 1 .. n - 1 : /\ i \in 1 .. n /\ i + 1 \in 1 .. n
                               /\ t[i] = IF i < k THEN s[i] ELSE s[i + 1]
      BY <3>2
    <3>4. \A i \in 1 .. n : s[i] \in Fibers /\ m.parent[s[i]] = h
      BY <2>4, <3>2 DEF Order
    <3>5. \A i, j \in 1 .. n : s[i] = s[j] => i = j
      BY DEF Order
    <3>6. t \in Seq(Fibers) /\ Len(t) = n - 1
      <4>1. n - 1 \in Nat
        BY <3>1, <3>2
      <4>2. t \in [1 .. n - 1 -> Fibers]
        BY <3>3, <3>4
      <4> HIDE DEF t
      <4> QED BY <4>1, <4>2
    <3>7. d.len[h] = n - 1
      BY <2>1, <2>2, <2>4 DEF Order, Rings, RingType
    <3>8. \A i \in 1 .. n - 1 : t[i] # e
      <4> HIDE DEF t, n
      <4> QED BY <3>1, <3>2, <3>3, <3>5 DEF n
    <3>9. \A i \in 1 .. n - 1 : d.parent[t[i]] = h
      <4>1. \A i \in 1 .. n - 1 : t[i] \in Fibers /\ m.parent[t[i]] = h
        BY <3>3, <3>4
      <4> HIDE DEF t, n
      <4> QED BY <2>2, <3>8, <4>1 DEF Rings, RingType
    <3>10. \A f \in Fibers : d.parent[f] = h => \E i \in 1 .. n - 1 : t[i] = f
      <4> SUFFICES ASSUME NEW f \in Fibers, d.parent[f] = h PROVE \E i \in 1 .. n - 1 : t[i] = f
        OBVIOUS
      <4>1. f # e /\ m.parent[f] = h
        BY <2>1, <2>2 DEF Rings, RingType
      <4>2. PICK j \in 1 .. n : s[j] = f
        BY <2>4, <4>1 DEF Order
      <4>3. j # k
        BY <3>1, <4>1, <4>2
      <4>4. CASE j < k
        <5>1. j \in 1 .. n - 1
          BY <3>1, <4>4
        <5> QED BY <3>3, <4>2, <4>4, <5>1
      <4>5. CASE j > k
        <5>1. j - 1 \in 1 .. n - 1 /\ ~(j - 1 < k) /\ (j - 1) + 1 = j
          BY <3>1, <3>2, <4>5
        <5> HIDE DEF t, n
        <5> QED BY <3>3, <4>2, <5>1
      <4> QED BY <4>3, <4>4, <4>5
    <3>11. \A i, j \in 1 .. n - 1 : t[i] = t[j] => i = j
      <4> SUFFICES ASSUME NEW i \in 1 .. n - 1, NEW j \in 1 .. n - 1, t[i] = t[j] PROVE i = j
        OBVIOUS
      <4>1. (IF i < k THEN i ELSE i + 1) \in 1 .. n /\ (IF j < k THEN j ELSE j + 1) \in 1 .. n
        BY <3>3
      <4>2. s[IF i < k THEN i ELSE i + 1] = s[IF j < k THEN j ELSE j + 1]
        BY <3>3
      <4>3. (IF i < k THEN i ELSE i + 1) = (IF j < k THEN j ELSE j + 1)
        BY <3>5, <4>1, <4>2
      <4> QED BY <4>3
    <3>12. \A i \in 0 .. n - 1 : d.succ[Place(t, h, i)] = Place(t, h, i + 1)
      <4> TAKE i \in 0 .. n - 1
      <4>0. \A j \in 0 .. n : m.succ[Place(s, h, j)] = Place(s, h, j + 1)
        BY <2>4 DEF Order
      <4>1. m.pred[e] = Place(s, h, k - 1) /\ m.succ[e] = Place(s, h, k + 1)
        <5>1. k - 1 \in 0 .. n /\ (k - 1) + 1 = k /\ k \in 0 .. n
          BY <3>1
        <5>2. m.pred[Place(s, h, k)] = Place(s, h, k - 1)
          BY <2>1, <2>4, <5>1, OrderLinks
        <5>3. Place(s, h, k) = e
          BY <3>1 DEF Place
        <5> QED BY <4>0, <5>1, <5>2, <5>3
      <4>2. \A j \in 0 .. n : Place(t, h, j) = IF j < k THEN Place(s, h, j) ELSE Place(s, h, j + 1)
        <5> TAKE j \in 0 .. n
        <5>1. CASE j \in 1 .. n - 1
          BY <3>2, <3>3, <3>6, <5>1 DEF Place
        <5>2. CASE j = 0
          BY <3>1, <3>6, <5>2 DEF Place
        <5>3. CASE j = n
          <6>1. ~(j < k) /\ j \notin 1 .. n - 1 /\ j + 1 \notin 1 .. n
            BY <3>1, <3>2, <5>3
          <6> HIDE DEF t
          <6> QED BY <3>6, <6>1 DEF Place
        <5> QED BY <3>2, <5>1, <5>2, <5>3
      <4>3. CASE i = k - 1
        <5>1. i < k /\ ~(i + 1 < k) /\ i + 1 = k /\ i \in 0 .. n /\ i + 1 \in 0 .. n
          BY <3>1, <3>2, <4>3
        <5>2. Place(t, h, i) = Place(s, h, k - 1) /\ Place(t, h, i + 1) = Place(s, h, k + 1)
          <6> HIDE DEF t, n
          <6> QED BY <3>1, <4>2, <4>3, <5>1
        <5>3. Place(s, h, k - 1) # e
          BY <2>1, <3>1, <3>5 DEF Place
        <5> QED BY <2>1, <2>2, <4>1, <5>2, <5>3 DEF Rings, RingType
      <4>4. CASE i # k - 1
        <5> DEFINE j == IF i < k THEN i ELSE i + 1
        <5>1. /\ j \in 0 .. n /\ j # k /\ j # k - 1 /\ i \in 0 .. n /\ i + 1 \in 0 .. n
              /\ IF i + 1 < k THEN j + 1 = i + 1 ELSE j + 1 = (i + 1) + 1
          BY <3>1, <3>2, <4>4
        <5>2. Place(t, h, i) = Place(s, h, j) /\ Place(t, h, i + 1) = Place(s, h, j + 1)
          <6>1. i < k \/ ~(i < k)
            OBVIOUS
          <6> HIDE DEF t, n
          <6> QED BY <4>2, <5>1
        <5> HIDE DEF j
        <5>3. /\ Place(s, h, j) # e /\ Place(s, h, j) # Place(s, h, k - 1)
              /\ Place(s, h, j) \in Fibers \cup Heads
          <6>1. \A a, b \in 0 .. n : Place(s, h, a) = Place(s, h, b) => a = b
            BY <2>1, <3>4, <3>5 DEF Place
          <6>2. Place(s, h, k) = e /\ k \in 0 .. n /\ k - 1 \in 0 .. n
            BY <3>1 DEF Place
          <6>3. Place(s, h, j) \in Fibers \cup Heads
            BY <2>1, <3>4 DEF Place
          <6> QED BY <5>1, <6>1, <6>2, <6>3
        <5>4. d.succ[Place(s, h, j)] = m.succ[Place(s, h, j)]
          BY <2>2, <4>1, <5>3 DEF Rings, RingType
        <5> QED BY <4>0, <5>1, <5>2, <5>4
      <4> QED BY <4>3, <4>4
    <3>13. Order(d, h, t)
      <4> HIDE DEF t
      <4> QED BY <3>6, <3>7, <3>9, <3>10, <3>11, <3>12 DEF Order
    <3> QED BY <2>4, <3>2, <3>13 DEF d
  <2> QED BY <2>3, <2>4
<1> QED BY <1>0, <1>1

(* All rings are proper, and each one stands for a queue.                  *)
Queues(m) == Rings(m) /\ \A h \in Heads : Order(m, h, Walk(m, h))

(* In such a ring memory the walk has exactly the entries of the ring.     *)
LEMMA QueueFacts ==
  ASSUME NEW m, Queues(m), NEW h \in Heads
  PROVE  LET q == Walk(m, h)
         IN  /\ q \in Seq(Fibers) /\ Len(q) \in Nat /\ m.len[h] = Len(q)
             /\ \A i, j \in 1 .. Len(q) : q[i] = q[j] => i = j
             /\ \A i \in 1 .. Len(q) : q[i] \in Fibers /\ m.parent[q[i]] = h
             /\ \A f \in Fibers : m.parent[f] = h <=> \E i \in 1 .. Len(q) : q[i] = f
             /\ NoEntry(m, h) <=> q = << >>
             /\ q # << >> => First(m, h) = Head(q) /\ Head(q) = q[1] /\ Len(q) > 0
<1> DEFINE q == Walk(m, h)
<1>1. Order(m, h, q) /\ Rings(m)
  BY DEF Queues
<1> HIDE DEF q
<1>2. /\ NoEntry(m, h) <=> q = << >>
      /\ q # << >> => First(m, h) = Head(q) /\ Head(q) = q[1] /\ Len(q) > 0
  BY <1>1, OrderLinks
<1>3. /\ q \in Seq(Fibers) /\ Len(q) \in Nat /\ m.len[h] = Len(q)
      /\ \A i, j \in 1 .. Len(q) : q[i] = q[j] => i = j
      /\ \A i \in 1 .. Len(q) : q[i] \in Fibers /\ m.parent[q[i]] = h
      /\ \A f \in Fibers : m.parent[f] = h <=> \E i \in 1 .. Len(q) : q[i] = f
  BY <1>1 DEF Order
<1> QED BY <1>2, <1>3 DEF q

(* Queueing a detached entry: it is the last of its queue.                 *)
LEMMA PrependQueues ==
  ASSUME NEW m, Queues(m), NEW h \in Heads, NEW e \in Fibers, m.parent[e] = e
  PROVE  LET p == acl_ring_prepend(m, h, e)
         IN  /\ Queues(p) /\ p.parent = [m.parent EXCEPT ![e] = h]
             /\ Walk(p, h) = Append(Walk(m, h), e)
             /\ \A g \in Heads \ {h} : Walk(p, g) = Walk(m, g)
<1> DEFINE p == acl_ring_prepend(m, h, e)
<1>1. Rings(m) /\ \A g \in Heads : Order(m, g, Walk(m, g))
  BY DEF Queues
<1>2. Rings(p) /\ p.parent = [m.parent EXCEPT ![e] = h]
  <2>1. RingType(m, Fibers, Heads) /\ WellLinked(m, Fibers, Heads)
    BY <1>1 DEF Rings
  <2>2. LET r == acl_ring_prepend(m, h, e)
        IN  RingType(r, Fibers, Heads) /\ WellLinked(r, Fibers, Heads)
            /\ r.parent = [m.parent EXCEPT ![e] = h]
    BY <2>1, PrependKeeps, HeadsFacts
  <2> QED BY <2>2 DEF Rings
<1>3. \A g \in Heads : Order(p, g, IF g = h THEN Append(Walk(m, g), e) ELSE Walk(m, g))
  BY <1>1, PrependOrder
<1> HIDE DEF p
<1>4. \A g \in Heads : Walk(p, g) = IF g = h THEN Append(Walk(m, g), e) ELSE Walk(m, g)
  BY <1>3, OrderIsWalk
<1> QED BY <1>2, <1>3, <1>4 DEF Queues, p

(* Inserting one in front.                                                 *)
LEMMA AppendQueues ==
  ASSUME NEW m, Queues(m), NEW h \in Heads, NEW e \in Fibers, m.parent[e] = e
  PROVE  LET p == acl_ring_append(m, h, e)
         IN  /\ Queues(p) /\ p.parent = [m.parent EXCEPT ![e] = h]
             /\ Walk(p, h) = <<e>> \o Walk(m, h)
             /\ \A g \in Heads \ {h} : Walk(p, g) = Walk(m, g)
<1> DEFINE p == acl_ring_append(m, h, e)
<1>1. Rings(m) /\ \A g \in Heads : Order(m, g, Walk(m, g))
  BY DEF Queues
<1>2. Rings(p) /\ p.parent = [m.parent EXCEPT ![e] = h]
  <2>1. RingType(m, Fibers, Heads) /\ WellLinked(m, Fibers, Heads)
    BY <1>1 DEF Rings
  <2>2. LET r == acl_ring_append(m, h, e)
        IN  RingType(r, Fibers, Heads) /\ WellLinked(r, Fibers, Heads)
            /\ r.parent = [m.parent EXCEPT ![e] = h]
    BY <2>1, AppendKeeps, HeadsFacts
  <2> QED BY <2>2 DEF Rings
<1>3. \A g \in Heads : Order(p, g, IF g = h THEN <<e>> \o Walk(m, g) ELSE Walk(m, g))
  BY <1>1, AppendOrder
<1> HIDE DEF p
<1>4. \A g \in Heads : Walk(p, g) = IF g = h THEN <<e>> \o Walk(m, g) ELSE Walk(m, g)
  BY <1>3, OrderIsWalk
<1> QED BY <1>2, <1>3, <1>4 DEF Queues, p

(* Detaching an entry removes it from whatever queue has it.               *)
LEMMA DetachQueues ==
  ASSUME NEW m, Queues(m), NEW e \in Fibers
  PROVE  LET d == acl_ring_detach(m, e)
         IN  /\ Queues(d) /\ d.parent = [m.parent EXCEPT ![e] = e]
             /\ \A g \in Heads : Walk(d, g) = Without(Walk(m, g), e)
             /\ \A g \in Heads : m.parent[e] # g => Walk(d, g) = Walk(m, g)
<1> DEFINE d == acl_ring_detach(m, e)
<1>1. Rings(m) /\ \A g \in Heads : Order(m, g, Walk(m, g))
  BY DEF Queues
<1>2. Rings(d) /\ d.parent = [m.parent EXCEPT ![e] = e]
  <2>1. RingType(m, Fibers, Heads) /\ WellLinked(m, Fibers, Heads)
    BY <1>1 DEF Rings
  <2>2. LET r == acl_ring_detach(m, e)
        IN  RingType(r, Fibers, Heads) /\ WellLinked(r, Fibers, Heads)
            /\ r.parent = [m.parent EXCEPT ![e] = e]
    BY <2>1, DetachKeeps, HeadsFacts
  <2> QED BY <2>2 DEF Rings
<1>3. \A g \in Heads : Order(d, g, Without(Walk(m, g), e))
  BY <1>1, DetachOrder
<1> HIDE DEF d
<1>4. \A g \in Heads : Walk(d, g) = Without(Walk(m, g), e)
  BY <1>3, OrderIsWalk
<1>5. \A g \in Heads : m.parent[e] # g => Without(Walk(m, g), e) = Walk(m, g)
  BY <1>1 DEF Order, Without
<1> QED BY <1>2, <1>3, <1>4, <1>5 DEF Queues, d

(* Without its first member a queue is its tail.                           *)
LEMMA WithoutHead ==
  ASSUME NEW S, NEW s \in Seq(S), \A i, j \in 1 .. Len(s) : s[i] = s[j] => i = j, s # << >>
  PROVE  Without(s, Head(s)) = Tail(s)
<1>1. 1 \in 1 .. Len(s) /\ Head(s) = s[1] /\ Len(s) \in Nat
  OBVIOUS
<1>2. Without(s, s[1]) = [i \in 1 .. Len(s) - 1 |-> IF i < 1 THEN s[i] ELSE s[i + 1]]
  BY <1>1, WithoutIs
<1>3. \A i \in 1 .. Len(s) - 1 : ~(i < 1)
  OBVIOUS
<1>4. Without(s, s[1]) = [i \in 1 .. Len(s) - 1 |-> s[i + 1]]
  BY <1>2, <1>3
<1>5. Tail(s) = [i \in 1 .. Len(s) - 1 |-> s[i + 1]]
  <2>1. Tail(s) \in Seq(S) /\ Len(Tail(s)) = Len(s) - 1
    OBVIOUS
  <2>2. \A i \in 1 .. Len(s) - 1 : Tail(s)[i] = s[i + 1]
    OBVIOUS
  <2>3. Tail(s) = [i \in 1 .. Len(Tail(s)) |-> Tail(s)[i]]
    <3> DEFINE t == Tail(s)
    <3> HIDE DEF t
    <3>1. t \in Seq(S)
      BY <2>1 DEF t
    <3>2. t = [i \in 1 .. Len(t) |-> t[i]]
      BY <3>1
    <3> QED BY <3>2 DEF t
  <2> QED BY <2>1, <2>2, <2>3
<1> QED BY <1>1, <1>4, <1>5

(* The tail of a queue that was put behind an entry.                       *)
LEMMA TailOfCons ==
  ASSUME NEW S, NEW s \in Seq(S), NEW e \in S
  PROVE  Tail(<<e>> \o s) = s
<1> DEFINE t == <<e>> \o s
<1>1. t \in Seq(S) /\ Len(t) = Len(s) + 1 /\ t # << >> /\ \A i \in 1 .. Len(s) : t[i + 1] = s[i]
  OBVIOUS
<1> HIDE DEF t
<1> DEFINE r == Tail(t)
<1>2. r \in Seq(S) /\ Len(r) = Len(s) /\ \A i \in 1 .. Len(s) : r[i] = t[i + 1]
  BY <1>1
<1> HIDE DEF r
<1>3. r = [i \in 1 .. Len(r) |-> r[i]] /\ s = [i \in 1 .. Len(s) |-> s[i]]
  BY <1>2
<1> QED BY <1>1, <1>2, <1>3 DEF r, t

(* Popping takes the first of a queue.                                     *)
LEMMA PopQueues ==
  ASSUME NEW m, Queues(m), NEW h \in Heads
  PROVE  LET p == acl_ring_pop_head(m, h)
             q == Walk(m, h)
         IN  /\ Queues(p)
             /\ \A g \in Heads \ {h} : Walk(p, g) = Walk(m, g)
             /\ q = << >> => NoEntry(m, h) /\ p = m
             /\ q # << >> => /\ ~NoEntry(m, h) /\ First(m, h) = Head(q)
                             /\ Head(q) \in Fibers /\ m.parent[Head(q)] = h
                             /\ Walk(p, h) = Tail(q)
                             /\ p.parent = [m.parent EXCEPT ![Head(q)] = Head(q)]
<1> DEFINE p == acl_ring_pop_head(m, h)
           q == Walk(m, h)
<1>1. /\ q \in Seq(Fibers) /\ \A i, j \in 1 .. Len(q) : q[i] = q[j] => i = j
      /\ NoEntry(m, h) <=> q = << >>
      /\ q # << >> => /\ First(m, h) = Head(q) /\ Head(q) \in Fibers
                      /\ m.parent[Head(q)] = h
  <2>1. /\ q \in Seq(Fibers) /\ \A i, j \in 1 .. Len(q) : q[i] = q[j] => i = j
        /\ \A i \in 1 .. Len(q) : q[i] \in Fibers /\ m.parent[q[i]] = h
        /\ NoEntry(m, h) <=> q = << >>
        /\ q # << >> => First(m, h) = Head(q) /\ Head(q) = q[1] /\ Len(q) > 0
    BY QueueFacts
  <2> HIDE DEF q
  <2> QED BY <2>1
<1>2. CASE q = << >>
  <2>1. p = m
    BY <1>1, <1>2 DEF acl_ring_pop_head
  <2> QED BY <1>1, <1>2, <2>1
<1>3. CASE q # << >>
  <2> DEFINE e == First(m, h)
  <2>1. p = acl_ring_detach(m, e) /\ e \in Fibers /\ m.parent[e] = h /\ e = Head(q)
    BY <1>1, <1>3 DEF acl_ring_pop_head
  <2> HIDE DEF p, e
  <2>2. /\ Queues(p) /\ p.parent = [m.parent EXCEPT ![e] = e]
        /\ \A g \in Heads : Walk(p, g) = Without(Walk(m, g), e)
        /\ \A g \in Heads : m.parent[e] # g => Walk(p, g) = Walk(m, g)
    BY <2>1, DetachQueues
  <2>3. Without(q, e) = Tail(q)
    <3> HIDE DEF q
    <3> QED BY <1>1, <1>3, <2>1, WithoutHead
  <2> QED BY <1>1, <1>3, <2>1, <2>2, <2>3 DEF p, e
<1> QED BY <1>2, <1>3

-----------------------------------------------------------------------------
(* What each call of fiber.c does to the queues.                           *)

(* The thread goes to the first of q, the others keep their order; parent  *)
(* is the ring each fiber was in before.                                   *)
HandsOver(q, parent) ==
  IF q = << >>
  THEN running' = Original /\ Walk(ring', Ready) = q /\ ring'.parent = parent
  ELSE /\ running' = Head(q) /\ Walk(ring', Ready) = Tail(q)
       /\ Head(q) \in Fibers /\ parent[Head(q)] = Ready
       /\ ring'.parent = [parent EXCEPT ![Head(q)] = Head(q)]

(* acl_fiber_switch serves the ready ring first in, first out.             *)
LEMMA SwitchQueues ==
  ASSUME NEW m, Queues(m), acl_fiber_switch(m)
  PROVE  /\ Queues(ring') /\ HandsOver(Walk(m, Ready), m.parent)
         /\ \A g \in Heads \ {Ready} : Walk(ring', g) = Walk(m, g)
<1> DEFINE q == Walk(m, Ready)
<1>1. Ready \in Heads /\ Original \notin Fibers
  BY HeadsFacts
<1>2. LET p == acl_ring_pop_head(m, Ready)
      IN  /\ Queues(p)
          /\ \A g \in Heads \ {Ready} : Walk(p, g) = Walk(m, g)
          /\ q = << >> => NoEntry(m, Ready) /\ p = m
          /\ q # << >> => /\ ~NoEntry(m, Ready) /\ First(m, Ready) = Head(q)
                          /\ Head(q) \in Fibers /\ m.parent[Head(q)] = Ready
                          /\ Walk(p, Ready) = Tail(q)
                          /\ p.parent = [m.parent EXCEPT ![Head(q)] = Head(q)]
  BY <1>1, PopQueues
<1>3. ring' = acl_ring_pop_head(m, Ready)
      /\ running' = IF NoEntry(m, Ready) THEN Original ELSE First(m, Ready)
  BY DEF acl_fiber_switch
<1> HIDE DEF q
<1> QED BY <1>1, <1>2, <1>3 DEF HandsOver, q

(* acl_fiber_ready queues a living fiber behind those that can run.        *)
LEMMA ReadyQueues ==
  ASSUME NEW m, Queues(m), NEW f \in Fibers, m.parent[f] = f, status[f] = "ready"
  PROVE  LET p == acl_fiber_ready(m, f)
         IN  /\ Queues(p) /\ p.parent = [m.parent EXCEPT ![f] = Ready]
             /\ Walk(p, Ready) = Append(Walk(m, Ready), f)
             /\ \A g \in Heads \ {Ready} : Walk(p, g) = Walk(m, g)
<1>1. acl_fiber_ready(m, f) = acl_ring_prepend(m, Ready, f)
  BY DEF acl_fiber_ready
<1> QED BY <1>1, PrependQueues, HeadsFacts

(* A new fiber is the last of those that can run, and may have taken its   *)
(* block from the dead ring.                                               *)
LEMMA CreateQueues ==
  ASSUME IInv, Queues(ring), NEW f \in Fibers, Create(f)
  PROVE  /\ Queues(ring') /\ ~Alive(f) /\ ring'.parent = [ring.parent EXCEPT ![f] = Ready]
         /\ Walk(ring', Ready) = Append(Walk(ring, Ready), f)
         /\ \A g \in WaitRings : Walk(ring', g) = Walk(ring, g)
         /\ Len(Walk(ring', Dead)) <= Len(Walk(ring, Dead))
<1> DEFINE m == acl_ring_pop_head(ring, Dead)
           q == Walk(ring, Dead)
<1>1. /\ Queues(m) /\ \A g \in Heads \ {Dead} : Walk(m, g) = Walk(ring, g)
      /\ q = << >> => NoEntry(ring, Dead) /\ m = ring
      /\ q # << >> => /\ ~NoEntry(ring, Dead) /\ First(ring, Dead) = Head(q)
                      /\ Head(q) \in Fibers /\ ring.parent[Head(q)] = Dead
                      /\ Walk(m, Dead) = Tail(q)
                      /\ m.parent = [ring.parent EXCEPT ![Head(q)] = Head(q)]
  BY PopQueues, HeadsFacts
<1>2. q \in Seq(Fibers)
  BY QueueFacts, HeadsFacts
<1>3. ring' = acl_ring_prepend(m, Ready, f)
  BY DEF Create
<1>4. RingType(ring, Fibers, Heads)
  BY DEF IInv, TypeOK
<1> HIDE DEF m, q
<1>5. /\ ~Alive(f) /\ m.parent = [ring.parent EXCEPT ![f] = f] /\ m.parent[f] = f
      /\ Len(Walk(m, Dead)) <= Len(q)
  <2>1. CASE q = << >>
    <3>1. status[f] = "free" /\ m = ring
      BY <1>1, <2>1 DEF Create
    <3>2. ring.parent[f] = f
      BY <3>1 DEF IInv, RingsMatchStatus, Linked
    <3> QED BY <1>2, <1>4, <3>1, <3>2 DEF Alive, RingType, q
  <2>2. CASE q # << >>
    <3>1. /\ f = Head(q) /\ ring.parent[f] = Dead /\ Walk(m, Dead) = Tail(q)
          /\ m.parent = [ring.parent EXCEPT ![f] = f]
      BY <1>1, <2>2 DEF Create
    <3>2. status[f] = "exiting"
      BY <3>1 DEF IInv, RingsMatchStatus
    <3> QED BY <1>2, <1>4, <2>2, <3>1, <3>2 DEF Alive, RingType
  <2> QED BY <2>1, <2>2
<1>6. /\ Queues(ring') /\ ring'.parent = [m.parent EXCEPT ![f] = Ready]
      /\ Walk(ring', Ready) = Append(Walk(m, Ready), f)
      /\ \A g \in Heads \ {Ready} : Walk(ring', g) = Walk(m, g)
  <2>1. LET p == acl_ring_prepend(m, Ready, f)
        IN  /\ Queues(p) /\ p.parent = [m.parent EXCEPT ![f] = Ready]
            /\ Walk(p, Ready) = Append(Walk(m, Ready), f)
            /\ \A g \in Heads \ {Ready} : Walk(p, g) = Walk(m, g)
    BY <1>1, <1>5, PrependQueues, HeadsFacts
  <2> QED BY <1>3, <2>1
<1>7. [m.parent EXCEPT ![f] = Ready] = [ring.parent EXCEPT ![f] = Ready]
  BY <1>4, <1>5 DEF RingType
<1> QED BY <1>1, <1>5, <1>6, <1>7, HeadsFacts DEF q

(* A fiber that yields goes to the end of the ready ring.                  *)
LEMMA YieldQueues ==
  ASSUME IInv, Queues(ring), NEW f \in Fibers, acl_fiber_yield(f)
  PROVE  /\ Queues(ring')
         /\ HandsOver(Append(Walk(ring, Ready), f), [ring.parent EXCEPT ![f] = Ready])
         /\ \A g \in Heads \ {Ready} : Walk(ring', g) = Walk(ring, g)
<1> DEFINE m == acl_fiber_ready(ring, f)
<1>1. status[f] = "ready" /\ ring.parent[f] = f /\ acl_fiber_switch(m)
  BY RunningFiber DEF acl_fiber_yield
<1>2. /\ Queues(m) /\ m.parent = [ring.parent EXCEPT ![f] = Ready]
      /\ Walk(m, Ready) = Append(Walk(ring, Ready), f)
      /\ \A g \in Heads \ {Ready} : Walk(m, g) = Walk(ring, g)
  BY <1>1, ReadyQueues
<1> HIDE DEF m
<1>3. /\ Queues(ring') /\ HandsOver(Walk(m, Ready), m.parent)
      /\ \A g \in Heads \ {Ready} : Walk(ring', g) = Walk(m, g)
  BY <1>1, <1>2, SwitchQueues
<1> QED BY <1>2, <1>3

(* One that waits is the last of its waiting ring.                         *)
LEMMA WaitInQueues ==
  ASSUME IInv, Queues(ring), NEW f \in Fibers, NEW w \in WaitRings, WaitIn(f, w)
  PROVE  /\ Queues(ring') /\ HandsOver(Walk(ring, Ready), [ring.parent EXCEPT ![f] = w])
         /\ Walk(ring', w) = Append(Walk(ring, w), f)
         /\ \A g \in Heads \ {Ready, w} : Walk(ring', g) = Walk(ring, g)
<1> DEFINE m == acl_ring_prepend(ring, w, f)
<1>1. status[f] = "ready" /\ ring.parent[f] = f /\ acl_fiber_switch(m) /\ w \in Heads
  BY RunningFiber, HeadsFacts DEF WaitIn
<1>2. /\ Queues(m) /\ m.parent = [ring.parent EXCEPT ![f] = w]
      /\ Walk(m, w) = Append(Walk(ring, w), f)
      /\ \A g \in Heads \ {w} : Walk(m, g) = Walk(ring, g)
  BY <1>1, PrependQueues
<1> HIDE DEF m
<1>3. /\ Queues(ring') /\ HandsOver(Walk(m, Ready), m.parent)
      /\ \A g \in Heads \ {Ready} : Walk(ring', g) = Walk(m, g)
  BY <1>1, <1>2, SwitchQueues
<1> QED BY <1>1, <1>2, <1>3, HeadsFacts

(* One that is woken is the last of those that can run.                    *)
LEMMA WakeQueues ==
  ASSUME IInv, Queues(ring), NEW f \in Fibers, Wake(f)
  PROVE  /\ Queues(ring') /\ ring'.parent = [ring.parent EXCEPT ![f] = Ready]
         /\ Walk(ring', Ready) = Append(Walk(ring, Ready), f)
         /\ \A g \in Heads \ {Ready} : Walk(ring', g) = Walk(ring, g)
BY ReadyQueues DEF Wake, Suspended, Alive, Linked

(* The first of a waiting ring becomes the last of those that can run.     *)
LEMMA WakeFirstQueues ==
  ASSUME IInv, Queues(ring), NEW w \in WaitRings, ~NoEntry(ring, w),
         ring' = ReadyFirst(ring, w)
  PROVE  LET q == Walk(ring, w)
             g == First(ring, w)
         IN  /\ q # << >> /\ g = Head(q) /\ g \in Fibers
             /\ ring.parent[g] = w /\ status[g] = "ready" /\ running # g
             /\ Queues(ring') /\ ring'.parent = [ring.parent EXCEPT ![g] = Ready]
             /\ Walk(ring', Ready) = Append(Walk(ring, Ready), g)
             /\ Walk(ring', w) = Tail(q)
             /\ \A h \in Heads \ {Ready, w} : Walk(ring', h) = Walk(ring, h)
<1> DEFINE q == Walk(ring, w)
           g == First(ring, w)
           d == acl_ring_detach(ring, g)
<1>1. /\ g \in Fibers /\ ring.parent[g] = w /\ status[g] = "ready" /\ running # g
      /\ w \in Heads
  BY ReadyFirstKeeps, HeadsFacts
<1>2. /\ q # << >> /\ g = Head(q) /\ q \in Seq(Fibers)
      /\ \A i, j \in 1 .. Len(q) : q[i] = q[j] => i = j
  BY <1>1, QueueFacts
<1>3. RingType(ring, Fibers, Heads)
  BY DEF IInv, TypeOK
<1>4. ring' = acl_fiber_ready(d, g)
  BY DEF ReadyFirst
<1> HIDE DEF g, q
<1>5. /\ Queues(d) /\ d.parent = [ring.parent EXCEPT ![g] = g]
      /\ \A h \in Heads : Walk(d, h) = Without(Walk(ring, h), g)
      /\ \A h \in Heads : ring.parent[g] # h => Walk(d, h) = Walk(ring, h)
  BY <1>1, DetachQueues
<1> HIDE DEF d
<1>6. d.parent[g] = g
  BY <1>1, <1>3, <1>5 DEF RingType
<1>7. /\ Queues(ring') /\ ring'.parent = [d.parent EXCEPT ![g] = Ready]
      /\ Walk(ring', Ready) = Append(Walk(d, Ready), g)
      /\ \A h \in Heads \ {Ready} : Walk(ring', h) = Walk(d, h)
  <2>1. LET p == acl_fiber_ready(d, g)
        IN  /\ Queues(p) /\ p.parent = [d.parent EXCEPT ![g] = Ready]
            /\ Walk(p, Ready) = Append(Walk(d, Ready), g)
            /\ \A h \in Heads \ {Ready} : Walk(p, h) = Walk(d, h)
    BY <1>1, <1>5, <1>6, ReadyQueues
  <2> QED BY <1>4, <2>1
<1>8. Without(q, g) = Tail(q)
  BY <1>2, WithoutHead
<1>9. [d.parent EXCEPT ![g] = Ready] = [ring.parent EXCEPT ![g] = Ready]
  BY <1>3, <1>5 DEF RingType
<1>10. Ready \in Heads /\ w # Ready
  BY HeadsFacts
<1> QED BY <1>1, <1>2, <1>5, <1>7, <1>8, <1>9, <1>10 DEF g, q

(* A signal makes its target run and its sender the next to run.           *)
LEMMA SignalQueues ==
  ASSUME IInv, Queues(ring), NEW f \in Fibers, NEW g \in Fibers, f # g,
         NEW sig \in Signals, acl_fiber_signal(f, g, sig)
  PROVE  /\ Queues(ring') /\ running' = g /\ status[g] = "ready"
         /\ ring'.parent = [ring.parent EXCEPT ![f] = Ready, ![g] = g]
         /\ Walk(ring', Ready) = <<f>> \o Without(Walk(ring, Ready), g)
         /\ \A h \in Heads \ {Ready} : Walk(ring', h) = Without(Walk(ring, h), g)
         /\ \A h \in Heads \ {Ready} : ring.parent[g] # h => Walk(ring', h) = Walk(ring, h)
<1> DEFINE m0 == acl_ring_detach(ring, f)
           m1 == acl_ring_detach(m0, g)
           m2 == acl_ring_append(m1, Ready, f)
           m3 == acl_ring_append(m2, Ready, g)
           q == Walk(m1, Ready)
<1>1. /\ ring.parent[f] = f /\ status[g] = "ready" /\ m0 = ring
      /\ RingType(ring, Fibers, Heads) /\ Ready \in Heads
  BY RunningFiber, HeadsFacts DEF acl_fiber_signal, Alive, acl_ring_detach, IInv, TypeOK
<1>2. /\ ring' = acl_ring_pop_head(m3, Ready)
      /\ running' = IF NoEntry(m3, Ready) THEN Original ELSE First(m3, Ready)
  BY DEF acl_fiber_signal, acl_fiber_switch
<1>3. m1 = acl_ring_detach(ring, g)
  BY <1>1
<1> HIDE DEF m0, m1
<1>4. /\ Queues(m1) /\ m1.parent = [ring.parent EXCEPT ![g] = g]
      /\ \A h \in Heads : Walk(m1, h) = Without(Walk(ring, h), g)
      /\ \A h \in Heads : ring.parent[g] # h => Walk(m1, h) = Walk(ring, h)
  BY <1>3, DetachQueues
<1>5. m1.parent[f] = f
  BY <1>1, <1>4 DEF RingType
<1>6. /\ Queues(m2) /\ m2.parent = [m1.parent EXCEPT ![f] = Ready]
      /\ Walk(m2, Ready) = <<f>> \o q
      /\ \A h \in Heads \ {Ready} : Walk(m2, h) = Walk(m1, h)
  BY <1>1, <1>4, <1>5, AppendQueues
<1> HIDE DEF m2
<1>7. m2.parent[g] = g
  BY <1>1, <1>4, <1>6 DEF RingType
<1>8. /\ Queues(m3) /\ m3.parent = [m2.parent EXCEPT ![g] = Ready]
      /\ Walk(m3, Ready) = <<g>> \o (<<f>> \o q)
      /\ \A h \in Heads \ {Ready} : Walk(m3, h) = Walk(m2, h)
  <2>1. m3 = acl_ring_append(m2, Ready, g)
    OBVIOUS
  <2>2. LET p == acl_ring_append(m2, Ready, g)
        IN  /\ Queues(p) /\ p.parent = [m2.parent EXCEPT ![g] = Ready]
            /\ Walk(p, Ready) = <<g>> \o Walk(m2, Ready)
            /\ \A h \in Heads \ {Ready} : Walk(p, h) = Walk(m2, h)
    <3>1. Queues(m2) /\ Ready \in Heads /\ m2.parent[g] = g
      BY <1>1, <1>6, <1>7
    <3> QED BY <3>1, AppendQueues
  <2> HIDE DEF m3
  <2> QED BY <1>6, <2>1, <2>2
<1> HIDE DEF m3
<1>9. q \in Seq(Fibers)
  BY <1>1, <1>4, QueueFacts
<1> HIDE DEF q
<1>10. /\ <<g>> \o (<<f>> \o q) # << >> /\ Head(<<g>> \o (<<f>> \o q)) = g
       /\ Tail(<<g>> \o (<<f>> \o q)) = <<f>> \o q
  <2> DEFINE t == <<f>> \o q
  <2>1. t \in Seq(Fibers)
    BY <1>9
  <2> HIDE DEF t
  <2>2. <<g>> \o t # << >> /\ Head(<<g>> \o t) = g
    BY <2>1
  <2>3. Tail(<<g>> \o t) = t
    BY <2>1, TailOfCons
  <2> QED BY <2>2, <2>3 DEF t
<1>11. LET p == acl_ring_pop_head(m3, Ready)
       IN  /\ Queues(p) /\ \A h \in Heads \ {Ready} : Walk(p, h) = Walk(m3, h)
           /\ ~NoEntry(m3, Ready) /\ First(m3, Ready) = g
           /\ Walk(p, Ready) = <<f>> \o q
           /\ p.parent = [m3.parent EXCEPT ![g] = g]
  <2> DEFINE t == Walk(m3, Ready)
  <2>1. LET p == acl_ring_pop_head(m3, Ready)
        IN  /\ Queues(p)
            /\ \A h \in Heads \ {Ready} : Walk(p, h) = Walk(m3, h)
            /\ t # << >> => /\ ~NoEntry(m3, Ready) /\ First(m3, Ready) = Head(t)
                            /\ Walk(p, Ready) = Tail(t)
                            /\ p.parent = [m3.parent EXCEPT ![Head(t)] = Head(t)]
    BY <1>1, <1>8, PopQueues
  <2>2. t # << >> /\ Head(t) = g /\ Tail(t) = <<f>> \o q
    BY <1>8, <1>10
  <2> HIDE DEF t
  <2> QED BY <2>1, <2>2
<1>12. [m3.parent EXCEPT ![g] = g] = [ring.parent EXCEPT ![f] = Ready, ![g] = g]
  BY <1>1, <1>4, <1>6, <1>8 DEF RingType
<1>13. q = Without(Walk(ring, Ready), g)
  BY <1>1, <1>4 DEF q
<1> QED BY <1>1, <1>2, <1>4, <1>6, <1>8, <1>11, <1>12, <1>13

(* The end of a fiber hands the thread over, and its block is the last of  *)
(* the dead ring, which never has more than MaxCache + 1.                  *)
LEMMA ExitQueues ==
  ASSUME IInv, Queues(ring), Len(Walk(ring, Dead)) <= MaxCache + 1,
         NEW f \in Fibers, fiber_exit(f)
  PROVE  /\ Queues(ring')
         /\ IF Walk(ring, Ready) = << >>
            THEN running' = Original /\ Walk(ring', Ready) = << >>
            ELSE /\ running' = Head(Walk(ring, Ready)) /\ running' \in Fibers
                 /\ ring.parent[running'] = Ready
                 /\ Walk(ring', Ready) = Tail(Walk(ring, Ready))
         /\ \A g \in Fibers \ {f, running'} :
              ring'.parent[g] = Ready <=> ring.parent[g] = Ready
         /\ \A g \in WaitRings : Walk(ring', g) = Walk(ring, g)
         /\ Len(Walk(ring', Dead)) <= MaxCache + 1
         /\ \A g \in Fibers : Alive(g)' <=> Alive(g) /\ g # f
<1> DEFINE m == acl_ring_pop_head(ring, Ready)
           k == fiber_kick(m)
           q == Walk(ring, Ready)
           c == Walk(ring, Dead)
<1>1. Ready \in Heads /\ Dead \in Heads /\ Ready # Dead /\ MaxCache \in Nat
  BY HeadsFacts, ConstantsAssumption
<1>2. status[f] = "ready" /\ ring.parent[f] = f /\ RingType(ring, Fibers, Heads)
  BY RunningFiber DEF fiber_exit, IInv, TypeOK
<1>3. /\ Queues(m) /\ \A g \in Heads \ {Ready} : Walk(m, g) = Walk(ring, g)
      /\ q = << >> => NoEntry(ring, Ready) /\ m = ring
      /\ q # << >> => /\ ~NoEntry(ring, Ready) /\ First(ring, Ready) = Head(q)
                      /\ Head(q) \in Fibers /\ ring.parent[Head(q)] = Ready
                      /\ Walk(m, Ready) = Tail(q)
                      /\ m.parent = [ring.parent EXCEPT ![Head(q)] = Head(q)]
  BY <1>1, PopQueues
<1>4. /\ running' = IF NoEntry(ring, Ready) THEN Original ELSE First(ring, Ready)
      /\ ring' = acl_ring_prepend(k, Dead, f)
      /\ status' = [g \in Fibers |-> IF g = f THEN "exiting"
                                     ELSE IF g \in Kicked(m) THEN "free" ELSE status[g]]
  BY DEF fiber_exit
<1> HIDE DEF m, q, c
<1>5. /\ c \in Seq(Fibers) /\ Len(c) \in Nat /\ Walk(m, Dead) = c /\ m.len[Dead] = Len(c)
      /\ m.parent[f] = f
      /\ \A g \in Fibers : m.parent[g] = Dead => ring.parent[g] = Dead
  <2>1. c \in Seq(Fibers) /\ Len(c) \in Nat
    BY <1>1, QueueFacts DEF c
  <2>2. Walk(m, Dead) = c
    BY <1>1, <1>3 DEF c
  <2>3. m.len[Dead] = Len(Walk(m, Dead))
    BY <1>1, <1>3, QueueFacts
  <2>4. m.parent[f] = f /\ \A g \in Fibers : m.parent[g] = Dead => ring.parent[g] = Dead
    BY <1>1, <1>2, <1>3, HeadsFacts DEF RingType
  <2> QED BY <2>1, <2>2, <2>3, <2>4
<1>6. /\ Queues(k) /\ \A g \in Heads \ {Dead} : Walk(k, g) = Walk(m, g)
      /\ Walk(k, Dead) \in Seq(Fibers) /\ Len(Walk(k, Dead)) <= MaxCache
      /\ k.parent[f] = f
      /\ \A g \in Fibers : k.parent[g] = m.parent[g] \/ (m.parent[g] = Dead /\ k.parent[g] = g)
      /\ \A g \in Kicked(m) : g \in Fibers /\ m.parent[g] = Dead
  <2>1. CASE Len(c) <= MaxCache
    <3>1. Excess(m) = 0
      BY <1>1, <1>5, <2>1 DEF Excess, acl_ring_size
    <3>2. k = m /\ Kicked(m) = {}
      BY <3>1 DEF fiber_kick, Kicked
    <3> QED BY <1>3, <1>5, <2>1, <3>2
  <2>2. CASE Len(c) > MaxCache
    <3>1. Excess(m) # 0
      BY <1>1, <1>5, <2>2 DEF Excess, acl_ring_size
    <3>2. k = acl_ring_pop_head(m, Dead)
      BY <3>1 DEF fiber_kick
    <3> DEFINE d == Head(c)
    <3>3. c # << >>
      BY <1>1, <1>5, <2>2
    <3>4. /\ Queues(k) /\ \A g \in Heads \ {Dead} : Walk(k, g) = Walk(m, g)
          /\ ~NoEntry(m, Dead) /\ First(m, Dead) = d /\ d \in Fibers /\ m.parent[d] = Dead
          /\ Walk(k, Dead) = Tail(c) /\ k.parent = [m.parent EXCEPT ![d] = d]
      <4> DEFINE t == Walk(m, Dead)
      <4>1. LET p == acl_ring_pop_head(m, Dead)
            IN  /\ Queues(p)
                /\ \A g \in Heads \ {Dead} : Walk(p, g) = Walk(m, g)
                /\ t # << >> => /\ ~NoEntry(m, Dead) /\ First(m, Dead) = Head(t)
                                /\ Head(t) \in Fibers /\ m.parent[Head(t)] = Dead
                                /\ Walk(p, Dead) = Tail(t)
                                /\ p.parent = [m.parent EXCEPT ![Head(t)] = Head(t)]
        BY <1>1, <1>3, PopQueues
      <4>2. t = c
        BY <1>5
      <4> HIDE DEF t
      <4> QED BY <3>2, <3>3, <4>1, <4>2
    <3>5. Kicked(m) = {d}
      BY <3>1, <3>4 DEF Kicked
    <3>6. Tail(c) \in Seq(Fibers) /\ Len(Tail(c)) = Len(c) - 1
      BY <1>5, <3>3
    <3>7. Len(c) - 1 <= MaxCache
      BY <1>1, <1>5 DEF c
    <3>8. RingType(m, Fibers, Heads)
      BY <1>3 DEF Queues, Rings
    <3> HIDE DEF d, k
    <3>9. k.parent[f] = f /\ \A g \in Fibers : k.parent[g] = m.parent[g] \/ (m.parent[g] = Dead /\ k.parent[g] = g)
      BY <1>5, <3>4, <3>8 DEF RingType
    <3> QED BY <3>4, <3>5, <3>6, <3>7, <3>9
  <2> QED BY <1>1, <1>5, <2>1, <2>2
<1> HIDE DEF k
<1>7. /\ Queues(ring') /\ ring'.parent = [k.parent EXCEPT ![f] = Dead]
      /\ Walk(ring', Dead) = Append(Walk(k, Dead), f)
      /\ \A g \in Heads \ {Dead} : Walk(ring', g) = Walk(k, g)
  <2>1. LET p == acl_ring_prepend(k, Dead, f)
        IN  /\ Queues(p) /\ p.parent = [k.parent EXCEPT ![f] = Dead]
            /\ Walk(p, Dead) = Append(Walk(k, Dead), f)
            /\ \A g \in Heads \ {Dead} : Walk(p, g) = Walk(k, g)
    BY <1>1, <1>6, PrependQueues
  <2> QED BY <1>4, <2>1
<1>8. \A g \in Fibers : Alive(g)' <=> Alive(g) /\ g # f
  BY <1>4, <1>5, <1>6 DEF Alive, IInv, RingsMatchStatus
<1>9. Len(Walk(ring', Dead)) <= MaxCache + 1
  BY <1>1, <1>6, <1>7
<1>10. \A g \in Fibers \ {f, running'} : ring'.parent[g] = Ready <=> ring.parent[g] = Ready
  <2> TAKE g \in Fibers \ {f, running'}
  <2>1. RingType(k, Fibers, Heads) /\ g \notin Heads
    BY <1>6, HeadsFacts DEF Queues, Rings
  <2>2. ring'.parent[g] = k.parent[g]
    BY <1>7, <2>1 DEF RingType
  <2>3. m.parent[g] = ring.parent[g]
    BY <1>2, <1>3, <1>4 DEF RingType
  <2>4. k.parent[g] = m.parent[g] \/ (m.parent[g] = Dead /\ k.parent[g] = g)
    BY <1>6
  <2> QED BY <1>1, <2>1, <2>2, <2>3, <2>4
<1>11. Walk(ring', Ready) = Walk(m, Ready) /\ \A g \in WaitRings : Walk(ring', g) = Walk(ring, g)
  BY <1>1, <1>3, <1>6, <1>7, HeadsFacts
<1> QED BY <1>3, <1>4, <1>7, <1>8, <1>9, <1>10, <1>11, HeadsFacts DEF q

(* Every ring is a queue, and the dead ring is at most one above its limit. *)
QInv == Queues(ring) /\ Len(Walk(ring, Dead)) <= MaxCache + 1

(* Rings that were just initialised are empty queues.                      *)
LEMMA InitQInv == Init => QInv
<1> SUFFICES ASSUME Init PROVE QInv
  OBVIOUS
<1>1. IInv
  BY InitIInv
<1>2. Rings(ring)
  BY <1>1 DEF IInv, TypeOK, RingsWellFormed, Rings
<1>3. ASSUME NEW h \in Heads PROVE Order(ring, h, << >>)
  <2>1. ring.len[h] = 0 /\ ring.succ[h] = h /\ \A f \in Fibers : ring.parent[f] = f
    BY DEF Init, acl_ring_init, Nodes
  <2>2. << >> \in Seq(Fibers) /\ Len(<< >>) = 0
    OBVIOUS
  <2> DEFINE e == << >>
  <2>3. \A i \in 0 .. 0 : Place(e, h, i) = h /\ Place(e, h, i + 1) = h
    BY DEF Place
  <2> HIDE DEF e
  <2>4. Order(ring, h, e)
    BY <2>1, <2>2, <2>3, HeadsFacts DEF Order, e
  <2> QED BY <2>4 DEF e
<1>4. \A h \in Heads : Walk(ring, h) = << >>
  BY <1>3, OrderIsWalk
<1>5. Len(<< >>) <= MaxCache + 1
  BY ConstantsAssumption
<1> QED BY <1>2, <1>3, <1>4, <1>5, HeadsFacts DEF QInv, Queues

(* acl_fiber_schedule runs the first ready fiber, or frees dead blocks.    *)
LEMMA ScheduleQueues ==
  ASSUME IInv, Queues(ring), acl_fiber_schedule
  PROVE  /\ Queues(ring')
         /\ \A g \in WaitRings : Walk(ring', g) = Walk(ring, g)
         /\ Len(Walk(ring', Dead)) <= Len(Walk(ring, Dead))
         /\ ScheduleRun => HandsOver(Walk(ring, Ready), ring.parent)
         /\ ~ScheduleRun => /\ running' = running /\ Walk(ring', Ready) = Walk(ring, Ready)
                            /\ \A f \in Fibers : /\ Alive(f)' <=> Alive(f)
                                                 /\ ring'.parent[f] = Ready <=> ring.parent[f] = Ready
<1>0. /\ Ready \in Heads /\ Dead \in Heads /\ Ready # Dead
      /\ WaitRings \subseteq Heads \ {Ready, Dead}
      /\ Walk(ring, Dead) \in Seq(Fibers) /\ Len(Walk(ring, Dead)) \in Nat
  BY HeadsFacts, QueueFacts
<1>1. CASE ScheduleEnter \/ ScheduleReturn
  <2>1. ring' = ring /\ running' = running /\ status' = status
    BY <1>1 DEF ScheduleEnter, ScheduleReturn
  <2>2. ~ScheduleRun
    BY <1>1 DEF ScheduleEnter, ScheduleReturn, ScheduleRun
  <2> QED BY <1>0, <2>1, <2>2 DEF Alive
<1>2. CASE ScheduleRun
  <2>1. /\ Queues(ring') /\ HandsOver(Walk(ring, Ready), ring.parent)
        /\ \A g \in Heads \ {Ready} : Walk(ring', g) = Walk(ring, g)
    BY <1>2, SwitchQueues DEF ScheduleRun
  <2> QED BY <1>0, <1>2, <2>1
<1>3. CASE ScheduleFree
  <2> DEFINE q == Walk(ring, Dead)
             e == First(ring, Dead)
  <2>1. LET p == acl_ring_pop_head(ring, Dead)
        IN  /\ Queues(p) /\ \A g \in Heads \ {Dead} : Walk(p, g) = Walk(ring, g)
            /\ q = << >> => NoEntry(ring, Dead)
            /\ q # << >> => /\ e = Head(q) /\ Head(q) \in Fibers
                            /\ ring.parent[Head(q)] = Dead
                            /\ Walk(p, Dead) = Tail(q)
                            /\ p.parent = [ring.parent EXCEPT ![Head(q)] = Head(q)]
    BY <1>0, PopQueues
  <2>2. q # << >> /\ ring' = acl_ring_pop_head(ring, Dead) /\ running' = running
        /\ status' = [status EXCEPT ![e] = "free"]
    BY <1>3, <2>1 DEF ScheduleFree
  <2>3. status[e] = "exiting" /\ e \in Fibers
    BY <2>1, <2>2 DEF IInv, RingsMatchStatus
  <2>4. ~ScheduleRun
    BY <1>3 DEF ScheduleFree, ScheduleRun
  <2> HIDE DEF q, e
  <2>5. Tail(q) \in Seq(Fibers) /\ Len(Tail(q)) <= Len(q)
    BY <1>0, <2>2 DEF q
  <2>6. \A f \in Fibers : Alive(f)' <=> Alive(f)
    BY <2>2, <2>3 DEF Alive, IInv, TypeOK
  <2>7. \A f \in Fibers : ring'.parent[f] = Ready <=> ring.parent[f] = Ready
    BY <1>0, <2>1, <2>2, HeadsFacts DEF IInv, TypeOK, RingType
  <2> QED BY <1>0, <2>1, <2>2, <2>4, <2>5, <2>6, <2>7 DEF q
<1> QED BY <1>1, <1>2, <1>3 DEF acl_fiber_schedule

(* Every call keeps them so.                                               *)
LEMMA NextQInv == IInv /\ QInv /\ [Next]_schedVars => QInv'
<1> SUFFICES ASSUME IInv, QInv, [Next]_schedVars PROVE QInv'
  OBVIOUS
<1> DEFINE n == Len(Walk(ring, Dead))
<1>0. /\ Queues(ring) /\ n <= MaxCache + 1 /\ n \in Nat /\ MaxCache \in Nat
      /\ Dead \in Heads \ {Ready} /\ Dead \notin WaitRings
  BY QueueFacts, HeadsFacts, ConstantsAssumption DEF QInv
<1> DEFINE Good == Queues(ring') /\ (Walk(ring', Dead) = Walk(ring, Dead) \/ Len(Walk(ring', Dead)) <= n)
<1>00. ASSUME Good, Len(Walk(ring', Dead)) \in Nat PROVE QInv'
  BY <1>0, <1>00 DEF QInv
<1>01. Queues(ring') => Len(Walk(ring', Dead)) \in Nat
  BY <1>0, QueueFacts
<1>1. CASE UNCHANGED schedVars
  BY <1>0, <1>1 DEF schedVars, QInv
<1>2. CASE acl_fiber_schedule
  <2>1. Good
    BY <1>0, <1>2, ScheduleQueues
  <2> QED BY <1>00, <1>01, <2>1
<1>3. ASSUME NEW f \in Fibers, Create(f) PROVE QInv'
  <2>1. Good
    BY <1>0, <1>3, CreateQueues
  <2> QED BY <1>00, <1>01, <2>1
<1>4. ASSUME NEW f \in Fibers, acl_fiber_yield(f) PROVE QInv'
  <2>1. Good
    BY <1>0, <1>4, YieldQueues
  <2> QED BY <1>00, <1>01, <2>1
<1>5. ASSUME NEW f \in Fibers, Suspend(f) PROVE QInv'
  <2>1. Good
    BY <1>0, <1>5, SwitchQueues DEF Suspend
  <2> QED BY <1>00, <1>01, <2>1
<1>6. ASSUME NEW f \in Fibers, fiber_exit(f) PROVE QInv'
  BY <1>0, <1>6, ExitQueues DEF QInv
<1>7. ASSUME NEW f \in Fibers, Wake(f) PROVE QInv'
  <2>1. Good
    BY <1>0, <1>7, WakeQueues
  <2> QED BY <1>00, <1>01, <2>1
<1>8. ASSUME NEW f \in Fibers, NEW w \in WaitRings, WaitIn(f, w) PROVE QInv'
  <2>1. Good
    BY <1>0, <1>8, WaitInQueues
  <2> QED BY <1>00, <1>01, <2>1
<1>9. ASSUME NEW w \in WaitRings, WakeFirst(w) PROVE QInv'
  <2>1. Good
    BY <1>0, <1>9, WakeFirstQueues DEF WakeFirst
  <2> QED BY <1>00, <1>01, <2>1
<1>10. ASSUME NEW f \in Fibers, NEW g \in Fibers, NEW sig \in Signals, acl_fiber_signal(f, g, sig)
       PROVE  QInv'
  <2>1. CASE f = g
    BY <1>0, <1>10, <2>1 DEF acl_fiber_signal, QInv
  <2>2. CASE f # g
    <3>1. ring.parent[g] # Dead
      BY <1>10 DEF acl_fiber_signal, Alive, IInv, RingsMatchStatus
    <3>2. Good
      BY <1>0, <1>10, <2>2, <3>1, SignalQueues
    <3> QED BY <1>00, <1>01, <3>2
  <2> QED BY <2>1, <2>2
<1> QED BY <1>1, <1>2, <1>3, <1>4, <1>5, <1>6, <1>7, <1>8, <1>9, <1>10 DEF Next

(* A queue without repetitions has as many entries as members.             *)
LEMMA QueueCardinality ==
  ASSUME NEW q \in Seq(Fibers), \A i, j \in 1 .. Len(q) : q[i] = q[j] => i = j,
         NEW M, \A f : f \in M <=> \E i \in 1 .. Len(q) : q[i] = f
  PROVE  Len(q) = Cardinality(M) /\ Range(q) = M
<1> DEFINE n == Len(q)
<1>1. n \in Nat /\ DOMAIN q = 1 .. n
  OBVIOUS
<1>2. Range(q) = M
  BY <1>1 DEF Range
<1>3. q \in Bijection(1 .. n, M)
  <2>1. q \in [1 .. n -> M]
    BY <1>1
  <2>2. \A a, b \in 1 .. n : q[a] = q[b] => a = b
    OBVIOUS
  <2>3. \A t \in M : \E i \in 1 .. n : q[i] = t
    OBVIOUS
  <2> HIDE DEF n
  <2> QED BY <2>1, <2>2, <2>3, Fun_IsBij
<1>4. ExistsBijection(1 .. n, M)
  BY <1>3, Fun_ExistsBij
<1> QED BY <1>1, <1>2, <1>4, FS_CountingElements

(* The lengths and the links of the rings agree with what each fiber       *)
(* believes.                                                               *)
LEMMA QueuesComplete == QInv => RingsComplete
<1> SUFFICES ASSUME QInv PROVE RingsComplete
  OBVIOUS
<1>1. Queues(ring) /\ Len(Walk(ring, Dead)) <= MaxCache + 1
  BY DEF QInv
<1>2. ASSUME NEW h \in Heads
      PROVE  /\ ring.len[h] = Cardinality(Members(ring, h, Fibers))
             /\ Range(Walk(ring, h)) = Members(ring, h, Fibers)
             /\ ring.len[h] = Len(Walk(ring, h))
  <2> DEFINE q == Walk(ring, h)
             M == Members(ring, h, Fibers)
  <2>1. /\ q \in Seq(Fibers) /\ Len(q) \in Nat /\ ring.len[h] = Len(q)
        /\ \A i, j \in 1 .. Len(q) : q[i] = q[j] => i = j
        /\ \A i \in 1 .. Len(q) : q[i] \in Fibers /\ ring.parent[q[i]] = h
        /\ \A f \in Fibers : ring.parent[f] = h <=> \E i \in 1 .. Len(q) : q[i] = f
    BY <1>1, QueueFacts
  <2> HIDE DEF q
  <2>2. \A f : f \in M <=> \E i \in 1 .. Len(q) : q[i] = f
    BY <2>1 DEF Members
  <2> HIDE DEF M
  <2>3. Len(q) = Cardinality(M) /\ Range(q) = M
    BY <2>1, <2>2, QueueCardinality
  <2> QED BY <2>1, <2>3 DEF q, M
<1> QED BY <1>1, <1>2, HeadsFacts DEF RingsComplete, acl_ring_size

(* The queues and their bound hold in every run.                           *)
THEOREM SpecQInv == Spec => []QInv
BY InitQInv, NextQInv, SpecIInv, PTL DEF Spec

(* Following a ring meets exactly its members, the length its head keeps   *)
(* is their number, and fiber_kick never has to free more than one block.  *)
THEOREM RingsCompleteSafe == Spec => []RingsComplete
BY SpecQInv, QueuesComplete, PTL

-----------------------------------------------------------------------------
(* The scheduler implements the run queue: each call is one step of        *)
(* FiberRunQueue, or none.                                                 *)

fiberPhase == [f \in Fibers |-> PhaseOf(f)]
runQueue   == Walk(ring, Ready)

(* The phase of a fiber by its fields, one test after the other.           *)
PhaseShown ==
  /\ fiberPhase = [f \in Fibers |-> fiberPhase[f]]
  /\ \A f \in Fibers :
       fiberPhase[f] = IF ~Alive(f) THEN "absent" ELSE IF running = f THEN "running"
                  ELSE IF ring.parent[f] = Ready THEN "queued" ELSE "parked"

(* It is so before and after a step.                                       *)
LEMMA PhaseFacts == PhaseShown /\ PhaseShown'
<1>1. PhaseShown
  <2>1. ASSUME NEW f \in Fibers
        PROVE  PhaseOf(f) = IF ~Alive(f) THEN "absent" ELSE IF running = f THEN "running"
                            ELSE IF ring.parent[f] = Ready THEN "queued" ELSE "parked"
    <3>1. CASE ~Alive(f)
      BY <3>1 DEF PhaseOf
    <3>2. CASE Alive(f) /\ running = f
      BY <3>2 DEF PhaseOf
    <3>3. CASE Alive(f) /\ running # f /\ ring.parent[f] = Ready
      BY <3>3 DEF PhaseOf
    <3>4. CASE Alive(f) /\ running # f /\ ring.parent[f] # Ready
      BY <3>4 DEF PhaseOf
    <3> QED BY <3>1, <3>2, <3>3, <3>4
  <2> QED BY <2>1 DEF PhaseShown, fiberPhase
<1>2. PhaseShown'
  BY <1>1, PTL
<1> QED BY <1>1, <1>2

(* Two steps to the same queue and context give the same phases when they  *)
(* give the same living fibers and the same ready ring.                    *)
LEMMA HandOverMaps ==
  ASSUME NEW q, NEW par, HandsOver(q, par), NEW ph,
         ph = [f \in Fibers |-> ph[f]],
         par \in [Fibers \cup Heads -> Fibers \cup Heads],
         \A f \in Fibers :
            ph[f] = IF ~Alive(f)' THEN "absent"
                    ELSE IF par[f] = Ready THEN "queued" ELSE "parked",
         \A f \in Fibers : par[f] = Ready => Alive(f)'
  PROVE  IF q = << >>
         THEN runQueue' = q /\ running' = Original /\ fiberPhase' = ph
         ELSE runQueue' = Tail(q) /\ running' = Head(q) /\ fiberPhase' = [ph EXCEPT ![Head(q)] = "running"]
<1>1. /\ fiberPhase' = [f \in Fibers |-> fiberPhase'[f]]
      /\ \A f \in Fibers :
           fiberPhase'[f] = IF ~Alive(f)' THEN "absent" ELSE IF running' = f THEN "running"
                       ELSE IF ring'.parent[f] = Ready THEN "queued" ELSE "parked"
  BY PhaseFacts DEF PhaseShown
<1>2. CASE q = << >>
  <2>1. running' = Original /\ runQueue' = q /\ ring'.parent = par
    BY <1>2 DEF HandsOver, runQueue
  <2>2. \A f \in Fibers : fiberPhase'[f] = ph[f]
    BY <1>1, <2>1, HeadsFacts
  <2> QED BY <1>1, <1>2, <2>1, <2>2
<1>3. CASE q # << >>
  <2> DEFINE g == Head(q)
  <2>1. /\ running' = g /\ runQueue' = Tail(q) /\ g \in Fibers /\ par[g] = Ready
        /\ ring'.parent = [par EXCEPT ![g] = g]
    BY <1>3 DEF HandsOver, runQueue
  <2> HIDE DEF g
  <2>2. \A f \in Fibers : fiberPhase'[f] = [ph EXCEPT ![g] = "running"][f]
    BY <1>1, <2>1
  <2>3. [ph EXCEPT ![g] = "running"] = [f \in Fibers |-> [ph EXCEPT ![g] = "running"][f]]
    OBVIOUS
  <2> QED BY <1>1, <1>3, <2>1, <2>2, <2>3 DEF g
<1> QED BY <1>2, <1>3

(* What the invariant says of those that run, are ready or are dead.       *)
LEMMA PhaseStart ==
  ASSUME IInv
  PROVE  /\ ring.parent \in [Fibers \cup Heads -> Fibers \cup Heads]
         /\ \A f \in Fibers : ring.parent[f] = Ready => Alive(f) /\ running # f
         /\ running \in Fibers => Alive(running) /\ ring.parent[running] = running
         /\ \A f \in Fibers : ring.parent[f] = f => ring.parent[f] # Ready
BY HeadsFacts DEF IInv, TypeOK, RingType, RingsMatchStatus, Linked, Alive

(* Create is Spawn.                                                        *)
LEMMA CreateMaps ==
  ASSUME IInv, QInv, NEW f \in Fibers, Create(f)
  PROVE  RunQueue!Spawn(f)
<1>1. /\ ~Alive(f) /\ ring'.parent = [ring.parent EXCEPT ![f] = Ready]
      /\ runQueue' = Append(runQueue, f)
  BY CreateQueues DEF QInv, runQueue
<1>2. running' = running /\ status' = [status EXCEPT ![f] = "ready"] /\ running # f
  BY <1>1, PhaseStart DEF Create
<1>3. fiberPhase[f] = "absent"
  BY <1>1, PhaseFacts DEF PhaseShown
<1>4. \A g \in Fibers : fiberPhase'[g] = [fiberPhase EXCEPT ![f] = "queued"][g]
  BY <1>1, <1>2, PhaseFacts, PhaseStart DEF PhaseShown, Alive, IInv, TypeOK
<1>5. fiberPhase' = [fiberPhase EXCEPT ![f] = "queued"]
  BY <1>4, PhaseFacts DEF PhaseShown
<1> QED BY <1>1, <1>2, <1>3, <1>5 DEF RunQueue!Spawn, fiberPhase, runQueue

(* acl_fiber_ready is Unpark.                                              *)
LEMMA WakeMaps ==
  ASSUME IInv, QInv, NEW f \in Fibers, Alive(f), running # f, ring.parent[f] # Ready,
         UNCHANGED <<running, status>>, ring'.parent = [ring.parent EXCEPT ![f] = Ready],
         runQueue' = Append(runQueue, f)
  PROVE  RunQueue!Unpark(f)
<1>1. fiberPhase[f] = "parked"
  BY PhaseFacts DEF PhaseShown
<1>2. \A g \in Fibers : fiberPhase'[g] = [fiberPhase EXCEPT ![f] = "queued"][g]
  BY PhaseFacts, PhaseStart DEF PhaseShown, Alive
<1>3. fiberPhase' = [fiberPhase EXCEPT ![f] = "queued"]
  BY <1>2, PhaseFacts DEF PhaseShown
<1> QED BY <1>1, <1>3 DEF RunQueue!Unpark, fiberPhase, runQueue

(* acl_fiber_yield is Rotate.                                              *)
LEMMA YieldMaps ==
  ASSUME IInv, QInv, NEW f \in Fibers, acl_fiber_yield(f)
  PROVE  RunQueue!Rotate(f)
<1> DEFINE q == Append(runQueue, f)
           par == [ring.parent EXCEPT ![f] = Ready]
           ph == [fiberPhase EXCEPT ![f] = "queued"]
<1>1. HandsOver(q, par) /\ running = f /\ status' = status
  BY YieldQueues DEF QInv, runQueue, acl_fiber_yield
<1>2. /\ ph = [g \in Fibers |-> ph[g]]
      /\ par \in [Fibers \cup Heads -> Fibers \cup Heads]
      /\ \A g \in Fibers : par[g] = Ready => Alive(g)'
      /\ \A g \in Fibers : ph[g] = IF ~Alive(g)' THEN "absent"
                                   ELSE IF par[g] = Ready THEN "queued" ELSE "parked"
  BY <1>1, PhaseStart, PhaseFacts, HeadsFacts DEF PhaseShown, Alive
<1> HIDE DEF par, ph, q
<1>3. IF q = << >>
      THEN runQueue' = q /\ running' = Original /\ fiberPhase' = ph
      ELSE runQueue' = Tail(q) /\ running' = Head(q) /\ fiberPhase' = [ph EXCEPT ![Head(q)] = "running"]
  BY <1>1, <1>2, HandOverMaps
<1> QED BY <1>1, <1>3 DEF RunQueue!Rotate, RunQueue!HandOver, fiberPhase, runQueue, q, ph

(* Leaving the thread to the others is Park.                               *)
LEMMA ParkMaps ==
  ASSUME IInv, QInv, NEW f \in Fibers, running = f, status' = status,
         NEW r \in Fibers \cup Heads, r # Ready,
         HandsOver(runQueue, [ring.parent EXCEPT ![f] = r])
  PROVE  RunQueue!Park(f)
<1> DEFINE q == runQueue
           par == [ring.parent EXCEPT ![f] = r]
           ph == [fiberPhase EXCEPT ![f] = "parked"]
<1>2. /\ ph = [g \in Fibers |-> ph[g]]
      /\ par \in [Fibers \cup Heads -> Fibers \cup Heads]
      /\ \A g \in Fibers : par[g] = Ready => Alive(g)'
      /\ \A g \in Fibers : ph[g] = IF ~Alive(g)' THEN "absent"
                                   ELSE IF par[g] = Ready THEN "queued" ELSE "parked"
  BY PhaseStart, PhaseFacts, HeadsFacts DEF PhaseShown, Alive
<1> HIDE DEF par, ph
<1>3. IF q = << >>
      THEN runQueue' = q /\ running' = Original /\ fiberPhase' = ph
      ELSE runQueue' = Tail(q) /\ running' = Head(q) /\ fiberPhase' = [ph EXCEPT ![Head(q)] = "running"]
  BY <1>2, HandOverMaps DEF par
<1> QED BY <1>3 DEF RunQueue!Park, RunQueue!HandOver, fiberPhase, runQueue, q, ph

(* Running the first ready fiber from the loop is Dispatch.                *)
LEMMA RunMaps ==
  ASSUME IInv, QInv, ScheduleRun
  PROVE  RunQueue!Dispatch
<1> DEFINE q == runQueue
           par == ring.parent
           ph == fiberPhase
<1>1. HandsOver(q, par) /\ running = Original /\ status' = status /\ q # << >>
  BY ScheduleQueues, QueueFacts, HeadsFacts DEF QInv, runQueue, acl_fiber_schedule, ScheduleRun
<1>2. /\ ph = [g \in Fibers |-> ph[g]]
      /\ par \in [Fibers \cup Heads -> Fibers \cup Heads]
      /\ \A g \in Fibers : par[g] = Ready => Alive(g)'
      /\ \A g \in Fibers : ph[g] = IF ~Alive(g)' THEN "absent"
                                   ELSE IF par[g] = Ready THEN "queued" ELSE "parked"
  BY <1>1, PhaseStart, PhaseFacts, HeadsFacts DEF PhaseShown, Alive
<1> HIDE DEF par, ph
<1>3. IF q = << >>
      THEN runQueue' = q /\ running' = Original /\ fiberPhase' = ph
      ELSE runQueue' = Tail(q) /\ running' = Head(q) /\ fiberPhase' = [ph EXCEPT ![Head(q)] = "running"]
  BY <1>1, <1>2, HandOverMaps
<1> QED BY <1>1, <1>3 DEF RunQueue!Dispatch, RunQueue!HandOver, fiberPhase, runQueue, q, ph

(* The end of a fiber is Finish.                                           *)
LEMMA ExitMaps ==
  ASSUME IInv, QInv, NEW f \in Fibers, fiber_exit(f)
  PROVE  RunQueue!Finish(f)
<1> DEFINE ph == [fiberPhase EXCEPT ![f] = "absent"]
<1>1. /\ IF runQueue = << >>
         THEN running' = Original /\ runQueue' = << >>
         ELSE /\ running' = Head(runQueue) /\ running' \in Fibers
              /\ ring.parent[running'] = Ready
              /\ runQueue' = Tail(runQueue)
      /\ \A g \in Fibers \ {f, running'} :
           ring'.parent[g] = Ready <=> ring.parent[g] = Ready
      /\ \A g \in Fibers : Alive(g)' <=> Alive(g) /\ g # f
      /\ running = f
  BY ExitQueues DEF QInv, runQueue, fiber_exit
<1>2. /\ \A g \in Fibers : ring.parent[g] = Ready => Alive(g) /\ running # g
      /\ fiberPhase = [g \in Fibers |-> fiberPhase[g]]
      /\ fiberPhase' = [g \in Fibers |-> fiberPhase'[g]]
      /\ ph = [g \in Fibers |-> ph[g]]
  BY PhaseStart, PhaseFacts DEF PhaseShown
<1>3. ASSUME NEW g \in Fibers
      PROVE  fiberPhase'[g] = IF running' = g THEN "running" ELSE ph[g]
  <2>1. fiberPhase'[g] = IF ~Alive(g)' THEN "absent" ELSE IF running' = g THEN "running"
                    ELSE IF ring'.parent[g] = Ready THEN "queued" ELSE "parked"
    BY PhaseFacts DEF PhaseShown
  <2>2. fiberPhase[g] = IF ~Alive(g) THEN "absent" ELSE IF running = g THEN "running"
                   ELSE IF ring.parent[g] = Ready THEN "queued" ELSE "parked"
    BY PhaseFacts DEF PhaseShown
  <2>3. CASE running' = g
    <3>1. ring.parent[g] = Ready
      BY <1>1, <2>3, HeadsFacts
    <3> QED BY <1>1, <1>2, <2>1, <2>3, <3>1
  <2>4. CASE running' # g /\ g = f
    <3>1. ph[g] = "absent"
      BY <1>2, <2>4
    <3> QED BY <1>1, <2>1, <2>4, <3>1
  <2>5. CASE running' # g /\ g # f
    <3>1. ph[g] = fiberPhase[g]
      BY <1>2, <2>5
    <3>2. /\ Alive(g)' <=> Alive(g)
          /\ ring'.parent[g] = Ready <=> ring.parent[g] = Ready
          /\ running # g
      BY <1>1, <2>5
    <3> HIDE DEF ph
    <3> QED BY <2>1, <2>2, <2>5, <3>1, <3>2
  <2> QED BY <2>3, <2>4, <2>5
<1>4. CASE runQueue = << >>
  <2>1. fiberPhase' = ph
    BY <1>1, <1>2, <1>3, <1>4, HeadsFacts
  <2> QED BY <1>1, <1>4, <2>1 DEF RunQueue!Finish, RunQueue!HandOver, fiberPhase, runQueue, ph
<1>5. CASE runQueue # << >>
  <2>1. \A g \in Fibers : fiberPhase'[g] = [ph EXCEPT ![running'] = "running"][g]
    BY <1>2, <1>3
  <2>2. fiberPhase' = [ph EXCEPT ![running'] = "running"]
    BY <1>2, <2>1
  <2> QED BY <1>1, <1>5, <2>2 DEF RunQueue!Finish, RunQueue!HandOver, fiberPhase, runQueue, ph
<1> QED BY <1>4, <1>5

(* A signal to another fiber is Jump.                                      *)
LEMMA SignalMaps ==
  ASSUME IInv, QInv, NEW f \in Fibers, NEW g \in Fibers, f # g, NEW sig \in Signals,
         acl_fiber_signal(f, g, sig)
  PROVE  RunQueue!Jump(f, g)
<1>1. /\ running' = g /\ Alive(g) /\ running = f /\ status' = status
      /\ ring'.parent = [ring.parent EXCEPT ![f] = Ready, ![g] = g]
      /\ runQueue' = <<f>> \o Without(runQueue, g)
  BY SignalQueues DEF QInv, runQueue, acl_fiber_signal
<1>2. fiberPhase[g] \in {"queued", "parked"}
  BY <1>1, PhaseFacts DEF PhaseShown
<1>3. \A h \in Fibers : fiberPhase'[h] = [fiberPhase EXCEPT ![f] = "queued", ![g] = "running"][h]
  BY <1>1, PhaseFacts, PhaseStart DEF PhaseShown, Alive
<1>4. fiberPhase' = [fiberPhase EXCEPT ![f] = "queued", ![g] = "running"]
  BY <1>3, PhaseFacts DEF PhaseShown
<1> QED BY <1>1, <1>2, <1>4 DEF RunQueue!Jump, RunQueue!Without, Without, fiberPhase, runQueue

(* Every call is a step of the run queue or none.                          *)
LEMMA NextMaps == IInv /\ QInv /\ [Next]_schedVars => [RunQueue!Next]_(RunQueue!runVars)
<1> SUFFICES ASSUME IInv, QInv, [Next]_schedVars PROVE [RunQueue!Next]_(RunQueue!runVars)
  OBVIOUS
<1> DEFINE Same == UNCHANGED <<runQueue, running, fiberPhase>>
<1>0. Same => UNCHANGED RunQueue!runVars
  BY DEF RunQueue!runVars, runQueue, fiberPhase
<1>00. ASSUME running' = running, runQueue' = runQueue,
              \A g \in Fibers : /\ Alive(g)' <=> Alive(g)
                                /\ ring'.parent[g] = Ready <=> ring.parent[g] = Ready
       PROVE  Same
  <2>1. \A g \in Fibers : fiberPhase'[g] = fiberPhase[g]
    BY <1>00, PhaseFacts DEF PhaseShown
  <2>2. fiberPhase' = fiberPhase
    BY <2>1, PhaseFacts DEF PhaseShown
  <2> QED BY <1>00, <2>2
<1>1. CASE UNCHANGED schedVars
  <2>1. Same
    BY <1>1, <1>00 DEF schedVars, runQueue, Alive
  <2> QED BY <1>0, <2>1
<1>2. CASE acl_fiber_schedule
  <2>1. CASE ScheduleRun
    BY <2>1, RunMaps DEF RunQueue!Next
  <2>2. CASE ~ScheduleRun
    <3>1. Same
      BY <1>2, <1>00, <2>2, ScheduleQueues DEF QInv, runQueue
    <3> QED BY <1>0, <3>1
  <2> QED BY <2>1, <2>2
<1>3. ASSUME NEW f \in Fibers, Create(f) PROVE RunQueue!Next
  BY <1>3, CreateMaps DEF RunQueue!Next
<1>4. ASSUME NEW f \in Fibers, acl_fiber_yield(f) PROVE RunQueue!Next
  BY <1>4, YieldMaps DEF RunQueue!Next
<1>5. ASSUME NEW f \in Fibers, Suspend(f) PROVE RunQueue!Next
  <2>1. /\ HandsOver(runQueue, ring.parent) /\ running = f /\ status' = status
        /\ ring.parent[f] = f /\ f # Ready
    BY <1>5, SwitchQueues, RunningFiber, HeadsFacts DEF Suspend, QInv, runQueue
  <2>2. ring.parent = [ring.parent EXCEPT ![f] = f]
    BY <2>1, PhaseStart
  <2>3. RunQueue!Park(f)
    BY <2>1, <2>2, ParkMaps
  <2> QED BY <2>3 DEF RunQueue!Next
<1>6. ASSUME NEW f \in Fibers, fiber_exit(f) PROVE RunQueue!Next
  BY <1>6, ExitMaps DEF RunQueue!Next
<1>7. ASSUME NEW f \in Fibers, Wake(f) PROVE RunQueue!Next
  <2>1. /\ UNCHANGED <<running, status>> /\ Alive(f) /\ running # f
        /\ ring.parent[f] # Ready
        /\ ring'.parent = [ring.parent EXCEPT ![f] = Ready]
        /\ runQueue' = Append(runQueue, f)
    BY <1>7, WakeQueues, PhaseStart DEF Wake, Suspended, Linked, QInv, runQueue
  <2>2. RunQueue!Unpark(f)
    BY <2>1, WakeMaps
  <2> QED BY <2>2 DEF RunQueue!Next
<1>8. ASSUME NEW f \in Fibers, NEW w \in WaitRings, WaitIn(f, w) PROVE RunQueue!Next
  <2>1. /\ HandsOver(runQueue, [ring.parent EXCEPT ![f] = w]) /\ running = f
        /\ status' = status /\ w \in Heads /\ w # Ready
    BY <1>8, WaitInQueues, HeadsFacts DEF WaitIn, QInv, runQueue
  <2>2. RunQueue!Park(f)
    BY <2>1, ParkMaps
  <2> QED BY <2>2 DEF RunQueue!Next
<1>9. ASSUME NEW w \in WaitRings, WakeFirst(w) PROVE RunQueue!Next
  <2> DEFINE g == First(ring, w)
  <2>1. /\ UNCHANGED <<running, status>> /\ g \in Fibers /\ Alive(g) /\ running # g
        /\ ring.parent[g] = w /\ w # Ready
        /\ ring'.parent = [ring.parent EXCEPT ![g] = Ready]
        /\ runQueue' = Append(runQueue, g)
    BY <1>9, WakeFirstQueues, HeadsFacts DEF WakeFirst, QInv, runQueue, Alive
  <2> HIDE DEF g
  <2>2. RunQueue!Unpark(g)
    BY <2>1, WakeMaps
  <2> QED BY <2>1, <2>2 DEF RunQueue!Next
<1>10. ASSUME NEW f \in Fibers, NEW g \in Fibers, NEW sig \in Signals, acl_fiber_signal(f, g, sig)
       PROVE  [RunQueue!Next]_(RunQueue!runVars)
  <2>1. CASE f = g
    <3>1. Same
      BY <1>00, <1>10, <2>1 DEF acl_fiber_signal, runQueue, Alive
    <3> QED BY <1>0, <3>1
  <2>2. CASE f # g
    BY <1>10, <2>2, SignalMaps DEF RunQueue!Next
  <2> QED BY <2>1, <2>2
<1> QED BY <1>1, <1>2, <1>3, <1>4, <1>5, <1>6, <1>7, <1>8, <1>9, <1>10 DEF Next

(* Rings, tables and reuse of blocks together are a first-come             *)
(* first-served queue: only a signal lets a fiber jump it, and no fiber is *)
(* ever lost from it.                                                      *)
THEOREM RunQueueRefined == Spec => ImplementsRunQueue
<1>1. Init => RunQueue!Init
  <2> SUFFICES ASSUME Init PROVE RunQueue!Init
    OBVIOUS
  <2>1. runQueue = << >>
    <3>1. QInv /\ IInv /\ NoEntry(ring, Ready)
      BY InitQInv, InitIInv, HeadsFacts DEF Init, NoEntry, acl_ring_init, Nodes
    <3> QED BY <3>1, QueueFacts, HeadsFacts DEF QInv, runQueue
  <2>2. fiberPhase = [f \in Fibers |-> "absent"]
    BY PhaseFacts DEF PhaseShown, Init, Alive
  <2> QED BY <2>1, <2>2 DEF Init, RunQueue!Init, runQueue, fiberPhase
<1> QED BY <1>1, NextMaps, SpecIInv, SpecQInv, PTL DEF Spec, ImplementsRunQueue, RunQueue!Spec
=============================================================================
