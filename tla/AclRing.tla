------------------------------- MODULE AclRing -------------------------------
(***************************************************************************)
(* The intrusive doubly linked ring of lib_acl (acl_ring.c), on which the  *)
(* fiber library builds every queue it has.  A ring memory m holds, for    *)
(* each ACL_RING node, the four fields of the struct: the two links, the   *)
(* head the node believes it belongs to, and the entry count a head keeps. *)
(* An entry embeds one node only (ACL_FIBER.me), so a fiber can be in at   *)
(* most one ring: linking it again without detaching it first corrupts     *)
(* both rings.  The operators below are the C statements, aliasing         *)
(* included, so such a corruption happens in the model as it would in C.   *)
(*                                                                         *)
(* The fields of a block that is not allocated are never read before       *)
(* acl_ring_prepend overwrites them; they are shown as self links.         *)
(***************************************************************************)
EXTENDS Integers

(* acl_ring_init on every node of N. *)
acl_ring_init(N) ==
  [succ   |-> [n \in N |-> n],
   pred   |-> [n \in N |-> n],
   parent |-> [n \in N |-> n],
   len    |-> [n \in N |-> 0]]

acl_ring_size(m, ring) == m.len[ring]

(* acl_ring_succ, as FIRST_FIBER and acl_ring_pop_head use it. *)
NoEntry(m, ring) == m.succ[ring] = ring
First(m, ring)   == m.succ[ring]

(* Insert entry right after ring: the head of the queue. *)
acl_ring_append(m, ring, entry) ==
  [succ   |-> [m.succ   EXCEPT ![entry] = m.succ[ring], ![ring] = entry],
   pred   |-> [m.pred   EXCEPT ![entry] = ring, ![m.succ[ring]] = entry],
   parent |-> [m.parent EXCEPT ![entry] = m.parent[ring]],
   len    |-> [m.len    EXCEPT ![m.parent[ring]] = @ + 1]]

(* Insert entry right before ring: the tail of the queue. *)
acl_ring_prepend(m, ring, entry) ==
  [succ   |-> [m.succ   EXCEPT ![entry] = ring, ![m.pred[ring]] = entry],
   pred   |-> [m.pred   EXCEPT ![entry] = m.pred[ring], ![ring] = entry],
   parent |-> [m.parent EXCEPT ![entry] = m.parent[ring]],
   len    |-> [m.len    EXCEPT ![m.parent[ring]] = @ + 1]]

(* Faulty variant of acl_ring_detach: the head's entry count is kept.       *)
DetachUncounted(m, entry) ==
  IF m.parent[entry] = entry
  THEN m
  ELSE [succ   |-> [m.succ   EXCEPT ![m.pred[entry]] = m.succ[entry],
                                    ![entry] = entry],
        pred   |-> [m.pred   EXCEPT ![m.succ[entry]] = m.pred[entry],
                                    ![entry] = entry],
        parent |-> [m.parent EXCEPT ![entry] = entry],
        len    |-> [m.len    EXCEPT ![entry] = 0]]

(* Remove entry from its ring; nothing happens to a node that is its own   *)
(* parent, which is how a detached entry looks, and how a head looks.      *)
acl_ring_detach(m, entry) ==
  IF m.parent[entry] = entry
  THEN m
  ELSE [succ   |-> [m.succ   EXCEPT ![m.pred[entry]] = m.succ[entry],
                                    ![entry] = entry],
        pred   |-> [m.pred   EXCEPT ![m.succ[entry]] = m.pred[entry],
                                    ![entry] = entry],
        parent |-> [m.parent EXCEPT ![entry] = entry],
        len    |-> [m.len    EXCEPT ![m.parent[entry]] = @ - 1, ![entry] = 0]]

acl_ring_pop_head(m, ring) ==
  IF NoEntry(m, ring) THEN m ELSE acl_ring_detach(m, First(m, ring))

-----------------------------------------------------------------------------
(* What the rings are meant to be, for entries E and heads H.              *)

RingType(m, E, H) ==
  m \in [succ   : [E \cup H -> E \cup H], pred : [E \cup H -> E \cup H],
         parent : [E \cup H -> E \cup H], len  : [E \cup H -> Int]]

(* The links of the two directions agree, a ring has one parent, the head, *)
(* and a node with no parent but itself is alone.                          *)
WellLinked(m, E, H) ==
  /\ \A n \in E \cup H : m.succ[m.pred[n]] = n /\ m.pred[m.succ[n]] = n
  /\ \A n \in E \cup H : m.parent[m.succ[n]] = m.parent[n]
  /\ \A h \in H : m.parent[h] = h
  /\ \A e \in E : m.parent[e] \in H \/ (m.parent[e] = e /\ m.succ[e] = e)

Members(m, ring, E) == {e \in E : m.parent[e] = ring}

(* The entries met by following succ from the head, the last one being     *)
(* followed by the head again: the queue the ring stands for.              *)
Walk(m, ring) ==
  LET node[i \in 0 .. m.len[ring]] == IF i = 0 THEN ring ELSE m.succ[node[i - 1]]
  IN  [i \in 1 .. m.len[ring] |-> node[i]]
=============================================================================
