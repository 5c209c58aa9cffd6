----------------------------- MODULE FanoutPlan -----------------------------
(***************************************************************************)
(* The frozen plan of a fanout (multi_agent/domain/fanout.py): which plans *)
(* are accepted, which declared write scopes collide, and the one order in *)
(* which candidates may be integrated.                                     *)
(*                                                                         *)
(* A plan is a record: tasks, the tasks in the order they are declared;    *)
(* hard and live, its two kinds of dependency as <<upstream, task>> pairs  *)
(* (a pair carries at most one LIVE semantic key, so the key is the pair); *)
(* scope, the paths a task may write, none for a read-only task.  A path   *)
(* is the sequence of its components.                                      *)
(***************************************************************************)
EXTENDS Naturals, FiniteSets, SequencesExt

Members(p) == {p.tasks[i] : i \in DOMAIN p.tasks}

(* The elements of s that are in keep, in their order.  A filter with a    *)
(* set, not a predicate as SelectSeq has it: proofs can use its definition. *)
Kept(s, keep) ==
  LET kept[n \in 0..Len(s)] ==
        IF n = 0 THEN <<>>
        ELSE IF s[n] \in keep THEN Append(kept[n - 1], s[n]) ELSE kept[n - 1]
  IN  kept[Len(s)]

Upstream(edges, t) == {e[1] : e \in {d \in edges : d[2] = t}}

(* Layer by layer: what depends on nothing that is left, as declared. *)
Layered(p, edges) ==
  LET layer(before) == {t \in Members(p) \ before :
                          Upstream(edges, t) \cap Members(p) \subseteq before}
      placed[n \in 0..Len(p.tasks)] ==
        IF n = 0 THEN <<>>
        ELSE placed[n - 1] \o Kept(p.tasks, layer(ToSet(placed[n - 1])))
  IN  placed[Len(p.tasks)]

IntegrationOrder(p) == Layered(p, p.hard \cup p.live)

(* Every round must find a task whose upstream is placed. *)
Acyclic(p, edges) == Len(Layered(p, edges)) = Len(p.tasks)

PathsOverlap(l, r) ==
  /\ l # <<>> /\ r # <<>>
  /\ IsPrefix(l, r) \/ IsPrefix(r, l)

ScopesOverlap(p, t, u) ==
  \E l \in p.scope[t], r \in p.scope[u] : PathsOverlap(l, r)

ScopeConflict(p, tasks) ==
  \E t, u \in tasks : t # u /\ ScopesOverlap(p, t, u)

LiveTasks(p) == {e[1] : e \in p.live} \cup {e[2] : e \in p.live}

ValidPlan(p) ==
  /\ Len(p.tasks) \in 1..16
  /\ Cardinality(Members(p)) = Len(p.tasks)
  /\ \A e \in p.hard : e[1] # e[2]
  /\ \A e \in p.hard \cup p.live : e[1] \in Members(p) /\ e[2] \in Members(p)
  /\ p.hard \cap p.live = {}
  /\ Acyclic(p, p.hard)
  /\ Acyclic(p, p.hard \cup p.live)
  /\ ~ScopeConflict(p, LiveTasks(p))
============================================================================
