------------------------------- MODULE TopoSort -------------------------------
(***************************************************************************)
(* The order in which a stack's services are created                       *)
(* (internal/compose/manager.go, topoSort).                                *)
(*                                                                         *)
(* Services are numbered in the alphabetical order of their names; deps    *)
(* maps each to the services it depends on, some of which may not be       *)
(* there.                                                                  *)
(***************************************************************************)
EXTENDS Naturals, FiniteSets, Sequences, Functions

(* A text has finitely many services. *)
Graph(deps) ==
  /\ DOMAIN deps \in SUBSET Nat /\ IsFiniteSet(DOMAIN deps)
  /\ deps \in [DOMAIN deps -> SUBSET Nat]

(* depends_on a service that is not in this file is tolerated. *)
Known(deps, n) == deps[n] \cap DOMAIN deps

Alphabetical(services) ==
  CHOOSE order \in [1..Cardinality(services) -> services] :
    \A i, j \in DOMAIN order : i < j => order[i] < order[j]

(* The services nobody waits for go first. *)
Start(deps) ==
  [indeg |-> [n \in DOMAIN deps |-> Cardinality(Known(deps, n))],
   queue |-> Alphabetical({n \in DOMAIN deps : Known(deps, n) = {}}),
   out   |-> <<>>]

(* The head of the queue is ordered; those that waited for it alone join. *)
Pop(deps, s) ==
  LET n == Head(s.queue)
      dependents == {d \in DOMAIN deps : n \in deps[d]}
      indeg == [d \in DOMAIN deps |-> IF d \in dependents THEN s.indeg[d] - 1 ELSE s.indeg[d]]
  IN [indeg |-> indeg,
      queue |-> Tail(s.queue) \o Alphabetical({d \in dependents : indeg[d] = 0}),
      out   |-> Append(s.out, n)]

(* The queue after each service popped; it runs dry at a cycle. *)
Sorted(deps) ==
  LET after[k \in 0..Cardinality(DOMAIN deps)] ==
        IF k = 0 THEN Start(deps)
        ELSE IF after[k - 1].queue = <<>> THEN after[k - 1]
        ELSE Pop(deps, after[k - 1])
  IN after[Cardinality(DOMAIN deps)].out

(* "compose: depends_on cycle detected" *)
CycleDetected(deps) == Len(Sorted(deps)) # Cardinality(DOMAIN deps)

(* Reference: every set of services has one that depends on none of the set. *)
Acyclic(deps) ==
  \A services \in (SUBSET DOMAIN deps) \ {{}} :
    \E n \in services : deps[n] \cap services = {}

(* No service comes twice, or before one it depends on. *)
DependenciesEarlier(deps, order) ==
  \A i, j \in DOMAIN order :
    /\ order[i] = order[j] => i = j
    /\ order[j] \in Known(deps, order[i]) => j < i

(* A cycle is found exactly where there is one, and without it every service comes
   once, behind those it depends on. *)
Topological(deps) ==
  /\ CycleDetected(deps) <=> ~Acyclic(deps)
  /\ ~CycleDetected(deps) =>
       /\ Sorted(deps) \in Seq(DOMAIN deps) /\ Range(Sorted(deps)) = DOMAIN deps
       /\ DependenciesEarlier(deps, Sorted(deps))
==============================================================================
