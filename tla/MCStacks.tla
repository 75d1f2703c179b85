------------------------------- MODULE MCStacks -------------------------------
(* A small instance of Stacks, with the Docker page beside it. *)
EXTENDS DockerPage, TLC

CONSTANTS h1, h2, c1, c2, c3

Both == {h1, h2}
Anything == [h \in Both |-> Kind]

Three == {c1, c2, c3}

(* Goroutines are alike, and so are the engine's identifiers. *)
Symmetry == Permutations(Both) \cup Permutations(Three)

(* 1 depends on 2, which depends on a service the text does not have. *)
TwoServices == [deps |-> <<{2}, {7}>>, objects |-> {"net"}]
OneService == [deps |-> <<{}>>, objects |-> {"data"}]
Cycle == [deps |-> <<{2}, {1}>>, objects |-> {}]

(* Every graph of three services and a missing one. *)
ASSUME SortIsTopological == \A deps \in [1..3 -> SUBSET (1..4)] : Topological(deps)

MCFiles == {TwoServices, OneService, Cycle}
===============================================================================
