-------------------------------- MODULE MCHost --------------------------------
(* A small instance of Host: two requests at once. *)
EXTENDS Host, TLC

CONSTANTS h1, h2

Both == {h1, h2}
Symmetry == Permutations(Both)
===============================================================================
