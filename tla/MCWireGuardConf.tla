--------------------------- MODULE MCWireGuardConf ---------------------------
(* Small instances of ConfFiles. *)
EXTENDS ConfFiles, TLC

CONSTANTS h1, h2, i1, i2, i3

One == {h1}
Both == {h1, h2}
ThreeInodes == {i1, i2, i3}
Symmetry == Permutations(Both) \cup Permutations(ThreeInodes)
ShortAndLong == [short |-> 1, long |-> 2]

(* Requests one after the other; anything at once. *)
Serial == [h \in One |-> Kind]
Anything == [h \in Both |-> Kind]

(* Nothing is claimed of what follows a removal that overlapped a request, or a
   file that was cut short. *)
NotDisturbed == ~overlap /\ ~cut
==============================================================================
