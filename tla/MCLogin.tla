------------------------------- MODULE MCLogin -------------------------------
(* Small instances of Login: who serves what, in each run. *)
EXTENDS Login

CONSTANTS h1, h2

Both == {h1, h2}

(* Everything in both goroutines. *)
Everything == [h \in Both |-> Kind]

(* One user: signs in and enrolls. *)
LoginAndEnroll == [h \in Both |-> Kind \ {"disable"}]
==============================================================================
