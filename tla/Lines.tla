--------------------------------- MODULE Lines ---------------------------------
(***************************************************************************)
(* Texts that are rewritten without some of their lines or blocks: what a  *)
(* loop over them that keeps some makes of a text, said by the numbers of  *)
(* the lines that stay.                                                    *)
(***************************************************************************)
EXTENDS Naturals, Sequences, FiniteSets

(* How many of the numbers come no later than k, and the n-th of them. *)
UpTo(numbers, k) == {j \in numbers : j <= k}
Nth(numbers, n) == CHOOSE k \in numbers : Cardinality(UpTo(numbers, k)) = n

(* The lines with these numbers, in the order of the text. *)
LinesAt(text, numbers) == [n \in 1..Cardinality(numbers) |-> text[Nth(numbers, n)]]
================================================================================
