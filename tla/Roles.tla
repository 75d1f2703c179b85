-------------------------------- MODULE Roles --------------------------------
(***************************************************************************)
(* The three panel roles and their order (internal/auth/role.go).          *)
(***************************************************************************)
EXTENDS Naturals

Role == {"viewer", "operator", "admin"}

(* roleRank: a higher rank is a superset of the permissions below it. *)
Rank == [r \in Role |-> CASE r = "viewer"   -> 1
                          [] r = "operator" -> 2
                          [] r = "admin"    -> 3]

AtLeast(r, min) == Rank[r] >= Rank[min]
==============================================================================
