----------------------------- MODULE AccountTable -----------------------------
(***************************************************************************)
(* What panel-user management promises, with every request taken to be     *)
(* atomic: a table of accounts in which ids are never given out twice and  *)
(* from which the last admin can be neither deleted nor demoted.           *)
(* PanelUsers, which runs the same requests one SQL statement at a time,   *)
(* is shown to implement it when admin removals do not overlap.            *)
(***************************************************************************)
EXTENDS Roles

CONSTANTS Names, Passwords

VARIABLES users,    \* id -> row, for the accounts that exist
          lastId    \* the last id handed out

tableVars == <<users, lastId>>

Row == [name : Names, role : Role, pw : Passwords]

Admins == {i \in DOMAIN users : users[i].role = "admin"}

TableInit == /\ users = [i \in {} |-> 0]
             /\ lastId = 0

(* A new account, under an id never used before and a name nobody has. *)
Add(row) ==
  /\ \A i \in DOMAIN users : users[i].name # row.name
  /\ lastId' = lastId + 1
  /\ users' = [i \in DOMAIN users \cup {lastId + 1} |->
                 IF i = lastId + 1 THEN row ELSE users[i]]

(* An account goes, unless it is the only admin there is. *)
Remove(id) ==
  /\ id \in DOMAIN users
  /\ Admins # {id}
  /\ users' = [i \in DOMAIN users \ {id} |-> users[i]]
  /\ UNCHANGED lastId

(* An account gets another role, unless that demotes the only admin. *)
Reassign(id, role) ==
  /\ id \in DOMAIN users
  /\ role # "admin" => Admins # {id}
  /\ users' = [users EXCEPT ![id].role = role]
  /\ UNCHANGED lastId

(* An account gets another password. *)
Rekey(id, pw) ==
  /\ id \in DOMAIN users
  /\ users' = [users EXCEPT ![id].pw = pw]
  /\ UNCHANGED lastId

TableNext ==
  \/ \E row \in Row : Add(row)
  \/ \E id \in DOMAIN users : \/ Remove(id)
                              \/ \E role \in Role : Reassign(id, role)
                              \/ \E pw \in Passwords : Rekey(id, pw)

TableSpec == TableInit /\ [][TableNext]_tableVars
==============================================================================
