------------------------------- MODULE LinuxUsers -------------------------------
(***************************************************************************)
(* The host's accounts (internal/users/linux.go, handlers_users.go).  A    *)
(* creation is useradd and then chpasswd, both by name; names and homes    *)
(* outlive accounts.  What happens inside one authorized_keys is           *)
(* AuthorizedKeys'.                                                        *)
(***************************************************************************)
EXTENDS Naturals

CONSTANTS
  Handlers,      \* goroutines serving requests
  Names, Passwords, Keys,
  MaxAccounts    \* bound: accounts ever made

Locked == "!"
NoAccount == 0

VARIABLES
  account,    \* name -> its account, told apart from an earlier one of the name
  password,   \* name -> what opens it; useradd leaves it Locked
  home,       \* name -> the authorized keys in its home; {} also without a home
  last,       \* accounts made so far
  pc, req,    \* requests in progress
  chosen,     \* history: account -> passwords asked for for it
  authorized, \* history: account -> keys added to it
  inherited,  \* history: a home was kept that had keys
  disturbed   \* history: an account was deleted under a request about it

userVars == <<account, password, home, last, pc, req, chosen, authorized, inherited, disturbed>>

NoRequest == [name |-> "none", password |-> Locked]
Accounts == 1..MaxAccounts

(* No account has a password of its own while it is not there. *)
TypeOK ==
  /\ account \in [Names -> {NoAccount} \cup Accounts]
  /\ \A n \in Names :
       /\ password[n] \in Passwords \cup {Locked}
       /\ account[n] = NoAccount => password[n] = Locked
       /\ home[n] \subseteq Keys
  /\ last \in {NoAccount} \cup Accounts
  /\ \A h \in Handlers : pc[h] \in {"idle", "chpasswd"}

Init ==
  /\ account = [n \in Names |-> NoAccount] /\ password = [n \in Names |-> Locked]
  /\ home = [n \in Names |-> {}] /\ last = NoAccount
  /\ pc = [h \in Handlers |-> "idle"] /\ req = [h \in Handlers |-> NoRequest]
  /\ chosen = [a \in Accounts |-> {}] /\ authorized = [a \in Accounts |-> {}]
  /\ inherited = FALSE /\ disturbed = FALSE

Reply(h) == pc' = [pc EXCEPT ![h] = "idle"] /\ req' = [req EXCEPT ![h] = NoRequest]

(* handleLinuxUserCreate is done, or goes on to the password. *)
GoesOn(h, n, p) ==
  IF p = Locked THEN UNCHANGED <<pc, req>>
  ELSE /\ pc' = [pc EXCEPT ![h] = "chpasswd"]
       /\ req' = [req EXCEPT ![h] = [name |-> n, password |-> p]]

(* useradd -m: a name that is taken is refused, a home that is there is used. *)
Create(h, n, p) ==
  /\ pc[h] = "idle" /\ account[n] = NoAccount /\ last < MaxAccounts
  /\ last' = last + 1
  /\ account' = [account EXCEPT ![n] = last']
  /\ chosen' = [chosen EXCEPT ![last'] = {p}]
  /\ GoesOn(h, n, p)
  /\ UNCHANGED <<password, home, authorized, inherited, disturbed>>

(* handleLinuxUserPassword, about the account the page shows. *)
BeginSetPassword(h, n, p) ==
  /\ pc[h] = "idle" /\ account[n] # NoAccount /\ p # Locked
  /\ chosen' = [chosen EXCEPT ![account[n]] = @ \cup {p}]
  /\ GoesOn(h, n, p)
  /\ UNCHANGED <<account, password, home, last, authorized, inherited, disturbed>>

(* chpasswd looks the name up; without an account it fails. *)
SetPassword(h) ==
  LET n == req[h].name
  IN /\ pc[h] = "chpasswd"
     /\ password' = IF account[n] = NoAccount THEN password
                    ELSE [password EXCEPT ![n] = req[h].password]
     /\ Reply(h)
     /\ UNCHANGED <<account, home, last, chosen, authorized, inherited, disturbed>>

(* chpasswd refuses the password, or the process dies: the account stays. *)
SetPasswordFails(h) ==
  /\ pc[h] = "chpasswd"
  /\ Reply(h)
  /\ UNCHANGED <<account, password, home, last, chosen, authorized, inherited, disturbed>>

(* Mutant: homes are never removed. *)
DeleteAccount(n, removeHome) ==
  /\ account[n] # NoAccount
  /\ account' = [account EXCEPT ![n] = NoAccount]
  /\ password' = [password EXCEPT ![n] = Locked]
  /\ inherited' = (inherited \/ (~removeHome /\ home[n] # {}))
  /\ disturbed' = (disturbed \/ \E h \in Handlers : pc[h] # "idle" /\ req[h].name = n)
  /\ UNCHANGED <<home, last, pc, req, chosen, authorized>>

(* userdel, with -r or without. *)
Delete(n, removeHome) ==
  /\ account[n] # NoAccount
  /\ account' = [account EXCEPT ![n] = NoAccount]
  /\ password' = [password EXCEPT ![n] = Locked]
  /\ home' = IF removeHome THEN [home EXCEPT ![n] = {}] ELSE home
  /\ inherited' = (inherited \/ (~removeHome /\ home[n] # {}))
  /\ disturbed' = (disturbed \/ \E h \in Handlers : pc[h] # "idle" /\ req[h].name = n)
  /\ UNCHANGED <<last, pc, req, chosen, authorized>>

(* authorizedKeysPath finds the home of an account only. *)
AddKey(n, k) ==
  /\ account[n] # NoAccount
  /\ home' = [home EXCEPT ![n] = @ \cup {k}]
  /\ authorized' = [authorized EXCEPT ![account[n]] = @ \cup {k}]
  /\ UNCHANGED <<account, password, last, pc, req, chosen, inherited, disturbed>>

DeleteKey(n, k) ==
  /\ account[n] # NoAccount
  /\ home' = [home EXCEPT ![n] = @ \ {k}]
  /\ UNCHANGED <<account, password, last, pc, req, chosen, authorized, inherited, disturbed>>

Next ==
  \/ \E h \in Handlers :
       \/ \E n \in Names, p \in Passwords \cup {Locked} : Create(h, n, p) \/ BeginSetPassword(h, n, p)
       \/ SetPassword(h) \/ SetPasswordFails(h)
  \/ \E n \in Names :
       \/ \E removeHome \in BOOLEAN : Delete(n, removeHome)
       \/ \E k \in Keys : AddKey(n, k) \/ DeleteKey(n, k)

(* What opens an account was asked for for this account and no earlier one of
   its name: its password unless it was deleted while it was being set, its
   keys unless an account was deleted with its home left in place. *)
OpensAsAsked ==
  \A n \in Names : account[n] # NoAccount =>
    /\ ~disturbed => password[n] \in chosen[account[n]] \cup {Locked}
    /\ ~inherited => home[n] \subseteq authorized[account[n]]
==============================================================================
