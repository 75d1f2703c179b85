----------------------------- MODULE MCPanelUsers -----------------------------
(* Small instances of Panel: who serves what, in each run. *)
EXTENDS Panel, TLC

CONSTANTS h1, h2

Both == {h1, h2}

(* One goroutine removes, demotes and makes accounts anew while the other makes
   accounts, signs users in and resets passwords. *)
OneRemover == (h1 :> Removals \cup {"create"})
              @@ (h2 :> {"setup", "create", "setPassword", "login", "oidc", "logout"})

(* Tokens are issued and revoked while roles change and accounts go. *)
TokensAndRoles == (h1 :> {"setup", "login", "create", "tokenCreate"})
                  @@ (h2 :> {"delete", "setRole", "tokenDelete"})

(* Both goroutines remove and demote. *)
BothRemove == [h \in Both |-> Removals \cup {"create", "setup", "login"}]
==============================================================================
