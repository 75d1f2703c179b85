------------------------------ MODULE PanelUsers ------------------------------
(***************************************************************************)
(* Panel accounts, their sessions and their API tokens, and the HTTP       *)
(* requests that read and change them.                                     *)
(*                                                                         *)
(* Store.Open limits the pool to one connection, so an SQL statement is    *)
(* atomic; nothing holds a transaction or a lock across two of them.  A    *)
(* request is therefore a process: between two of its statements any other *)
(* request may run.  One action is one statement with the Go code up to    *)
(* the next one; pc names the statement a request will run next and req    *)
(* what it remembers from the ones it ran.  An argument of a request is    *)
(* chosen when the request first uses it.                                  *)
(***************************************************************************)
EXTENDS Roles, FiniteSets

CONSTANTS
  Handlers,      \* goroutines serving requests
  Kinds,         \* Kinds[h]: the requests that goroutine h may serve
  Names,         \* user names
  Passwords,     \* passwords (a hash stands for its password)
  OIDCRole,      \* the role of a first-time single-sign-on user
  MaxUsers,      \* bounds of the model: ids handed out for accounts, ...
  MaxSessions,   \* ... sessions ...
  MaxTokens      \* ... and API tokens

UserKinds == {"create", "delete", "setRole", "setPassword"}
AuthedKinds == UserKinds \cup {"logout", "tokenCreate", "tokenDelete"}
Kind == AuthedKinds \cup {"setup", "login", "oidc"}

(* The role a route demands before its handler runs. *)
MinRole(kind) == IF kind \in UserKinds THEN "admin" ELSE "viewer"

ASSUME KindsAssumption == Kinds \in [Handlers -> SUBSET Kind]
ASSUME NamesAssumption == Names # {}
ASSUME OIDCRoleAssumption == OIDCRole \in Role
ASSUME BoundsAssumption == MaxUsers \in Nat /\ MaxSessions \in Nat /\ MaxTokens \in Nat

VARIABLES
  users,        \* table users:      id -> [name, role, pw]
  sessions,     \* table sessions:   id -> user id
  tokens,       \* table api_tokens: id -> [owner, role]
  lastId, lastSession, lastToken,   \* the last id used in each table
  pc, req,      \* the requests in progress
  top           \* history: id -> the highest rank the account ever had

dbVars == <<users, sessions, tokens, lastId, lastSession, lastToken, top>>
vars == <<users, sessions, tokens, lastId, lastSession, lastToken, pc, req, top>>

Row == [name : Names, role : Role, pw : Passwords]
Token == [owner : Nat, role : Role]

PC == {"idle", "caller", "handler", "guard", "write",
       "setup", "oidcCreate", "session"}

(* kind, via: what is asked and how it is authenticated; caller, role: the
   user record put in the request context; key: the session to end; target,
   seen: the row read and its name; new: the role asked for; name: the user
   name a sign-in is about. *)
Request == [kind : Kind \cup {"none"}, via : {"none", "session", "token"},
            caller : Nat, role : Role, key : Nat, target : Nat,
            seen : Names, new : Role, name : Names]

(* A field a request does not use yet holds a default. *)
AnyName == CHOOSE name \in Names : TRUE

NoRequest == [kind |-> "none", via |-> "none", caller |-> 0, role |-> "viewer",
              key |-> 0, target |-> 0, seen |-> AnyName, new |-> "viewer",
              name |-> AnyName]

TablesOK ==
  /\ lastId \in Nat /\ lastSession \in Nat /\ lastToken \in Nat
  /\ users \in [DOMAIN users -> Row] /\ DOMAIN users \subseteq 1..lastId
  /\ sessions \in [DOMAIN sessions -> Nat]
  /\ DOMAIN sessions \subseteq 1..lastSession
  /\ tokens \in [DOMAIN tokens -> Token]
  /\ DOMAIN tokens \subseteq 1..lastToken
  /\ top \in [1..lastId -> 0..3]

RequestsOK ==
  /\ pc \in [Handlers -> PC]
  /\ req \in [Handlers -> Request]

(* Every table and every request in progress has its type; the ids of a table
   are among those its counter has handed out. *)
TypeOK == TablesOK /\ RequestsOK

Admins == {i \in DOMAIN users : users[i].role = "admin"}

Init ==
  /\ users = [i \in {} |-> 0] /\ lastId = 0
  /\ sessions = [i \in {} |-> 0] /\ lastSession = 0
  /\ tokens = [i \in {} |-> 0] /\ lastToken = 0
  /\ pc = [h \in Handlers |-> "idle"]
  /\ req = [h \in Handlers |-> NoRequest]
  /\ top = [i \in {} |-> 0]

------------------------------------------------------------------------------
(* The statements of internal/store. *)

(* Mutants: ids counted from zero; and ids of a table without AUTOINCREMENT. *)
NewUserIdFromZero == lastId
NewUserIdReused == CHOOSE i \in 1..(lastId + 1) :
                     /\ i \notin DOMAIN users
                     /\ \A j \in DOMAIN users : j < i
                     /\ i > 1 => i - 1 \in DOMAIN users

(* users.id is AUTOINCREMENT: never a value used before. *)
NewUserId == lastId + 1

(* INSERT INTO users; the UNIQUE name makes it fail. *)
NameTaken(name) == \E i \in DOMAIN users : users[i].name = name

CreateUser(name, role, pw) ==
  /\ lastId < MaxUsers
  /\ lastId' = lastId + 1
  /\ users' = [i \in DOMAIN users \cup {NewUserId} |->
                 IF i = NewUserId THEN [name |-> name, role |-> role, pw |-> pw]
                                  ELSE users[i]]
  /\ top' = [i \in DOMAIN top \cup {NewUserId} |->
                 IF i = NewUserId THEN Rank[role] ELSE top[i]]
  /\ UNCHANGED <<sessions, tokens, lastSession, lastToken>>

(* DELETE FROM users; ON DELETE CASCADE takes the sessions and tokens along. *)
DeleteUser(id) ==
  /\ users' = [i \in DOMAIN users \ {id} |-> users[i]]
  /\ sessions' = [s \in {s \in DOMAIN sessions : sessions[s] # id} |-> sessions[s]]
  /\ tokens' = [t \in {t \in DOMAIN tokens : tokens[t].owner # id} |-> tokens[t]]
  /\ UNCHANGED <<lastId, lastSession, lastToken, top>>

(* UPDATE users SET role / SET pw_hash WHERE id: no row, no effect. *)
UpdateUserRole(id, role) ==
  /\ users' = [i \in DOMAIN users |->
                 IF i = id THEN [users[i] EXCEPT !.role = role] ELSE users[i]]
  /\ top' = [i \in DOMAIN top |->
                 IF i = id /\ i \in DOMAIN users /\ Rank[role] > top[i]
                 THEN Rank[role] ELSE top[i]]
  /\ UNCHANGED <<sessions, tokens, lastId, lastSession, lastToken>>

UpdateUserPassword(id, pw) ==
  /\ users' = [i \in DOMAIN users |->
                 IF i = id THEN [users[i] EXCEPT !.pw = pw] ELSE users[i]]
  /\ UNCHANGED <<sessions, tokens, lastId, lastSession, lastToken, top>>

(* Mutant: foreign keys not enforced. *)
OwnerUnchecked(id) == TRUE

(* INSERT INTO sessions / api_tokens; a foreign key to a row that is gone
   makes them fail. *)
OwnerExists(id) == id \in DOMAIN users

CreateSession(id) ==
  /\ lastSession < MaxSessions
  /\ lastSession' = lastSession + 1
  /\ sessions' = [s \in DOMAIN sessions \cup {lastSession + 1} |->
                    IF s = lastSession + 1 THEN id ELSE sessions[s]]
  /\ UNCHANGED <<users, tokens, lastId, lastToken, top>>

CreateAPIToken(id, role) ==
  /\ lastToken < MaxTokens
  /\ lastToken' = lastToken + 1
  /\ tokens' = [t \in DOMAIN tokens \cup {lastToken + 1} |->
                  IF t = lastToken + 1 THEN [owner |-> id, role |-> role]
                                       ELSE tokens[t]]
  /\ UNCHANGED <<users, sessions, lastId, lastSession, top>>

DeleteSession(sid) ==
  /\ sessions' = [s \in DOMAIN sessions \ {sid} |-> sessions[s]]
  /\ UNCHANGED <<users, tokens, lastId, lastSession, lastToken, top>>

DeleteAPIToken(tid) ==
  /\ tokens' = [t \in DOMAIN tokens \ {tid} |-> tokens[t]]
  /\ UNCHANGED <<users, sessions, lastId, lastSession, lastToken, top>>

------------------------------------------------------------------------------
(* The life of a request.  One that is refused before it changes anything at
   its first statement (no such session or token, unknown user, bad password,
   already configured) leaves no trace and is not an action. *)

Become(h, step, record) == /\ pc' = [pc EXCEPT ![h] = step]
                           /\ req' = [req EXCEPT ![h] = record]

Reply(h) == Become(h, "idle", NoRequest)

(* GetSession: the cookie of a live session. *)
FindSession(h) ==
  /\ pc[h] = "idle"
  /\ \E kind \in Kinds[h] \cap AuthedKinds, sid \in DOMAIN sessions :
       Become(h, "caller", [NoRequest EXCEPT !.kind = kind, !.via = "session",
                                             !.key = sid, !.caller = sessions[sid]])
  /\ UNCHANGED dbVars

(* GetAPITokenByHash: a bearer token; its role will be the request's role. *)
FindToken(h) ==
  /\ pc[h] = "idle"
  /\ \E kind \in Kinds[h] \cap AuthedKinds, tid \in DOMAIN tokens :
       Become(h, "caller", [NoRequest EXCEPT !.kind = kind, !.via = "token",
                                             !.caller = tokens[tid].owner,
                                             !.role = tokens[tid].role])
  /\ UNCHANGED dbVars

(* The role a request runs with: a token's role replaces its owner's. *)
EffectiveRole(r) == IF r.via = "token" THEN r.role ELSE users[r.caller].role

(* GetUser of the caller, then the role check of the route. *)
LoadCaller(h) ==
  /\ pc[h] = "caller"
  /\ LET r == req[h] IN
       IF r.caller \in DOMAIN users /\ AtLeast(EffectiveRole(r), MinRole(r.kind))
       THEN Become(h, "handler", [r EXCEPT !.role = EffectiveRole(r)])
       ELSE Reply(h)
  /\ UNCHANGED dbVars

(* An expired session goes: LookupSession meets it or bgSweep collects it. *)
ExpireSession ==
  /\ \E sid \in DOMAIN sessions : DeleteSession(sid)
  /\ UNCHANGED <<pc, req>>

Serving(h, kind) == pc[h] = "handler" /\ req[h].kind = kind

(* A token has no session to end. *)
Logout(h) ==
  /\ Serving(h, "logout")
  /\ IF req[h].via = "session" THEN DeleteSession(req[h].key) ELSE UNCHANGED dbVars
  /\ Reply(h)

PanelUserCreate(h) ==
  /\ Serving(h, "create")
  /\ \E name \in Names, role \in Role, pw \in Passwords :
       IF NameTaken(name) THEN UNCHANGED dbVars ELSE CreateUser(name, role, pw)
  /\ Reply(h)

------------------------------------------------------------------------------
(* Delete, set role, set password: read the target, guard, write. *)

(* Mutant: demotions are not guarded. *)
NeedsGuardToDelete(kind, row, new) == row.role = "admin" /\ kind = "delete"

(* Deleting, or demoting from admin, needs the guard. *)
NeedsGuard(kind, row, new) ==
  row.role = "admin" /\ (kind = "delete" \/ (kind = "setRole" /\ new # "admin"))

(* GetUser of the target; nobody deletes the own account. *)
ReadTarget(h) ==
  /\ pc[h] = "handler" /\ req[h].kind \in {"delete", "setRole", "setPassword"}
  /\ \/ \E id \in DOMAIN users, new \in Role :
          LET r == [req[h] EXCEPT !.target = id, !.seen = users[id].name,
                                  !.new = new]
          IN /\ r.kind = "delete" => id # r.caller
             /\ r.kind # "setRole" => new = "viewer"
             /\ Become(h, IF NeedsGuard(r.kind, users[id], new)
                          THEN "guard" ELSE "write", r)
     \/ Reply(h)
  /\ UNCHANGED dbVars

(* Mutant: the guard is off by one. *)
GuardNoAdmin(h) ==
  /\ pc[h] = "guard"
  /\ IF Cardinality(Admins) < 1 THEN Reply(h) ELSE Become(h, "write", req[h])
  /\ UNCHANGED dbVars

(* guardLastAdmin: ListUsers and count. *)
GuardLastAdmin(h) ==
  /\ pc[h] = "guard"
  /\ IF Cardinality(Admins) <= 1 THEN Reply(h) ELSE Become(h, "write", req[h])
  /\ UNCHANGED dbVars

PanelUserDelete(h) ==
  /\ pc[h] = "write" /\ req[h].kind = "delete"
  /\ DeleteUser(req[h].target)
  /\ Reply(h)

PanelUserSetRole(h) ==
  /\ pc[h] = "write" /\ req[h].kind = "setRole"
  /\ UpdateUserRole(req[h].target, req[h].new)
  /\ Reply(h)

PanelUserSetPassword(h) ==
  /\ pc[h] = "write" /\ req[h].kind = "setPassword"
  /\ \E pw \in Passwords : UpdateUserPassword(req[h].target, pw)
  /\ Reply(h)

------------------------------------------------------------------------------
(* API tokens. *)

(* Mutant: no cap on the role of a token. *)
MayIssueAny(r, role) == TRUE

(* The cap compares with the role the request was authenticated with. *)
MayIssue(r, role) == AtLeast(r.role, role)

TokenCreate(h) ==
  /\ Serving(h, "tokenCreate")
  /\ \E role \in Role :
       IF MayIssue(req[h], role) /\ OwnerExists(req[h].caller)
       THEN CreateAPIToken(req[h].caller, role)
       ELSE UNCHANGED dbVars
  /\ Reply(h)

(* GetAPIToken: the owner or an admin may revoke. *)
ReadToken(h) ==
  /\ Serving(h, "tokenDelete")
  /\ \/ \E tid \in DOMAIN tokens :
          /\ tokens[tid].owner = req[h].caller \/ req[h].role = "admin"
          /\ Become(h, "write", [req[h] EXCEPT !.target = tid])
     \/ Reply(h)
  /\ UNCHANGED dbVars

TokenDelete(h) ==
  /\ pc[h] = "write" /\ req[h].kind = "tokenDelete"
  /\ DeleteAPIToken(req[h].target)
  /\ Reply(h)

------------------------------------------------------------------------------
(* Public requests: first-run setup, password login, single sign-on. *)

(* CountUsers. *)
SetupCount(h) ==
  /\ pc[h] = "idle" /\ "setup" \in Kinds[h]
  /\ DOMAIN users = {}
  /\ Become(h, "setup", [NoRequest EXCEPT !.kind = "setup"])
  /\ UNCHANGED dbVars

SetupCreate(h) ==
  /\ pc[h] = "setup"
  /\ \E name \in Names, pw \in Passwords :
       IF NameTaken(name) THEN UNCHANGED dbVars ELSE CreateUser(name, "admin", pw)
  /\ Reply(h)

(* GetUserByName and VerifyPassword; the whole of Login is in module Login. *)
LoginFind(h) ==
  /\ pc[h] = "idle" /\ "login" \in Kinds[h]
  /\ \E id \in DOMAIN users, pw \in Passwords :
       /\ pw = users[id].pw
       /\ Become(h, "session", [NoRequest EXCEPT !.kind = "login", !.caller = id,
                                                 !.name = users[id].name])
  /\ UNCHANGED dbVars

(* GetUserByName of the name the identity provider vouches for. *)
OIDCFind(h) ==
  /\ pc[h] = "idle" /\ "oidc" \in Kinds[h]
  /\ \E name \in Names :
       LET r == [NoRequest EXCEPT !.kind = "oidc", !.name = name] IN
       IF NameTaken(name)
       THEN \E id \in DOMAIN users :
              /\ users[id].name = name
              /\ Become(h, "session", [r EXCEPT !.caller = id])
       ELSE Become(h, "oidcCreate", r)
  /\ UNCHANGED dbVars

(* First sign-in: create the account, or fail if the name is taken by now. *)
OIDCCreate(h) ==
  /\ pc[h] = "oidcCreate"
  /\ IF NameTaken(req[h].name)
     THEN UNCHANGED dbVars /\ Reply(h)
     ELSE /\ \E pw \in Passwords : CreateUser(req[h].name, OIDCRole, pw)
          /\ Become(h, "session", [req[h] EXCEPT !.caller = NewUserId])

(* CreateSession, for the id found earlier. *)
OpenSession(h) ==
  /\ pc[h] = "session"
  /\ IF OwnerExists(req[h].caller) THEN CreateSession(req[h].caller)
                                    ELSE UNCHANGED dbVars
  /\ Reply(h)

Step(h) ==
  \/ FindSession(h) \/ FindToken(h) \/ LoadCaller(h) \/ Logout(h)
  \/ PanelUserCreate(h) \/ ReadTarget(h) \/ GuardLastAdmin(h)
  \/ PanelUserDelete(h) \/ PanelUserSetRole(h) \/ PanelUserSetPassword(h)
  \/ TokenCreate(h) \/ ReadToken(h) \/ TokenDelete(h)
  \/ SetupCount(h) \/ SetupCreate(h)
  \/ LoginFind(h) \/ OIDCFind(h) \/ OIDCCreate(h) \/ OpenSession(h)

Next == ExpireSession \/ \E h \in Handlers : Step(h)

Spec == Init /\ [][Next]_vars

------------------------------------------------------------------------------
(* Properties. *)

(* A session or a token always belongs to an account that exists, although it
   is inserted for an id read several statements earlier and the account may
   be deleted in between: the foreign keys and the cascades see to it. *)
NoDanglingOwner ==
  /\ \A s \in DOMAIN sessions : sessions[s] \in DOMAIN users
  /\ \A t \in DOMAIN tokens : tokens[t].owner \in DOMAIN users

(* An id read by one statement names the same account in the next one, or
   none: a request never deletes, changes or signs in somebody other than the
   account it looked at, whatever was deleted and created in between. *)
SameAccount ==
  \A h \in Handlers :
    LET r == req[h] IN
    /\ (pc[h] \in {"guard", "write"} /\ r.kind # "tokenDelete"
          /\ r.target \in DOMAIN users) => users[r.target].name = r.seen
    /\ (pc[h] = "session" /\ r.caller \in DOMAIN users)
          => users[r.caller].name = r.name

(* Privilege is never made up: an API token ranks no higher than its owner
   ever did, also when it was issued with another token by an owner demoted
   since, and a request in an admin-only handler comes from an account that
   has been an admin. *)
PrivilegeTraced ==
  /\ \A t \in DOMAIN tokens : Rank[tokens[t].role] <= top[tokens[t].owner]
  /\ \A h \in Handlers : pc[h] \in {"handler", "guard", "write"} =>
       Rank[MinRole(req[h].kind)] <= top[req[h].caller]

(* Two requests that both found a name free do not both create it. *)
UniqueNames ==
  \A i, j \in DOMAIN users : users[i].name = users[j].name => i = j

(* guardLastAdmin, "returns an error if removing/demoting `target` would leave
   the panel with zero admins": once there is an admin there always is one.
   It holds when no two removals overlap and fails when they do. *)
AdminsKept == [][Admins # {} => Admins' # {}]_vars

(* At most one goroutine deletes accounts and changes roles. *)
Removals == {"delete", "setRole"}
SerialRemovals ==
  \A g, h \in Handlers :
    Kinds[g] \cap Removals # {} /\ Kinds[h] \cap Removals # {} => g = h

Table == INSTANCE AccountTable

(* Account management looks atomic: every statement the handlers run is a step
   of the table of accounts or leaves it alone. *)
AtomicTable == Table!TableSpec
==============================================================================
