--------------------------- MODULE PanelUsersProofs ---------------------------
(***************************************************************************)
(* Proofs about PanelUsers, for any number of concurrent requests and any  *)
(* bounds.                                                                 *)
(***************************************************************************)
EXTENDS Panel, Sequences, FiniteSetTheorems, TLAPS

------------------------------------------------------------------------------
(* The statements keep the tables well formed. *)

(* An account row inserted under the next id keeps the tables well formed. *)
LEMMA CreateUserType ==
  ASSUME TablesOK, NEW name \in Names, NEW role \in Role, NEW pw \in Passwords,
         CreateUser(name, role, pw)
  PROVE  TablesOK'
<1>1. lastId' = lastId + 1 /\ lastId + 1 \in 1..lastId'
  BY DEF TablesOK, CreateUser
<1>2. /\ users' \in [DOMAIN users' -> Row]
      /\ DOMAIN users' \subseteq 1..lastId'
  BY <1>1 DEF TablesOK, CreateUser, NewUserId, Row
<1>3. Rank[role] \in 0..3
  BY DEF Rank, Role
<1>4. top' \in [1..lastId' -> 0..3]
  BY <1>1, <1>3 DEF TablesOK, CreateUser, NewUserId
<1> QED
  BY <1>1, <1>2, <1>4 DEF TablesOK, CreateUser

(* Removing an account with its sessions and tokens keeps the types. *)
LEMMA DeleteUserType ==
  ASSUME TablesOK, NEW id \in Nat, DeleteUser(id)
  PROVE  TablesOK'
BY DEF TablesOK, DeleteUser

(* The two UPDATE statements keep the types. *)
LEMMA UpdateUserRoleType ==
  ASSUME TablesOK, NEW id \in Nat, NEW role \in Role, UpdateUserRole(id, role)
  PROVE  TablesOK'
<1>1. \A r \in Row : [r EXCEPT !.role = role] \in Row
  BY DEF Row
<1>2. Rank[role] \in 0..3
  BY DEF Rank, Role
<1>3. users' \in [DOMAIN users' -> Row] /\ DOMAIN users' = DOMAIN users
  BY <1>1 DEF TablesOK, UpdateUserRole
<1>4. top' \in [1..lastId -> 0..3]
  BY <1>2 DEF TablesOK, UpdateUserRole
<1> QED
  BY <1>3, <1>4 DEF TablesOK, UpdateUserRole

(* An UPDATE of a password keeps the types. *)
LEMMA UpdateUserPasswordType ==
  ASSUME TablesOK, NEW id \in Nat, NEW pw \in Passwords, UpdateUserPassword(id, pw)
  PROVE  TablesOK'
<1>1. \A r \in Row : [r EXCEPT !.pw = pw] \in Row
  BY DEF Row
<1>2. users' \in [DOMAIN users' -> Row] /\ DOMAIN users' = DOMAIN users
  BY <1>1 DEF TablesOK, UpdateUserPassword
<1> QED
  BY <1>2 DEF TablesOK, UpdateUserPassword

(* So do the statements on sessions and tokens. *)
LEMMA CredentialType ==
  ASSUME TablesOK, NEW id \in Nat, NEW role \in Role, NEW key,
         \/ CreateSession(id) \/ CreateAPIToken(id, role)
         \/ DeleteSession(key) \/ DeleteAPIToken(key)
  PROVE  TablesOK'
<1>1. CASE CreateSession(id)
  BY <1>1 DEF TablesOK, CreateSession
<1>2. CASE CreateAPIToken(id, role)
  BY <1>2 DEF TablesOK, CreateAPIToken, Token
<1>3. CASE DeleteSession(key) \/ DeleteAPIToken(key)
  BY <1>3 DEF TablesOK, DeleteSession, DeleteAPIToken
<1> QED
  BY <1>1, <1>2, <1>3

(* A step that runs no statement keeps the tables well formed. *)
LEMMA NoChangeType == TablesOK /\ UNCHANGED dbVars => TablesOK'
BY DEF TablesOK, dbVars

------------------------------------------------------------------------------
(* The requests keep their types. *)

(* An idle goroutine has a well-typed request. *)
LEMMA NoRequestType == NoRequest \in Request
BY NamesAssumption DEF NoRequest, Request, Kind, Role, AnyName

(* A goroutine that goes on with a well-typed request keeps the types. *)
LEMMA BecomeType ==
  ASSUME RequestsOK, NEW h \in Handlers, NEW step \in PC, NEW r \in Request,
         Become(h, step, r)
  PROVE  RequestsOK'
BY DEF RequestsOK, Become

(* So does one that replies. *)
LEMMA ReplyType ==
  ASSUME RequestsOK, NEW h \in Handlers, Reply(h)
  PROVE  RequestsOK'
<1>1. "idle" \in PC
  BY DEF PC
<1> QED
  BY <1>1, NoRequestType, BecomeType DEF Reply

(* A request that only learns something keeps the types. *)
LEMMA LearnType ==
  ASSUME TypeOK, NEW h \in Handlers, NEW step \in PC, NEW r \in Request,
         UNCHANGED dbVars, Become(h, step, r)
  PROVE  TypeOK'
BY NoChangeType, BecomeType DEF TypeOK

(* So does one that changes nothing and replies. *)
LEMMA RefuseType ==
  ASSUME TypeOK, NEW h \in Handlers, UNCHANGED dbVars, Reply(h)
  PROVE  TypeOK'
BY NoChangeType, ReplyType DEF TypeOK

(* The roles the handlers name are roles. *)
LEMMA RoleConstants == "viewer" \in Role /\ "operator" \in Role /\ "admin" \in Role
BY DEF Role

(* The steps the actions name are steps. *)
LEMMA PCConstants ==
  \A step \in {"idle", "caller", "handler", "guard", "write",
               "setup", "oidcCreate", "session"} : step \in PC
BY DEF PC

(* The kinds of request the actions name are kinds. *)
LEMMA KindConstants ==
  /\ \A k \in AuthedKinds : k \in Kind
  /\ "setup" \in Kind /\ "login" \in Kind /\ "oidc" \in Kind
BY DEF Kind

(* Rows and tokens that are read have their types, ids are naturals. *)
LEMMA ReadType ==
  ASSUME TablesOK
  PROVE  /\ \A i \in DOMAIN users : /\ i \in Nat
                                    /\ users[i].name \in Names
                                    /\ users[i].role \in Role
                                    /\ users[i].pw \in Passwords
         /\ \A s \in DOMAIN sessions : s \in Nat /\ sessions[s] \in Nat
         /\ \A t \in DOMAIN tokens : /\ t \in Nat
                                     /\ tokens[t].owner \in Nat
                                     /\ tokens[t].role \in Role
BY DEF TablesOK, Row, Token

------------------------------------------------------------------------------
(* Type correctness. *)

(* The empty tables and idle goroutines are well typed. *)
LEMMA InitType == Init => TypeOK
<1> SUFFICES ASSUME Init PROVE TypeOK
  OBVIOUS
<1>1. TablesOK
  BY DEF Init, TablesOK
<1>2. RequestsOK
  BY NoRequestType DEF Init, RequestsOK, PC
<1> QED
  BY <1>1, <1>2 DEF TypeOK

(* The steps that authenticate a request and run its role check. *)
LEMMA AuthType ==
  ASSUME TypeOK, NEW h \in Handlers,
         FindSession(h) \/ FindToken(h) \/ LoadCaller(h)
  PROVE  TypeOK'
<1>1. CASE FindSession(h)
  <2>1. PICK kind \in AuthedKinds, sid \in DOMAIN sessions :
          Become(h, "caller", [NoRequest EXCEPT !.kind = kind, !.via = "session",
                                                !.key = sid, !.caller = sessions[sid]])
    BY <1>1 DEF FindSession
  <2>2. [NoRequest EXCEPT !.kind = kind, !.via = "session",
                          !.key = sid, !.caller = sessions[sid]] \in Request
    BY NoRequestType, ReadType, KindConstants DEF TypeOK, Request
  <2> QED
    BY <1>1, <2>1, <2>2, LearnType, PCConstants DEF FindSession
<1>2. CASE FindToken(h)
  <2>1. PICK kind \in AuthedKinds, tid \in DOMAIN tokens :
          Become(h, "caller", [NoRequest EXCEPT !.kind = kind, !.via = "token",
                                                !.caller = tokens[tid].owner,
                                                !.role = tokens[tid].role])
    BY <1>2 DEF FindToken
  <2>2. [NoRequest EXCEPT !.kind = kind, !.via = "token", !.caller = tokens[tid].owner,
                          !.role = tokens[tid].role] \in Request
    BY NoRequestType, ReadType, KindConstants DEF TypeOK, Request
  <2> QED
    BY <1>2, <2>1, <2>2, LearnType, PCConstants DEF FindToken
<1>3. CASE LoadCaller(h)
  <2>1. req[h] \in Request
    BY DEF TypeOK, RequestsOK
  <2>2. CASE Reply(h)
    BY <1>3, <2>2, RefuseType DEF LoadCaller
  <2>3. CASE /\ req[h].caller \in DOMAIN users
             /\ Become(h, "handler", [req[h] EXCEPT !.role = EffectiveRole(req[h])])
    <3>1. EffectiveRole(req[h]) \in Role
      BY <2>1, <2>3, ReadType DEF EffectiveRole, TypeOK, Request
    <3>2. [req[h] EXCEPT !.role = EffectiveRole(req[h])] \in Request
      BY <2>1, <3>1 DEF Request
    <3> QED
      BY <1>3, <2>3, <3>2, LearnType, PCConstants DEF LoadCaller
  <2> QED
    BY <1>3, <2>2, <2>3 DEF LoadCaller
<1> QED
  BY <1>1, <1>2, <1>3

(* The handlers that create accounts and change them. *)
LEMMA UserType ==
  ASSUME TypeOK, NEW h \in Handlers,
         \/ Logout(h) \/ PanelUserCreate(h) \/ ReadTarget(h) \/ GuardLastAdmin(h)
         \/ PanelUserDelete(h) \/ PanelUserSetRole(h) \/ PanelUserSetPassword(h)
  PROVE  TypeOK'
<1>1. /\ TablesOK /\ RequestsOK /\ req[h] \in Request
      /\ req[h].target \in Nat /\ req[h].caller \in Nat /\ req[h].new \in Role
  BY DEF TypeOK, RequestsOK, Request
<1>2. CASE Logout(h)
  <2>1. TablesOK'
    BY <1>1, <1>2, CredentialType, NoChangeType DEF Logout
  <2> QED
    BY <1>1, <1>2, <2>1, ReplyType DEF Logout, TypeOK
<1>3. CASE PanelUserCreate(h)
  <2>1. TablesOK'
    BY <1>1, <1>3, CreateUserType, NoChangeType DEF PanelUserCreate
  <2> QED
    BY <1>1, <1>3, <2>1, ReplyType DEF PanelUserCreate, TypeOK
<1>4. CASE ReadTarget(h)
  <2>1. CASE Reply(h)
    BY <1>4, <2>1, RefuseType DEF ReadTarget
  <2>2. ASSUME NEW id \in DOMAIN users, NEW new \in Role, NEW step \in {"guard", "write"},
               Become(h, step, [req[h] EXCEPT !.target = id, !.seen = users[id].name,
                                              !.new = new])
        PROVE  TypeOK'
    <3>1. [req[h] EXCEPT !.target = id, !.seen = users[id].name, !.new = new] \in Request
      BY <1>1, ReadType DEF Request
    <3> QED
      BY <1>4, <2>2, <3>1, LearnType, PCConstants DEF ReadTarget
  <2> QED
    BY <1>4, <2>1, <2>2 DEF ReadTarget
<1>5. CASE GuardLastAdmin(h)
  BY <1>1, <1>5, RefuseType, LearnType, PCConstants DEF GuardLastAdmin
<1>6. CASE PanelUserDelete(h)
  <2>1. TablesOK'
    BY <1>1, <1>6, DeleteUserType DEF PanelUserDelete
  <2> QED
    BY <1>1, <1>6, <2>1, ReplyType DEF PanelUserDelete, TypeOK
<1>7. CASE PanelUserSetRole(h)
  <2>1. TablesOK'
    BY <1>1, <1>7, UpdateUserRoleType DEF PanelUserSetRole
  <2> QED
    BY <1>1, <1>7, <2>1, ReplyType DEF PanelUserSetRole, TypeOK
<1>8. CASE PanelUserSetPassword(h)
  <2>1. TablesOK'
    BY <1>1, <1>8, UpdateUserPasswordType DEF PanelUserSetPassword
  <2> QED
    BY <1>1, <1>8, <2>1, ReplyType DEF PanelUserSetPassword, TypeOK
<1> QED
  BY <1>2, <1>3, <1>4, <1>5, <1>6, <1>7, <1>8

(* The handlers of API tokens. *)
LEMMA TokenType ==
  ASSUME TypeOK, NEW h \in Handlers,
         TokenCreate(h) \/ ReadToken(h) \/ TokenDelete(h)
  PROVE  TypeOK'
<1>1. /\ TablesOK /\ RequestsOK /\ req[h] \in Request /\ req[h].caller \in Nat
  BY DEF TypeOK, RequestsOK, Request
<1>2. CASE TokenCreate(h)
  <2>1. TablesOK'
    BY <1>1, <1>2, CredentialType, NoChangeType DEF TokenCreate
  <2> QED
    BY <1>1, <1>2, <2>1, ReplyType DEF TokenCreate, MayIssue, TypeOK
<1>3. CASE ReadToken(h)
  <2>1. CASE Reply(h)
    BY <1>3, <2>1, RefuseType DEF ReadToken
  <2>2. ASSUME NEW tid \in DOMAIN tokens,
               Become(h, "write", [req[h] EXCEPT !.target = tid])
        PROVE  TypeOK'
    <3>1. [req[h] EXCEPT !.target = tid] \in Request
      BY <1>1, ReadType DEF Request
    <3> QED
      BY <1>3, <2>2, <3>1, LearnType, PCConstants DEF ReadToken
  <2> QED
    BY <1>3, <2>1, <2>2 DEF ReadToken
<1>4. CASE TokenDelete(h)
  <2>1. TablesOK'
    BY <1>1, <1>4, CredentialType, RoleConstants DEF TokenDelete
  <2> QED
    BY <1>1, <1>4, <2>1, ReplyType DEF TokenDelete, TypeOK
<1> QED
  BY <1>2, <1>3, <1>4

(* The public requests. *)
LEMMA PublicType ==
  ASSUME TypeOK, NEW h \in Handlers,
         \/ SetupCount(h) \/ SetupCreate(h) \/ LoginFind(h)
         \/ OIDCFind(h) \/ OIDCCreate(h) \/ OpenSession(h)
  PROVE  TypeOK'
<1>1. /\ TablesOK /\ RequestsOK /\ req[h] \in Request
      /\ req[h].caller \in Nat /\ req[h].name \in Names
      /\ NewUserId \in Nat
  BY DEF TypeOK, RequestsOK, Request, TablesOK, NewUserId
<1>2. CASE SetupCount(h)
  <2>1. [NoRequest EXCEPT !.kind = "setup"] \in Request
    BY NoRequestType, KindConstants DEF Request
  <2> QED
    BY <1>2, <2>1, LearnType, PCConstants DEF SetupCount
<1>3. CASE SetupCreate(h)
  <2>1. TablesOK'
    BY <1>1, <1>3, CreateUserType, NoChangeType, RoleConstants DEF SetupCreate
  <2> QED
    BY <1>1, <1>3, <2>1, ReplyType DEF SetupCreate, TypeOK
<1>4. CASE LoginFind(h)
  <2>1. PICK id \in DOMAIN users :
          Become(h, "session", [NoRequest EXCEPT !.kind = "login", !.caller = id,
                                                 !.name = users[id].name])
    BY <1>4 DEF LoginFind
  <2>2. [NoRequest EXCEPT !.kind = "login", !.caller = id,
                          !.name = users[id].name] \in Request
    BY <1>1, NoRequestType, KindConstants, ReadType DEF Request
  <2> QED
    BY <1>4, <2>1, <2>2, LearnType, PCConstants DEF LoginFind
<1>5. CASE OIDCFind(h)
  <2>1. PICK name \in Names :
          \/ \E id \in DOMAIN users :
               Become(h, "session", [NoRequest EXCEPT !.kind = "oidc", !.name = name,
                                                      !.caller = id])
          \/ Become(h, "oidcCreate", [NoRequest EXCEPT !.kind = "oidc", !.name = name])
    BY <1>5 DEF OIDCFind
  <2>2. /\ [NoRequest EXCEPT !.kind = "oidc", !.name = name] \in Request
        /\ \A id \in DOMAIN users : [NoRequest EXCEPT !.kind = "oidc", !.name = name,
                                                      !.caller = id] \in Request
    BY <1>1, NoRequestType, KindConstants, ReadType DEF Request
  <2> QED
    BY <1>5, <2>1, <2>2, LearnType, PCConstants DEF OIDCFind
<1>6. CASE OIDCCreate(h)
  <2>1. CASE UNCHANGED dbVars /\ Reply(h)
    BY <2>1, RefuseType
  <2>2. CASE /\ \E pw \in Passwords : CreateUser(req[h].name, OIDCRole, pw)
             /\ Become(h, "session", [req[h] EXCEPT !.caller = NewUserId])
    <3>1. TablesOK'
      BY <1>1, <2>2, CreateUserType, OIDCRoleAssumption
    <3>2. [req[h] EXCEPT !.caller = NewUserId] \in Request
      BY <1>1 DEF Request
    <3> QED
      BY <1>1, <2>2, <3>1, <3>2, BecomeType, PCConstants DEF TypeOK
  <2> QED
    BY <1>6, <2>1, <2>2 DEF OIDCCreate
<1>7. CASE OpenSession(h)
  <2>1. TablesOK'
    BY <1>1, <1>7, CredentialType, NoChangeType, RoleConstants DEF OpenSession
  <2> QED
    BY <1>1, <1>7, <2>1, ReplyType DEF OpenSession, TypeOK
<1> QED
  BY <1>2, <1>3, <1>4, <1>5, <1>6, <1>7

(* Every step keeps the types. *)
LEMMA NextType == TypeOK /\ [Next]_vars => TypeOK'
<1> SUFFICES ASSUME TypeOK, [Next]_vars PROVE TypeOK'
  OBVIOUS
<1>1. CASE UNCHANGED vars
  BY <1>1 DEF vars, TypeOK, TablesOK, RequestsOK
<1>2. CASE ExpireSession
  <2>1. TablesOK'
    BY <1>2, CredentialType, ReadType, RoleConstants DEF ExpireSession, TypeOK
  <2> QED
    BY <1>2, <2>1 DEF ExpireSession, TypeOK, RequestsOK
<1> QED
  BY <1>1, <1>2, AuthType, UserType, TokenType, PublicType DEF Next, Step

(* The tables and the requests in progress always have their types. *)
THEOREM TypeCorrect == Spec => []TypeOK
BY InitType, NextType, PTL DEF Spec

------------------------------------------------------------------------------
(* Every step runs at most one statement on the tables. *)

(* The statements, with what the code around them has checked. *)
Statement ==
  \/ UNCHANGED dbVars
  \/ \E name \in Names, role \in Role, pw \in Passwords :
       ~NameTaken(name) /\ CreateUser(name, role, pw)
  \/ \E id \in Nat : DeleteUser(id)
  \/ \E id \in Nat, role \in Role : UpdateUserRole(id, role)
  \/ \E id \in Nat, pw \in Passwords : UpdateUserPassword(id, pw)
  \/ \E id \in DOMAIN users : CreateSession(id)
  \/ \E id \in DOMAIN users, role \in Role : CreateAPIToken(id, role)
  \/ \E key \in Nat : DeleteSession(key) \/ DeleteAPIToken(key)

(* Every step runs one of these statements at most, with ids and names that
   are such, and inserts only what the foreign keys and the unique name allow. *)
LEMMA NextStatement == TypeOK /\ [Next]_vars => Statement
<1> SUFFICES ASSUME TypeOK, [Next]_vars PROVE Statement
  OBVIOUS
<1>1. CASE UNCHANGED vars
  BY <1>1 DEF vars, dbVars, Statement
<1>2. CASE ExpireSession
  BY <1>2, ReadType DEF ExpireSession, Statement, TypeOK
<1>3. ASSUME NEW h \in Handlers,
             \/ FindSession(h) \/ FindToken(h) \/ LoadCaller(h) \/ ReadTarget(h)
             \/ GuardLastAdmin(h) \/ ReadToken(h) \/ SetupCount(h)
             \/ LoginFind(h) \/ OIDCFind(h)
      PROVE  Statement
  BY <1>3 DEF Statement, FindSession, FindToken, LoadCaller, ReadTarget,
       GuardLastAdmin, ReadToken, SetupCount, LoginFind, OIDCFind
<1>4. ASSUME NEW h \in Handlers,
             \/ Logout(h) \/ PanelUserCreate(h) \/ PanelUserDelete(h)
             \/ PanelUserSetRole(h) \/ PanelUserSetPassword(h) \/ TokenCreate(h)
             \/ TokenDelete(h) \/ SetupCreate(h) \/ OIDCCreate(h) \/ OpenSession(h)
      PROVE  Statement
  <2>1. /\ req[h].key \in Nat /\ req[h].target \in Nat /\ req[h].caller \in Nat
        /\ req[h].new \in Role /\ req[h].name \in Names
    BY DEF TypeOK, RequestsOK, Request
  <2>2. CASE Logout(h) \/ TokenDelete(h)
    BY <2>1, <2>2 DEF Statement, Logout, TokenDelete
  <2>3. CASE PanelUserCreate(h) \/ SetupCreate(h)
    BY <2>3, RoleConstants DEF Statement, PanelUserCreate, SetupCreate
  <2>4. CASE OIDCCreate(h)
    BY <2>1, <2>4, OIDCRoleAssumption DEF Statement, OIDCCreate
  <2>5. CASE PanelUserDelete(h) \/ PanelUserSetRole(h) \/ PanelUserSetPassword(h)
    BY <2>1, <2>5 DEF Statement, PanelUserDelete, PanelUserSetRole, PanelUserSetPassword
  <2>6. CASE TokenCreate(h) \/ OpenSession(h)
    BY <2>6 DEF Statement, TokenCreate, OpenSession, OwnerExists
  <2> QED
    BY <1>4, <2>2, <2>3, <2>4, <2>5, <2>6
<1> QED
  BY <1>1, <1>2, <1>3, <1>4 DEF Next, Step

------------------------------------------------------------------------------
(* Sessions and tokens belong to accounts that exist. *)

(* DeleteUser cascades to sessions and tokens, and no other statement removes
   an account or inserts under one that is gone. *)
LEMMA StatementOwners == TypeOK /\ NoDanglingOwner /\ Statement => NoDanglingOwner'
<1> SUFFICES ASSUME TablesOK, NoDanglingOwner, Statement PROVE NoDanglingOwner'
  BY DEF TypeOK
<1>1. CASE UNCHANGED dbVars
  BY <1>1 DEF dbVars, NoDanglingOwner
<1>2. ASSUME NEW name \in Names, NEW role \in Role, NEW pw \in Passwords,
             CreateUser(name, role, pw)
      PROVE  NoDanglingOwner'
  BY <1>2 DEF CreateUser, NoDanglingOwner
<1>3. ASSUME NEW id \in Nat, DeleteUser(id)
      PROVE  NoDanglingOwner'
  BY <1>3 DEF DeleteUser, NoDanglingOwner
<1>4. ASSUME NEW id \in DOMAIN users, NEW role \in Role, CreateAPIToken(id, role)
      PROVE  NoDanglingOwner'
  BY <1>4 DEF CreateAPIToken, NoDanglingOwner
<1>5. ASSUME NEW id \in DOMAIN users, CreateSession(id)
      PROVE  NoDanglingOwner'
  BY <1>5 DEF CreateSession, NoDanglingOwner
<1>6. ASSUME NEW key \in Nat, DeleteSession(key) \/ DeleteAPIToken(key)
      PROVE  NoDanglingOwner'
  BY <1>6 DEF DeleteSession, DeleteAPIToken, NoDanglingOwner
<1>7. ASSUME NEW id \in Nat, NEW pw \in Passwords, UpdateUserPassword(id, pw)
      PROVE  NoDanglingOwner'
  BY <1>7 DEF UpdateUserPassword, NoDanglingOwner
<1>8. ASSUME NEW id \in Nat, NEW role \in Role, UpdateUserRole(id, role)
      PROVE  NoDanglingOwner'
  BY <1>8 DEF UpdateUserRole, NoDanglingOwner
<1> QED
  BY <1>1, <1>2, <1>3, <1>4, <1>5, <1>6, <1>7, <1>8 DEF Statement

(* No session or API token is ever left without its account, however sign-ins,
   token requests and account deletions interleave. *)
THEOREM OwnersExist == Spec => []NoDanglingOwner
<1>1. Init => NoDanglingOwner
  BY DEF Init, NoDanglingOwner
<1>2. TypeOK /\ NoDanglingOwner /\ [Next]_vars => NoDanglingOwner'
  BY NextStatement, StatementOwners
<1> QED
  BY <1>1, <1>2, TypeCorrect, PTL DEF Spec

------------------------------------------------------------------------------
(* Names are unique and an id never changes hands. *)

(* No statement gives an id handed out before to another account or takes back
   a rank from the history. *)
Stable ==
  /\ lastId' >= lastId
  /\ \A i \in 1..lastId : i \in DOMAIN users' =>
       i \in DOMAIN users /\ users'[i].name = users[i].name
  /\ \A i \in 1..lastId : top'[i] >= top[i]

(* AUTOINCREMENT never hands an id out again and no UPDATE touches a name. *)
LEMMA StatementStable == TypeOK /\ Statement => Stable
<1> SUFFICES ASSUME TablesOK, Statement PROVE Stable
  BY DEF TypeOK
<1> USE DEF Stable
<1>0. \A i \in 1..lastId : top[i] >= top[i]
  <2>1. \A i \in 1..lastId : top[i] \in 0..3
    BY DEF TablesOK
  <2> QED
    BY <2>1
<1>1. CASE UNCHANGED <<users, lastId, top>>
  BY <1>0, <1>1 DEF TablesOK
<1>2. ASSUME NEW name \in Names, NEW role \in Role, NEW pw \in Passwords,
             CreateUser(name, role, pw)
      PROVE  Stable
  BY <1>2 DEF CreateUser, NewUserId, TablesOK
<1>3. ASSUME NEW id \in Nat, DeleteUser(id)
      PROVE  Stable
  BY <1>0, <1>3 DEF DeleteUser, TablesOK
<1>4. ASSUME NEW id \in Nat, NEW role \in Role, UpdateUserRole(id, role)
      PROVE  Stable
  <2>1. Rank[role] \in 0..3
    BY DEF Rank, Role
  <2>2. \A i \in 1..lastId : top'[i] >= top[i]
    <3> SUFFICES ASSUME NEW i \in 1..lastId PROVE top'[i] >= top[i]
      OBVIOUS
    <3>1. top[i] \in 0..3 /\ (top'[i] = top[i] \/ (Rank[role] > top[i] /\ top'[i] = Rank[role]))
      BY <1>4 DEF UpdateUserRole, TablesOK
    <3> QED
      BY <2>1, <3>1
  <2>3. \A i \in DOMAIN users : users'[i].name = users[i].name
    BY <1>4 DEF UpdateUserRole, TablesOK, Row
  <2> QED
    BY <1>4, <2>2, <2>3 DEF UpdateUserRole, TablesOK
<1>5. ASSUME NEW id \in Nat, NEW pw \in Passwords, UpdateUserPassword(id, pw)
      PROVE  Stable
  BY <1>5 DEF UpdateUserPassword, TablesOK, Row
<1>6. ASSUME NEW id \in DOMAIN users, CreateSession(id)
      PROVE  Stable
  BY <1>1, <1>6 DEF CreateSession
<1>7. ASSUME NEW id \in DOMAIN users, NEW role \in Role, CreateAPIToken(id, role)
      PROVE  Stable
  BY <1>1, <1>7 DEF CreateAPIToken
<1>8. ASSUME NEW key \in Nat, DeleteSession(key) \/ DeleteAPIToken(key)
      PROVE  Stable
  BY <1>1, <1>8 DEF DeleteSession, DeleteAPIToken
<1> QED
  BY <1>1, <1>2, <1>3, <1>4, <1>5, <1>6, <1>7, <1>8 DEF Statement, dbVars

(* Only CreateUser adds a name, and the UNIQUE index lets it add a new one. *)
LEMMA StatementNames == TypeOK /\ UniqueNames /\ Statement => UniqueNames'
<1> SUFFICES ASSUME TablesOK, UniqueNames, Statement, Stable PROVE UniqueNames'
  BY StatementStable DEF TypeOK
<1>1. CASE \E name \in Names, role \in Role, pw \in Passwords :
             ~NameTaken(name) /\ CreateUser(name, role, pw)
  BY <1>1 DEF CreateUser, NewUserId, NameTaken, UniqueNames, TablesOK, Row
<1>2. CASE lastId' = lastId /\ DOMAIN users' \subseteq DOMAIN users
  BY <1>2 DEF Stable, UniqueNames, TablesOK
<1>3. ASSUME NEW id \in Nat, DeleteUser(id)
      PROVE  UniqueNames'
  BY <1>2, <1>3 DEF DeleteUser
<1>4. ASSUME NEW id \in Nat, NEW role \in Role, UpdateUserRole(id, role)
      PROVE  UniqueNames'
  BY <1>2, <1>4 DEF UpdateUserRole
<1>5. ASSUME NEW id \in Nat, NEW pw \in Passwords, UpdateUserPassword(id, pw)
      PROVE  UniqueNames'
  BY <1>2, <1>5 DEF UpdateUserPassword
<1>6. CASE UNCHANGED <<users, lastId>>
  BY <1>2, <1>6
<1>7. ASSUME NEW id \in DOMAIN users, CreateSession(id)
      PROVE  UniqueNames'
  BY <1>6, <1>7 DEF CreateSession
<1>8. ASSUME NEW id \in DOMAIN users, NEW role \in Role, CreateAPIToken(id, role)
      PROVE  UniqueNames'
  BY <1>6, <1>8 DEF CreateAPIToken
<1>9. ASSUME NEW key \in Nat, DeleteSession(key) \/ DeleteAPIToken(key)
      PROVE  UniqueNames'
  BY <1>6, <1>9 DEF DeleteSession, DeleteAPIToken
<1> QED
  BY <1>1, <1>3, <1>4, <1>5, <1>6, <1>7, <1>8, <1>9 DEF Statement, dbVars

(* Two requests that both found a name free never both create it. *)
THEOREM NamesUnique == Spec => []UniqueNames
<1>1. Init => UniqueNames
  BY DEF Init, UniqueNames
<1>2. TypeOK /\ UniqueNames /\ [Next]_vars => UniqueNames'
  BY NextStatement, StatementNames
<1> QED
  BY <1>1, <1>2, TypeCorrect, PTL DEF Spec

------------------------------------------------------------------------------
(* What a request remembers stays true while others run. *)

(* Ids that were handed out, the names read for them, and a role the caller's
   account had at some time, high enough for the handler it is in. *)
Remembers(h) ==
  LET r == req[h] IN
  /\ pc[h] \in {"caller", "handler", "guard", "write", "session"} =>
       r.caller \in 1..lastId
  /\ pc[h] = "caller" /\ r.via = "token" => Rank[r.role] <= top[r.caller]
  /\ pc[h] \in {"handler", "guard", "write"} =>
       Rank[r.role] <= top[r.caller] /\ Rank[MinRole(r.kind)] <= Rank[r.role]
  /\ pc[h] \in {"guard", "write"} /\ r.kind # "tokenDelete" =>
       /\ r.target \in 1..lastId
       /\ r.target \in DOMAIN users => users[r.target].name = r.seen
  /\ pc[h] = "session" /\ r.caller \in DOMAIN users => users[r.caller].name = r.name

(* No account and no token outranks the history of its account. *)
Ranked ==
  /\ \A i \in DOMAIN users : Rank[users[i].role] <= top[i]
  /\ \A t \in DOMAIN tokens : Rank[tokens[t].role] <= top[tokens[t].owner]

Inv == /\ TypeOK /\ NoDanglingOwner /\ Ranked
       /\ \A h \in Handlers : Remembers(h)

(* Ranks are numbers and every kind of request asks for some role. *)
LEMMA RankType ==
  /\ \A r \in Role : Rank[r] \in Nat
  /\ \A kind : MinRole(kind) \in Role
BY DEF Rank, Role, MinRole

(* Whatever statement another request runs, a request that does not move
   remembers what it remembered. *)
LEMMA RememberedStays ==
  ASSUME TypeOK, TypeOK', Stable, NEW h \in Handlers, Remembers(h),
         pc'[h] = pc[h], req'[h] = req[h]
  PROVE  Remembers(h)'
<1> DEFINE r == req[h]
<1>1. r \in Request /\ r.role \in Role /\ Rank[r.role] \in Nat
  BY RankType DEF TypeOK, RequestsOK, Request
<1>2. lastId \in Nat /\ lastId' \in Nat /\ lastId' >= lastId
  BY DEF TypeOK, TablesOK, Stable
<1>3. \A i \in 1..lastId : i \in 1..lastId'
  BY <1>2
<1>4. \A i \in 1..lastId : top[i] \in 0..3
  BY DEF TypeOK, TablesOK
<1>5. \A i \in 1..lastId : top'[i] \in 0..3
  BY <1>3 DEF TypeOK, TablesOK
<1>6. \A i \in 1..lastId, n \in Nat : n <= top[i] => n <= top'[i]
  BY <1>4, <1>5 DEF Stable
<1> QED
  BY <1>1, <1>3, <1>6 DEF Remembers, Stable

(* A request that is over remembers nothing. *)
LEMMA RepliedRemembers ==
  ASSUME RequestsOK, NEW h \in Handlers, Reply(h)
  PROVE  Remembers(h)'
BY DEF RequestsOK, Reply, Become, Remembers

(* The request that moves remembers only what it has just read. *)
LEMMA AuthRemembers ==
  ASSUME Inv, TypeOK', NEW h \in Handlers,
         FindSession(h) \/ FindToken(h) \/ LoadCaller(h)
  PROVE  Remembers(h)'
<1>1. /\ TablesOK /\ RequestsOK /\ req[h] \in Request /\ NoDanglingOwner /\ Ranked
      /\ Remembers(h)
  BY DEF Inv, TypeOK, RequestsOK
<1>2. \A i \in DOMAIN users : i \in 1..lastId
  BY <1>1 DEF TablesOK
<1>3. CASE FindSession(h)
  <2>1. PICK kind \in AuthedKinds, sid \in DOMAIN sessions :
          Become(h, "caller", [NoRequest EXCEPT !.kind = kind, !.via = "session",
                                                !.key = sid, !.caller = sessions[sid]])
    BY <1>3 DEF FindSession
  <2>2. /\ pc'[h] = "caller" /\ req'[h].via = "session"
        /\ req'[h].caller = sessions[sid]
    BY <1>1, <2>1 DEF Become, RequestsOK, NoRequest
  <2>3. sessions[sid] \in 1..lastId
    BY <1>1, <1>2 DEF NoDanglingOwner
  <2> QED
    BY <1>3, <2>2, <2>3 DEF Remembers, FindSession, dbVars
<1>4. CASE FindToken(h)
  <2>1. PICK kind \in AuthedKinds, tid \in DOMAIN tokens :
          Become(h, "caller", [NoRequest EXCEPT !.kind = kind, !.via = "token",
                                                !.caller = tokens[tid].owner,
                                                !.role = tokens[tid].role])
    BY <1>4 DEF FindToken
  <2>2. /\ pc'[h] = "caller" /\ req'[h].caller = tokens[tid].owner
        /\ req'[h].role = tokens[tid].role
    BY <1>1, <2>1 DEF Become, RequestsOK, NoRequest
  <2>3. /\ tokens[tid].owner \in 1..lastId
        /\ Rank[tokens[tid].role] <= top[tokens[tid].owner]
    BY <1>1, <1>2 DEF NoDanglingOwner, Ranked
  <2> QED
    BY <1>4, <2>2, <2>3 DEF Remembers, FindToken, dbVars
<1>5. CASE LoadCaller(h)
  <2>1. CASE Reply(h)
    BY <1>1, <2>1, RepliedRemembers
  <2>2. CASE /\ req[h].caller \in DOMAIN users
             /\ AtLeast(EffectiveRole(req[h]), MinRole(req[h].kind))
             /\ Become(h, "handler", [req[h] EXCEPT !.role = EffectiveRole(req[h])])
    <3>1. /\ pc'[h] = "handler" /\ req'[h].caller = req[h].caller
          /\ req'[h].role = EffectiveRole(req[h]) /\ req'[h].kind = req[h].kind
      BY <1>1, <2>2 DEF Become, RequestsOK, Request
    <3>2. Rank[EffectiveRole(req[h])] <= top[req[h].caller]
      BY <1>1, <1>5, <2>2 DEF EffectiveRole, Remembers, Ranked, LoadCaller
    <3>3. /\ EffectiveRole(req[h]) \in Role
          /\ Rank[MinRole(req[h].kind)] <= Rank[EffectiveRole(req[h])]
      BY <1>1, <2>2, RankType, ReadType DEF AtLeast, EffectiveRole, Request
    <3> QED
      BY <1>2, <1>5, <2>2, <3>1, <3>2, <3>3 DEF Remembers, LoadCaller, dbVars
  <2> QED
    BY <1>5, <2>1, <2>2 DEF LoadCaller
<1> QED
  BY <1>3, <1>4, <1>5

(* A handler that reads its target remembers what it has just read. *)
LEMMA HandlerRemembers ==
  ASSUME Inv, TypeOK', NEW h \in Handlers,
         ReadTarget(h) \/ GuardLastAdmin(h) \/ ReadToken(h)
  PROVE  Remembers(h)'
<1>1. TablesOK /\ RequestsOK /\ req[h] \in Request /\ Remembers(h)
  BY DEF Inv, TypeOK, RequestsOK
<1>2. \A i \in DOMAIN users : i \in 1..lastId
  BY <1>1 DEF TablesOK
<1>3. CASE ReadTarget(h)
  <2>1. CASE Reply(h)
    BY <1>1, <2>1, RepliedRemembers
  <2>2. ASSUME NEW id \in DOMAIN users, NEW new \in Role, NEW step \in {"guard", "write"},
               Become(h, step, [req[h] EXCEPT !.target = id, !.seen = users[id].name,
                                              !.new = new])
        PROVE  Remembers(h)'
    <3>1. /\ pc'[h] \in {"guard", "write"} /\ req'[h].caller = req[h].caller
          /\ req'[h].role = req[h].role /\ req'[h].kind = req[h].kind
          /\ req'[h].target = id /\ req'[h].seen = users[id].name
      BY <1>1, <2>2 DEF Become, RequestsOK, Request
    <3> QED
      BY <1>1, <1>2, <1>3, <3>1 DEF Remembers, ReadTarget, dbVars
  <2> QED
    BY <1>3, <2>1, <2>2 DEF ReadTarget
<1>4. CASE GuardLastAdmin(h)
  <2>1. CASE Reply(h)
    BY <1>1, <2>1, RepliedRemembers
  <2>2. CASE Become(h, "write", req[h])
    BY <1>1, <1>4, <2>2 DEF Become, RequestsOK, Remembers, GuardLastAdmin, dbVars
  <2> QED
    BY <1>4, <2>1, <2>2 DEF GuardLastAdmin
<1>5. CASE ReadToken(h)
  <2>1. CASE Reply(h)
    BY <1>1, <2>1, RepliedRemembers
  <2>2. ASSUME NEW tid \in DOMAIN tokens,
               Become(h, "write", [req[h] EXCEPT !.target = tid])
        PROVE  Remembers(h)'
    <3>1. /\ pc'[h] = "write" /\ req'[h].caller = req[h].caller
          /\ req'[h].role = req[h].role /\ req'[h].kind = "tokenDelete"
      BY <1>1, <1>5, <2>2 DEF Become, RequestsOK, Request, ReadToken, Serving
    <3> QED
      BY <1>1, <1>5, <3>1 DEF Remembers, ReadToken, Serving, dbVars
  <2> QED
    BY <1>5, <2>1, <2>2 DEF ReadToken
<1> QED
  BY <1>3, <1>4, <1>5

(* So does a request without a caller: set-up, password login and OIDC. *)
LEMMA PublicRemembers ==
  ASSUME Inv, TypeOK', NEW h \in Handlers,
         SetupCount(h) \/ LoginFind(h) \/ OIDCFind(h) \/ OIDCCreate(h)
  PROVE  Remembers(h)'
<1>1. TablesOK /\ RequestsOK /\ req[h] \in Request
  BY DEF Inv, TypeOK, RequestsOK
<1>2. \A i \in DOMAIN users : i \in 1..lastId
  BY <1>1 DEF TablesOK
<1>3. CASE SetupCount(h)
  BY <1>1, <1>3 DEF SetupCount, Become, RequestsOK, Remembers
<1>4. CASE LoginFind(h)
  <2>1. PICK id \in DOMAIN users :
          Become(h, "session", [NoRequest EXCEPT !.kind = "login", !.caller = id,
                                                 !.name = users[id].name])
    BY <1>4 DEF LoginFind
  <2>2. pc'[h] = "session" /\ req'[h].caller = id /\ req'[h].name = users[id].name
    BY <1>1, <2>1 DEF Become, RequestsOK, NoRequest
  <2> QED
    BY <1>2, <1>4, <2>2 DEF Remembers, LoginFind, dbVars
<1>5. CASE OIDCFind(h)
  <2>1. PICK name \in Names :
          \/ \E id \in DOMAIN users :
               /\ users[id].name = name
               /\ Become(h, "session", [NoRequest EXCEPT !.kind = "oidc", !.name = name,
                                                         !.caller = id])
          \/ Become(h, "oidcCreate", [NoRequest EXCEPT !.kind = "oidc", !.name = name])
    BY <1>5 DEF OIDCFind
  <2>2. \/ pc'[h] = "oidcCreate"
        \/ /\ pc'[h] = "session" /\ req'[h].caller \in DOMAIN users
           /\ users[req'[h].caller].name = req'[h].name
    BY <1>1, <2>1 DEF Become, RequestsOK, NoRequest
  <2> QED
    BY <1>2, <1>5, <2>2 DEF Remembers, OIDCFind, dbVars
<1>6. CASE OIDCCreate(h)
  <2>1. CASE Reply(h)
    BY <1>1, <2>1, RepliedRemembers
  <2>2. CASE /\ \E pw \in Passwords : CreateUser(req[h].name, OIDCRole, pw)
             /\ Become(h, "session", [req[h] EXCEPT !.caller = NewUserId])
    <3>1. /\ pc'[h] = "session" /\ req'[h].caller = lastId + 1
          /\ req'[h].name = req[h].name
      BY <1>1, <2>2 DEF Become, RequestsOK, Request, NewUserId
    <3>2. lastId + 1 \in 1..lastId' /\ users'[lastId + 1].name = req[h].name
      BY <1>1, <2>2 DEF CreateUser, NewUserId, TablesOK
    <3> QED
      BY <3>1, <3>2 DEF Remembers
  <2> QED
    BY <1>6, <2>1, <2>2 DEF OIDCCreate
<1> QED
  BY <1>3, <1>4, <1>5, <1>6

(* Every step of a request moves that request and no other. *)
LEMMA StepBecomes ==
  ASSUME NEW h \in Handlers, Step(h)
  PROVE  \E step, r : Become(h, step, r)
<1>1. CASE FindSession(h) \/ FindToken(h) \/ LoadCaller(h)
  BY <1>1 DEF FindSession, FindToken, LoadCaller, Reply
<1>2. CASE ReadTarget(h) \/ GuardLastAdmin(h) \/ ReadToken(h)
  BY <1>2 DEF ReadTarget, GuardLastAdmin, ReadToken, Reply
<1>3. CASE SetupCount(h) \/ LoginFind(h) \/ OIDCFind(h) \/ OIDCCreate(h)
  BY <1>3 DEF SetupCount, LoginFind, OIDCFind, OIDCCreate, Reply
<1> QED
  BY <1>1, <1>2, <1>3
  DEF Step, Reply, Logout, PanelUserCreate, PanelUserDelete, PanelUserSetRole,
      PanelUserSetPassword, TokenCreate, TokenDelete, SetupCreate, OpenSession

(* Tokens appear only when a request issues one. *)
LEMMA TokenStep ==
  ASSUME [Next]_vars, lastToken' # lastToken
  PROVE  \E h \in Handlers : TokenCreate(h)
BY DEF Next, Step, vars, dbVars, FindSession, FindToken, LoadCaller, Logout,
  PanelUserCreate, ReadTarget, GuardLastAdmin, PanelUserDelete, PanelUserSetRole,
  PanelUserSetPassword, ReadToken, TokenDelete, SetupCount, SetupCreate, LoginFind,
  OIDCFind, OIDCCreate, OpenSession, ExpireSession, CreateUser, DeleteUser,
  UpdateUserRole, UpdateUserPassword, CreateSession, DeleteSession, DeleteAPIToken

(* Accounts and tokens stay within the history: an inserted or promoted account
   is recorded, an issued token is capped by a rank the caller had. *)
LEMMA NextRanked == Inv /\ [Next]_vars => Ranked'
<1> SUFFICES ASSUME Inv, [Next]_vars PROVE Ranked'
  OBVIOUS
<1>1. /\ TablesOK /\ NoDanglingOwner /\ Ranked /\ Statement /\ Stable
  BY NextStatement, StatementStable DEF Inv, TypeOK
<1>2. /\ \A i \in DOMAIN users : i \in 1..lastId
      /\ \A t \in DOMAIN tokens : tokens[t].owner \in 1..lastId
      /\ \A i \in 1..lastId : top[i] \in 0..3
  BY <1>1 DEF TablesOK, NoDanglingOwner
<1>3. CASE UNCHANGED <<users, tokens, top>>
  BY <1>1, <1>3 DEF Ranked
<1>4. ASSUME NEW name \in Names, NEW role \in Role, NEW pw \in Passwords,
             CreateUser(name, role, pw)
      PROVE  Ranked'
  <2>1. Rank[role] <= Rank[role]
    BY RankType
  <2> QED
    BY <1>1, <1>2, <1>4, <2>1 DEF CreateUser, NewUserId, Ranked, TablesOK
<1>5. ASSUME NEW id \in Nat, DeleteUser(id)
      PROVE  Ranked'
  BY <1>1, <1>5 DEF DeleteUser, Ranked
<1>6. ASSUME NEW id \in Nat, NEW role \in Role, UpdateUserRole(id, role)
      PROVE  Ranked'
  <2>1. Rank[role] \in Nat /\ tokens' = tokens
    BY <1>6, RankType DEF UpdateUserRole
  <2>2. \A i \in DOMAIN users : Rank[users'[i].role] <= top'[i]
    <3> SUFFICES ASSUME NEW i \in DOMAIN users PROVE Rank[users'[i].role] <= top'[i]
      OBVIOUS
    <3>1. CASE i = id
      <4>1. users'[i].role = role /\ top[i] \in 0..3
        BY <1>1, <1>2, <1>6, <3>1 DEF UpdateUserRole, TablesOK, Row
      <4>2. top'[i] = IF Rank[role] > top[i] THEN Rank[role] ELSE top[i]
        BY <1>1, <1>2, <1>6, <3>1 DEF UpdateUserRole, TablesOK
      <4> QED
        BY <2>1, <4>1, <4>2
    <3>2. CASE i # id
      BY <1>1, <1>2, <1>6, <3>2 DEF UpdateUserRole, TablesOK, Ranked
    <3> QED
      BY <3>1, <3>2
  <2>3. \A t \in DOMAIN tokens : Rank[tokens[t].role] <= top'[tokens[t].owner]
    <3> SUFFICES ASSUME NEW t \in DOMAIN tokens
                 PROVE  Rank[tokens[t].role] <= top'[tokens[t].owner]
      OBVIOUS
    <3> DEFINE o == tokens[t].owner
    <3>1. /\ Rank[tokens[t].role] \in Nat /\ Rank[tokens[t].role] <= top[o]
          /\ o \in 1..lastId /\ top[o] \in 0..3 /\ top'[o] >= top[o]
      BY <1>1, <1>2, RankType, ReadType DEF Ranked, Stable
    <3>2. top'[o] = top[o] \/ top'[o] = Rank[role]
      BY <1>1, <1>6, <3>1 DEF UpdateUserRole, TablesOK
    <3> QED
      BY <2>1, <3>1, <3>2
  <2> QED
    BY <1>6, <2>1, <2>2, <2>3 DEF Ranked, UpdateUserRole
<1>7. ASSUME NEW id \in Nat, NEW pw \in Passwords, UpdateUserPassword(id, pw)
      PROVE  Ranked'
  <2>1. \A i \in DOMAIN users : users'[i].role = users[i].role
    BY <1>1, <1>7 DEF UpdateUserPassword, TablesOK, Row
  <2> QED
    BY <1>1, <1>7, <2>1 DEF UpdateUserPassword, Ranked
<1>8. ASSUME NEW id \in DOMAIN users, CreateSession(id)
      PROVE  Ranked'
  BY <1>3, <1>8 DEF CreateSession
<1>9. ASSUME NEW id \in DOMAIN users, NEW role \in Role, CreateAPIToken(id, role)
      PROVE  Ranked'
  <2>1. PICK h \in Handlers : TokenCreate(h)
    BY <1>1, <1>9, TokenStep DEF CreateAPIToken, TablesOK
  <2>2. PICK cap \in Role :
          /\ AtLeast(req[h].role, cap)
          /\ CreateAPIToken(req[h].caller, cap)
    BY <1>1, <1>9, <2>1 DEF TokenCreate, MayIssue, CreateAPIToken, dbVars, TablesOK
  <2>3. /\ Rank[cap] <= Rank[req[h].role] /\ Rank[req[h].role] <= top[req[h].caller]
        /\ Rank[cap] \in Nat /\ Rank[req[h].role] \in Nat /\ req[h].caller \in 1..lastId
    BY <2>1, <2>2, RankType
    DEF Inv, TypeOK, RequestsOK, Request, Remembers, AtLeast, MayIssue, TokenCreate, Serving
  <2>4. Rank[cap] <= top[req[h].caller]
    BY <1>2, <2>3
  <2> QED
    BY <1>1, <2>2, <2>4 DEF CreateAPIToken, Ranked
<1>10. ASSUME NEW key \in Nat, DeleteSession(key) \/ DeleteAPIToken(key)
       PROVE  Ranked'
  BY <1>1, <1>10 DEF DeleteSession, DeleteAPIToken, Ranked
<1> QED
  BY <1>1, <1>3, <1>4, <1>5, <1>6, <1>7, <1>8, <1>9, <1>10 DEF Statement, dbVars

------------------------------------------------------------------------------
(* The invariant is inductive. *)

(* The invariant holds of empty tables and idle goroutines. *)
LEMMA InitInv == Init => Inv
<1>1. Init => NoDanglingOwner /\ Ranked /\ \A h \in Handlers : Remembers(h)
  BY DEF Init, NoDanglingOwner, Ranked, Remembers
<1> QED
  BY <1>1, InitType DEF Inv

(* The request of g stays where it is when another one moves. *)
LEMMA OthersStay ==
  ASSUME RequestsOK, NEW h \in Handlers, NEW g \in Handlers \ {h}, NEW step, NEW r,
         Become(h, step, r)
  PROVE  pc'[g] = pc[g] /\ req'[g] = req[g]
BY DEF Become, RequestsOK

(* Every step keeps the invariant: the request that moves remembers what it
   has just read, the others what stays true. *)
LEMMA NextInv == Inv /\ [Next]_vars => Inv'
<1> SUFFICES ASSUME Inv, [Next]_vars PROVE Inv'
  OBVIOUS
<1>1. TypeOK /\ TypeOK' /\ NoDanglingOwner' /\ Ranked' /\ Stable /\ RequestsOK
  BY NextType, NextStatement, StatementOwners, StatementStable, NextRanked DEF Inv, TypeOK
<1>2. ASSUME NEW h \in Handlers PROVE Remembers(h)'
  <2>1. CASE pc'[h] = pc[h] /\ req'[h] = req[h]
    BY <1>1, <2>1, RememberedStays DEF Inv
  <2>2. CASE UNCHANGED vars \/ ExpireSession
    BY <2>1, <2>2 DEF vars, ExpireSession
  <2>3. CASE Step(h)
    BY <1>1, <2>3, AuthRemembers, HandlerRemembers, PublicRemembers, RepliedRemembers
    DEF Step, Logout, PanelUserCreate, PanelUserDelete, PanelUserSetRole,
        PanelUserSetPassword, TokenCreate, TokenDelete, SetupCreate, OpenSession
  <2>4. ASSUME NEW g \in Handlers \ {h}, Step(g)
        PROVE  pc'[h] = pc[h] /\ req'[h] = req[h]
    <3>1. \E step, r : Become(g, step, r)
      BY <2>4, StepBecomes
    <3> QED
      BY <1>1, <3>1, OthersStay
  <2> QED
    BY <2>1, <2>2, <2>3, <2>4 DEF Next
<1> QED
  BY <1>1, <1>2 DEF Inv

(* The invariant holds in every reachable state. *)
LEMMA Invariance == Spec => []Inv
BY InitInv, NextInv, PTL DEF Spec

(* An id read by one statement of a request names the same account, or none,
   when a later statement uses it. *)
THEOREM AccountsKeepIdentity == Spec => []SameAccount
<1>1. Inv => SameAccount
  BY DEF Inv, Remembers, SameAccount
<1> QED
  BY <1>1, Invariance, PTL

(* No token and no admin handler runs with a privilege its account never had. *)
THEOREM PrivilegeNeverMadeUp == Spec => []PrivilegeTraced
<1>1. Inv => PrivilegeTraced
  <2> SUFFICES ASSUME Inv, NEW h \in Handlers, pc[h] \in {"handler", "guard", "write"}
               PROVE  Rank[MinRole(req[h].kind)] <= top[req[h].caller]
    BY DEF Inv, Ranked, PrivilegeTraced
  <2>1. /\ Rank[req[h].role] <= top[req[h].caller]
        /\ Rank[MinRole(req[h].kind)] <= Rank[req[h].role]
        /\ req[h].caller \in 1..lastId
    BY DEF Inv, Remembers
  <2>2. /\ Rank[req[h].role] \in Nat /\ Rank[MinRole(req[h].kind)] \in Nat
        /\ top[req[h].caller] \in 0..3
    BY <2>1, RankType DEF Inv, TypeOK, TablesOK, RequestsOK, Request
  <2> QED
    BY <2>1, <2>2
<1> QED
  BY <1>1, Invariance, PTL

------------------------------------------------------------------------------
(* The last admin, when deletions and role changes do not overlap. *)

(* A request serves a kind its goroutine serves; and when it is about to delete
   or demote its target, the target is not the only admin.  The guard only
   establishes this; that it still holds at the UPDATE or DELETE is what needs
   the removals to be serial. *)
Guarded(h) ==
  LET r == req[h] IN
  /\ pc[h] # "idle" => r.kind \in Kinds[h]
  /\ pc[h] = "write" /\ r.kind \in Removals /\ (r.kind = "delete" \/ r.new # "admin")
       => Admins # {r.target}

SerialInv == Inv /\ \A h \in Handlers : Guarded(h)

(* What statement a handler's step runs on the accounts. *)
LEMMA StepUsers ==
  ASSUME TypeOK, NEW h \in Handlers, Step(h)
  PROVE  \/ UNCHANGED <<users, lastId>>
         \/ \E name \in Names, role \in Role, pw \in Passwords :
              ~NameTaken(name) /\ CreateUser(name, role, pw)
         \/ PanelUserDelete(h)
         \/ PanelUserSetRole(h)
         \/ PanelUserSetPassword(h)
<1>1. req[h].name \in Names
  BY DEF TypeOK, RequestsOK, Request
<1>2. CASE PanelUserCreate(h) \/ SetupCreate(h)
  BY <1>2, RoleConstants DEF PanelUserCreate, SetupCreate, dbVars
<1>3. CASE OIDCCreate(h)
  BY <1>1, <1>3, OIDCRoleAssumption DEF OIDCCreate, dbVars
<1>4. CASE \/ FindSession(h) \/ FindToken(h) \/ LoadCaller(h) \/ ReadTarget(h)
           \/ GuardLastAdmin(h) \/ ReadToken(h) \/ SetupCount(h)
           \/ LoginFind(h) \/ OIDCFind(h)
  BY <1>4 DEF FindSession, FindToken, LoadCaller, ReadTarget, GuardLastAdmin,
       ReadToken, SetupCount, LoginFind, OIDCFind, dbVars
<1>5. CASE Logout(h) \/ TokenCreate(h) \/ TokenDelete(h) \/ OpenSession(h)
  BY <1>5 DEF Logout, TokenCreate, TokenDelete, OpenSession, dbVars,
       DeleteSession, CreateAPIToken, DeleteAPIToken, CreateSession
<1> QED
  BY <1>2, <1>3, <1>4, <1>5 DEF Step

(* An inserted account is not somebody's target. *)
LEMMA CreateKeepsGuard ==
  ASSUME TablesOK, NEW name \in Names, NEW role \in Role, NEW pw \in Passwords,
         CreateUser(name, role, pw), NEW t \in 1..lastId, Admins # {t}
  PROVE  Admins' # {t}
<1>1. \A i \in DOMAIN users : i \in DOMAIN users' /\ users'[i] = users[i]
  BY DEF CreateUser, NewUserId, TablesOK
<1>2. Admins \subseteq Admins'
  BY <1>1 DEF Admins
<1>3. t \in Admins' => t \in Admins
  BY DEF CreateUser, NewUserId, TablesOK, Admins
<1> QED
  BY <1>2, <1>3

(* A new password makes nobody an admin and nobody less than one. *)
LEMMA PasswordKeepsAdmins ==
  ASSUME TablesOK, NEW id \in Nat, NEW pw \in Passwords, UpdateUserPassword(id, pw)
  PROVE  Admins' = Admins
BY DEF TablesOK, UpdateUserPassword, Admins, Row

(* While somebody else's request moves, a guard stays good. *)
LEMMA GuardStays ==
  ASSUME SerialRemovals, Inv, NEW h \in Handlers, Guarded(h),
         NEW g \in Handlers \ {h}, Guarded(g), Step(g)
  PROVE  Guarded(h)'
<1>1. TypeOK /\ TablesOK /\ RequestsOK /\ Remembers(h)
  BY DEF Inv, TypeOK
<1>2. pc'[h] = pc[h] /\ req'[h] = req[h]
  BY <1>1, StepBecomes, OthersStay
<1> SUFFICES ASSUME pc[h] = "write", req[h].kind \in Removals,
                    req[h].kind = "delete" \/ req[h].new # "admin"
             PROVE  Admins' # {req[h].target}
  BY <1>2 DEF Guarded
<1>3. /\ Admins # {req[h].target} /\ req[h].target \in 1..lastId
      /\ Kinds[h] \cap Removals # {}
  BY <1>1 DEF Guarded, Remembers, Removals
<1>4. CASE UNCHANGED <<users, lastId>>
  BY <1>3, <1>4 DEF Admins
<1>5. CASE \E name \in Names, role \in Role, pw \in Passwords : CreateUser(name, role, pw)
  BY <1>1, <1>3, <1>5, CreateKeepsGuard
<1>6. CASE PanelUserDelete(g) \/ PanelUserSetRole(g)
  <2>1. req[g].kind \in Kinds[g] \cap Removals
    BY <1>6 DEF Guarded, PanelUserDelete, PanelUserSetRole, Removals
  <2> QED
    BY <1>3, <2>1 DEF SerialRemovals
<1>7. CASE PanelUserSetPassword(g)
  <2>1. req[g].target \in Nat
    BY <1>1 DEF RequestsOK, Request
  <2> QED
    BY <1>1, <1>3, <1>7, <2>1, PasswordKeepsAdmins DEF PanelUserSetPassword
<1> QED
  BY <1>1, <1>4, <1>5, <1>6, <1>7, StepUsers

(* A request that comes to its write has passed what guards it. *)
LEMMA GuardPassed ==
  ASSUME SerialInv, NEW h \in Handlers, Step(h)
  PROVE  Guarded(h)'
<1>1. TablesOK /\ RequestsOK /\ req[h] \in Request /\ Guarded(h)
  BY DEF SerialInv, Inv, TypeOK, RequestsOK
<1>2. CASE Reply(h)
  BY <1>1, <1>2 DEF Reply, Become, RequestsOK, Guarded
<1>3. CASE FindSession(h) \/ FindToken(h)
  <2>1. PICK r : Become(h, "caller", r) /\ r.kind \in Kinds[h]
    <3>1. CASE FindSession(h)
      <4>1. PICK kind \in Kinds[h] \cap AuthedKinds, sid \in DOMAIN sessions :
              Become(h, "caller", [NoRequest EXCEPT !.kind = kind, !.via = "session",
                                                    !.key = sid, !.caller = sessions[sid]])
        BY <3>1 DEF FindSession
      <4>2. [NoRequest EXCEPT !.kind = kind, !.via = "session", !.key = sid,
                              !.caller = sessions[sid]].kind = kind
        BY DEF NoRequest
      <4> QED
        BY <4>1, <4>2
    <3>2. CASE FindToken(h)
      <4>1. PICK kind \in Kinds[h] \cap AuthedKinds, tid \in DOMAIN tokens :
              Become(h, "caller", [NoRequest EXCEPT !.kind = kind, !.via = "token",
                                                    !.caller = tokens[tid].owner,
                                                    !.role = tokens[tid].role])
        BY <3>2 DEF FindToken
      <4>2. [NoRequest EXCEPT !.kind = kind, !.via = "token",
                              !.caller = tokens[tid].owner, !.role = tokens[tid].role].kind = kind
        BY DEF NoRequest
      <4> QED
        BY <4>1, <4>2
    <3> QED
      BY <1>3, <3>1, <3>2
  <2>2. pc'[h] = "caller" /\ req'[h].kind \in Kinds[h]
    BY <1>1, <2>1 DEF Become, RequestsOK
  <2> QED
    BY <2>2 DEF Guarded
<1>4. CASE LoadCaller(h)
  <2>1. CASE Become(h, "handler", [req[h] EXCEPT !.role = EffectiveRole(req[h])])
    <3>1. pc'[h] = "handler" /\ req'[h].kind = req[h].kind
      BY <1>1, <2>1 DEF Become, RequestsOK, Request
    <3> QED
      BY <1>1, <1>4, <3>1 DEF Guarded, LoadCaller
  <2> QED
    BY <1>2, <1>4, <2>1 DEF LoadCaller
<1>5. CASE ReadTarget(h)
  <2>1. ASSUME NEW id \in DOMAIN users, NEW new \in Role,
               Become(h, IF NeedsGuard(req[h].kind, users[id], new) THEN "guard" ELSE "write",
                      [req[h] EXCEPT !.target = id, !.seen = users[id].name, !.new = new])
        PROVE  Guarded(h)'
    <3>1. /\ pc'[h] = IF NeedsGuard(req[h].kind, users[id], new) THEN "guard" ELSE "write"
          /\ req'[h].kind = req[h].kind /\ req'[h].target = id /\ req'[h].new = new
      BY <1>1, <2>1 DEF Become, RequestsOK, Request
    <3>2. users' = users /\ pc[h] = "handler"
      BY <1>5 DEF ReadTarget, dbVars
    <3> QED
      BY <1>1, <3>1, <3>2 DEF Guarded, NeedsGuard, Admins, Removals
  <2>2. \/ Reply(h)
        \/ \E id \in DOMAIN users, new \in Role :
             Become(h, IF NeedsGuard(req[h].kind, users[id], new) THEN "guard" ELSE "write",
                    [req[h] EXCEPT !.target = id, !.seen = users[id].name, !.new = new])
    BY <1>1, <1>5 DEF ReadTarget, Request
  <2> QED
    BY <1>2, <2>1, <2>2
<1>6. CASE GuardLastAdmin(h)
  <2>1. CASE ~(Cardinality(Admins) <= 1) /\ Become(h, "write", req[h])
    <3>1. Admins # {req[h].target}
      <4>1. Cardinality({req[h].target}) = 1
        BY FS_Singleton
      <4> QED
        BY <2>1, <4>1
    <3>2. Admins' = Admins
      BY <1>6 DEF GuardLastAdmin, dbVars, Admins
    <3>3. pc'[h] = "write" /\ req'[h] = req[h]
      BY <1>1, <2>1 DEF Become, RequestsOK
    <3> QED
      BY <1>1, <1>6, <3>1, <3>2, <3>3 DEF Guarded, GuardLastAdmin
  <2> QED
    BY <1>2, <1>6, <2>1 DEF GuardLastAdmin
<1>7. CASE ReadToken(h)
  <2>1. ASSUME NEW tid \in DOMAIN tokens,
               Become(h, "write", [req[h] EXCEPT !.target = tid])
        PROVE  Guarded(h)'
    <3>1. pc'[h] = "write" /\ req'[h].kind = req[h].kind
      BY <1>1, <2>1 DEF Become, RequestsOK, Request
    <3> QED
      BY <1>1, <1>7, <3>1 DEF Guarded, ReadToken, Serving, Removals
  <2> QED
    BY <1>2, <1>7, <2>1 DEF ReadToken
<1>8. CASE SetupCount(h) \/ LoginFind(h) \/ OIDCFind(h)
  <2> USE DEF Become, RequestsOK
  <2>1. CASE SetupCount(h)
    BY <1>1, <2>1 DEF SetupCount, Guarded
  <2>2. CASE LoginFind(h)
    BY <1>1, <2>2 DEF LoginFind, Guarded
  <2>3. CASE OIDCFind(h)
    <3> DEFINE r(name) == [NoRequest EXCEPT !.kind = "oidc", !.name = name]
    <3>1. "oidc" \in Kinds[h]
      BY <2>3 DEF OIDCFind
    <3>2. ASSUME NEW name \in Names, NEW id \in DOMAIN users,
                 Become(h, "session", [r(name) EXCEPT !.caller = id])
          PROVE  Guarded(h)'
      BY <1>1, <3>1, <3>2 DEF Guarded, NoRequest
    <3>3. ASSUME NEW name \in Names, Become(h, "oidcCreate", r(name)) PROVE Guarded(h)'
      BY <1>1, <3>1, <3>3 DEF Guarded, NoRequest
    <3> QED
      BY <2>3, <3>2, <3>3 DEF OIDCFind
  <2> QED
    BY <1>8, <2>1, <2>2, <2>3
<1>9. CASE OIDCCreate(h)
  <2>1. CASE Become(h, "session", [req[h] EXCEPT !.caller = NewUserId])
    <3>1. pc'[h] = "session" /\ req'[h].kind = req[h].kind
      BY <1>1, <2>1 DEF Become, RequestsOK, Request
    <3> QED
      BY <1>1, <1>9, <3>1 DEF Guarded, OIDCCreate
  <2> QED
    BY <1>2, <1>9, <2>1 DEF OIDCCreate
<1>10. CASE \/ Logout(h) \/ PanelUserCreate(h) \/ PanelUserDelete(h) \/ PanelUserSetRole(h)
            \/ PanelUserSetPassword(h) \/ TokenCreate(h) \/ TokenDelete(h)
            \/ SetupCreate(h) \/ OpenSession(h)
  BY <1>2, <1>10 DEF Logout, PanelUserCreate, PanelUserDelete, PanelUserSetRole,
       PanelUserSetPassword, TokenCreate, TokenDelete, SetupCreate, OpenSession
<1> QED
  BY <1>3, <1>4, <1>5, <1>6, <1>7, <1>8, <1>9, <1>10 DEF Step

(* The strengthened invariant holds at the start. *)
LEMMA InitSerial == Init => SerialInv
BY InitInv DEF Init, SerialInv, Guarded

(* Under serial removals the guarded target stays guarded. *)
LEMMA NextSerial == ASSUME SerialRemovals, SerialInv, [Next]_vars PROVE SerialInv'
<1>1. Inv /\ Inv' /\ RequestsOK
  BY NextInv DEF SerialInv, Inv, TypeOK
<1>2. ASSUME NEW h \in Handlers PROVE Guarded(h)'
  <2>1. CASE UNCHANGED vars
    BY <2>1 DEF SerialInv, Guarded, vars, Admins
  <2>2. CASE ExpireSession
    <3>1. UNCHANGED <<users, pc, req>>
      BY <2>2 DEF ExpireSession, DeleteSession
    <3> QED
      BY <3>1 DEF SerialInv, Guarded, Admins
  <2>3. CASE Step(h)
    BY <2>3, GuardPassed
  <2>4. ASSUME NEW g \in Handlers \ {h}, Step(g) PROVE Guarded(h)'
    BY <1>1, <2>4, GuardStays DEF SerialInv
  <2> QED
    BY <2>1, <2>2, <2>3, <2>4 DEF Next
<1> QED
  BY <1>1, <1>2 DEF SerialInv

(* Under serial removals the strengthened invariant holds in every state. *)
LEMMA SerialInvariance == ASSUME SerialRemovals PROVE Spec => []SerialInv
<1>1. SerialInv /\ [Next]_vars => SerialInv'
  BY NextSerial
<1> QED
  BY <1>1, InitSerial, PTL DEF Spec

(* Each statement on the accounts is a step of the abstract table. *)
LEMMA AddRefines ==
  ASSUME TablesOK, NEW name \in Names, NEW role \in Role, NEW pw \in Passwords,
         ~NameTaken(name), CreateUser(name, role, pw)
  PROVE  Table!TableNext
<1>1. [name |-> name, role |-> role, pw |-> pw] \in Table!Row
  BY DEF Table!Row, Role, Table!Role
<1>2. Table!Add([name |-> name, role |-> role, pw |-> pw])
  BY DEF Table!Add, NameTaken, CreateUser, NewUserId
<1> QED
  BY <1>1, <1>2 DEF Table!TableNext

(* A DELETE of another account than the only admin is the table's Remove. *)
LEMMA RemoveRefines ==
  ASSUME TablesOK, NEW id \in Nat, DeleteUser(id), Admins # {id}
  PROVE  [Table!TableNext]_<<users, lastId>>
<1>1. CASE id \in DOMAIN users
  <2>1. Table!Remove(id)
    BY <1>1 DEF Table!Remove, Table!Admins, Admins, DeleteUser
  <2> QED
    BY <1>1, <2>1 DEF Table!TableNext
<1>2. CASE id \notin DOMAIN users
  BY <1>2 DEF DeleteUser, TablesOK
<1> QED
  BY <1>1, <1>2

(* An UPDATE of a role that leaves an admin is the table's Reassign. *)
LEMMA ReassignRefines ==
  ASSUME TablesOK, NEW id \in Nat, NEW role \in Role, UpdateUserRole(id, role),
         role # "admin" => Admins # {id}
  PROVE  [Table!TableNext]_<<users, lastId>>
<1>1. CASE id \in DOMAIN users
  <2>1. Table!Reassign(id, role)
    BY <1>1 DEF Table!Reassign, Table!Admins, Admins, UpdateUserRole, TablesOK
  <2>2. role \in Table!Role
    BY DEF Role, Table!Role
  <2> QED
    BY <1>1, <2>1, <2>2 DEF Table!TableNext
<1>2. CASE id \notin DOMAIN users
  BY <1>2 DEF UpdateUserRole, TablesOK
<1> QED
  BY <1>1, <1>2

(* An UPDATE of a password is the table's Rekey. *)
LEMMA RekeyRefines ==
  ASSUME TablesOK, NEW id \in Nat, NEW pw \in Passwords, UpdateUserPassword(id, pw)
  PROVE  [Table!TableNext]_<<users, lastId>>
<1>1. CASE id \in DOMAIN users
  <2>1. Table!Rekey(id, pw)
    BY <1>1 DEF Table!Rekey, UpdateUserPassword, TablesOK
  <2> QED
    BY <1>1, <2>1 DEF Table!TableNext
<1>2. CASE id \notin DOMAIN users
  BY <1>2 DEF UpdateUserPassword, TablesOK
<1> QED
  BY <1>1, <1>2

(* Every step of the panel is a step of the abstract table, or none. *)
LEMMA NextRefines == ASSUME SerialInv, [Next]_vars PROVE [Table!TableNext]_<<users, lastId>>
<1>1. TypeOK /\ TablesOK /\ RequestsOK
  BY DEF SerialInv, Inv, TypeOK
<1>2. CASE UNCHANGED vars
  BY <1>2 DEF vars
<1>3. CASE ExpireSession
  BY <1>3 DEF ExpireSession, DeleteSession
<1>4. ASSUME NEW h \in Handlers, Step(h) PROVE [Table!TableNext]_<<users, lastId>>
  <2>1. req[h].target \in Nat /\ req[h].new \in Role /\ Guarded(h)
    BY <1>1 DEF SerialInv, RequestsOK, Request
  <2>2. CASE \E name \in Names, role \in Role, pw \in Passwords :
               ~NameTaken(name) /\ CreateUser(name, role, pw)
    BY <1>1, <2>2, AddRefines
  <2>3. CASE PanelUserDelete(h)
    BY <1>1, <2>1, <2>3, RemoveRefines DEF PanelUserDelete, Guarded, Removals
  <2>4. CASE PanelUserSetRole(h)
    BY <1>1, <2>1, <2>4, ReassignRefines DEF PanelUserSetRole, Guarded, Removals
  <2>5. CASE PanelUserSetPassword(h)
    BY <1>1, <2>1, <2>5, RekeyRefines DEF PanelUserSetPassword
  <2> QED
    BY <1>1, <1>4, <2>2, <2>3, <2>4, <2>5, StepUsers
<1> QED
  BY <1>2, <1>3, <1>4 DEF Next

(* With at most one goroutine deleting and demoting, account management is an
   implementation of the atomic table, whose last admin can neither go nor be
   demoted: guardLastAdmin keeps its word. *)
THEOREM Atomic == ASSUME SerialRemovals PROVE Spec => AtomicTable
<1>1. Init => Table!TableInit
  BY DEF Init, Table!TableInit
<1>2. SerialInv /\ [Next]_vars => [Table!TableNext]_(Table!tableVars)
  BY NextRefines DEF Table!tableVars
<1> QED
  BY <1>1, <1>2, SerialInvariance, PTL DEF Spec, AtomicTable, Table!TableSpec

(* A step of the abstract table keeps an admin. *)
LEMMA TableKeepsAdmins ==
  ASSUME TablesOK, [Table!TableNext]_<<users, lastId>>, Admins # {}
  PROVE  Admins' # {}
<1>1. CASE UNCHANGED <<users, lastId>>
  BY <1>1 DEF Admins
<1>2. ASSUME NEW row \in Table!Row, Table!Add(row) PROVE Admins' # {}
  <2>1. PICK i : i \in Admins
    OBVIOUS
  <2>2. i \in DOMAIN users' /\ users'[i] = users[i]
    BY <1>2, <2>1 DEF Table!Add, Admins, TablesOK
  <2> QED
    BY <2>1, <2>2 DEF Admins
<1>3. ASSUME NEW id \in DOMAIN users, Table!Remove(id) PROVE Admins' # {}
  <2>1. PICK i \in Admins : i # id
    BY <1>3 DEF Table!Remove, Table!Admins, Admins
  <2> QED
    BY <1>3, <2>1 DEF Table!Remove, Admins
<1>4. ASSUME NEW id \in DOMAIN users, NEW role \in Table!Role, Table!Reassign(id, role)
      PROVE Admins' # {}
  <2>1. CASE role = "admin"
    <3>1. id \in DOMAIN users' /\ users'[id].role = "admin"
      BY <1>4, <2>1 DEF Table!Reassign, TablesOK, Row
    <3> QED
      BY <3>1 DEF Admins
  <2>2. CASE role # "admin"
    <3>1. PICK i \in Admins : i # id
      BY <1>4, <2>2 DEF Table!Reassign, Table!Admins, Admins
    <3>2. i \in DOMAIN users' /\ users'[i].role = "admin"
      BY <1>4, <3>1 DEF Table!Reassign, TablesOK, Row, Admins
    <3> QED
      BY <3>2 DEF Admins
  <2> QED
    BY <2>1, <2>2
<1>5. ASSUME NEW id \in DOMAIN users, NEW pw \in Passwords, Table!Rekey(id, pw)
      PROVE Admins' # {}
  <2>1. PICK i : i \in Admins
    OBVIOUS
  <2>2. i \in DOMAIN users' /\ users'[i].role = "admin"
    BY <1>5, <2>1 DEF Table!Rekey, TablesOK, Row, Admins
  <2> QED
    BY <2>2 DEF Admins
<1> QED
  BY <1>1, <1>2, <1>3, <1>4, <1>5 DEF Table!TableNext

(* Once there is an admin there always is one. *)
THEOREM LastAdminKept == ASSUME SerialRemovals PROVE Spec => AdminsKept
<1>1. SerialInv /\ [Next]_vars => [Admins # {} => Admins' # {}]_vars
  BY NextRefines, TableKeepsAdmins DEF SerialInv, Inv, TypeOK
<1> QED
  BY <1>1, SerialInvariance, PTL DEF Spec, AdminsKept

-------------------------------------------------------------------------------
(* Single sign-on beside the accounts, for any browsers, states, codes and callbacks at
   once. *)

(* Where the properties come from: a browser's cookie is a state made for it that
   nothing has ended, a callback in progress was let in by that cookie, and a code
   between its exchange and its session is used and belongs to one callback, and so
   does each session. *)
CookieOwn == \A b \in Browsers : cookie[b] \subseteq SSO!Of(b) \ disturbed
CallbackOwn == \A h \in Handlers : stage[h] # "idle" =>
                 starts[callback[h].state] = callback[h].browser
CodeOnce ==
  /\ \A h \in Handlers : stage[h] = "account" => codes[callback[h].code] = "used"
  /\ \A g, h \in Handlers :
       stage[g] = "account" /\ stage[h] = "account" /\ callback[g].code = callback[h].code => g = h
  /\ \A i \in DOMAIN signedOn :
       /\ codes[signedOn[i].code] = "used"
       /\ \A h \in Handlers : stage[h] = "account" => callback[h].code # signedOn[i].code

(* The first and the last part of RoundTrip. *)
SessionOwn == \A i \in DOMAIN signedOn : starts[signedOn[i].state] = signedOn[i].browser
SessionOnce == \A i, j \in DOMAIN signedOn : signedOn[i].code = signedOn[j].code => i = j

SignOnIInv ==
  SSO!TypeOK /\ CookieOwn /\ CallbackOwn /\ CodeOnce /\ SessionOwn /\ SessionOnce /\ SSO!StateKept

(* The codes of the sessions are the provider's. *)
LEMMA SignedCodes == SSO!TypeOK => \A i \in DOMAIN signedOn : signedOn[i].code \in CodeIds
<1> DEFINE S == [browser : Browsers, state : StateIds, code : CodeIds]
<1> SUFFICES ASSUME SSO!TypeOK, NEW i \in DOMAIN signedOn PROVE signedOn[i].code \in CodeIds
  OBVIOUS
<1>1. signedOn \in Seq(S)
  BY DEF SSO!TypeOK
<1>2. \A r \in S : r.code \in CodeIds
  OBVIOUS
<1> HIDE DEF S
<1>3. signedOn[i] \in S
  BY <1>1
<1> QED
  BY <1>2, <1>3

(* Nothing is handed out yet. *)
LEMMA SignOnInitInv == SSO!Init => SignOnIInv
BY DEF SSO!Init, SignOnIInv, SSO!TypeOK, CookieOwn, CallbackOwn, CodeOnce, SessionOwn, SessionOnce,
       SSO!StateKept, SSO!States, SSO!Of

(* handleOIDCStart: the new state is its browser's, and older ones of this browser
   cannot come back. *)
LEMMA StartInv == SignOnIInv /\ SSO!Start => SignOnIInv'
<1> SUFFICES ASSUME SignOnIInv, SSO!Start PROVE SignOnIInv'
  OBVIOUS
<1> USE DEF SignOnIInv, SSO!States, SSO!Of
<1> DEFINE n == SSO!NewState
<1>1. PICK b \in Browsers : /\ cookie' = [cookie EXCEPT ![b] = {n}]
                            /\ starts' = [s \in SSO!States \cup {n} |-> IF s = n THEN b ELSE starts[s]]
                            /\ disturbed' = disturbed \cup SSO!Of(b)
  BY DEF SSO!Start
<1>2. UNCHANGED <<codes, stage, callback, signedOn, back>>
  BY DEF SSO!Start
<1>3. /\ n \in StateIds /\ n \notin SSO!States /\ SSO!States' = SSO!States \cup {n}
      /\ starts'[n] = b /\ \A s \in SSO!States : starts'[s] = starts[s]
  <2>1. n \in StateIds \ DOMAIN starts
    BY DEF SSO!Start, SSO!TypeOK, SSO!NewState
  <2> HIDE DEF n
  <2> QED
    BY <1>1, <2>1
<1> HIDE DEF n
<1>4. starts' \in [SSO!States' -> Browsers]
  BY <1>1, <1>3 DEF SSO!TypeOK
<1>5. SSO!TypeOK'
  <2>1. cookie' \in [Browsers -> SUBSET SSO!States']
    BY <1>1, <1>3 DEF SSO!TypeOK
  <2> QED
    BY <1>1, <1>2, <1>3, <1>4, <2>1 DEF SSO!TypeOK
<1>6. CookieOwn'
  BY <1>1, <1>3 DEF CookieOwn, SSO!TypeOK
<1>7. CallbackOwn'
  BY <1>2, <1>3 DEF CallbackOwn, SSO!TypeOK
<1>8. CodeOnce'
  BY <1>2 DEF CodeOnce
<1>9. SessionOwn' /\ SessionOnce'
  BY <1>2, <1>3 DEF SessionOwn, SessionOnce, SSO!TypeOK
<1>10. SSO!StateKept'
  <2> SUFFICES ASSUME NEW s \in SSO!States', s \notin back', s \notin disturbed'
               PROVE  s \in cookie'[starts'[s]]
    BY DEF SSO!StateKept
  <2>1. CASE s = n
    BY <1>1, <1>3, <2>1 DEF SSO!TypeOK
  <2>2. CASE s # n
    BY <1>1, <1>2, <1>3, <2>2 DEF SSO!TypeOK, SSO!StateKept
  <2> QED
    BY <2>1, <2>2
<1> QED
  BY <1>5, <1>6, <1>7, <1>8, <1>9, <1>10

(* The cookie that runs out disturbs the one state it held. *)
LEMMA ExpireInv == SignOnIInv /\ SSO!Expire => SignOnIInv'
<1> SUFFICES ASSUME SignOnIInv, SSO!Expire PROVE SignOnIInv'
  OBVIOUS
<1> USE DEF SignOnIInv, SSO!States, SSO!Of
<1>1. PICK b \in Browsers : /\ cookie' = [cookie EXCEPT ![b] = {}]
                            /\ disturbed' = disturbed \cup cookie[b]
  BY DEF SSO!Expire
<1>2. UNCHANGED <<starts, codes, stage, callback, signedOn, back>>
  BY DEF SSO!Expire
<1>3. SSO!TypeOK'
  BY <1>1, <1>2 DEF SSO!TypeOK
<1>4. CookieOwn'
  BY <1>1, <1>2 DEF CookieOwn, SSO!TypeOK
<1>5. CallbackOwn' /\ CodeOnce' /\ SessionOwn' /\ SessionOnce'
  BY <1>2 DEF CallbackOwn, CodeOnce, SessionOwn, SessionOnce
<1>6. SSO!StateKept'
  BY <1>1, <1>2 DEF SSO!StateKept, SSO!TypeOK
<1> QED
  BY <1>3, <1>4, <1>5, <1>6

(* A new code changes nothing of what the panel knows. *)
LEMMA AuthorizeInv == SignOnIInv /\ SSO!Authorize => SignOnIInv'
<1> SUFFICES ASSUME SignOnIInv, SSO!Authorize PROVE SignOnIInv'
  OBVIOUS
<1> USE DEF SignOnIInv, SSO!States, SSO!Of
<1>1. PICK k \in CodeIds : codes[k] = "unissued" /\ codes' = [codes EXCEPT ![k] = "open"]
  BY DEF SSO!Authorize
<1>2. UNCHANGED <<cookie, starts, stage, callback, signedOn, back, disturbed>>
  BY DEF SSO!Authorize
<1>3. SSO!TypeOK'
  BY <1>1, <1>2 DEF SSO!TypeOK
<1>4. \A c \in CodeIds : codes[c] = "used" => codes'[c] = "used"
  BY <1>1 DEF SSO!TypeOK
<1>5. /\ \A h \in Handlers : stage[h] = "account" => callback[h].code \in CodeIds
      /\ \A i \in DOMAIN signedOn : signedOn[i].code \in CodeIds
  BY SignedCodes DEF SSO!TypeOK
<1>6. CodeOnce'
  BY <1>2, <1>4, <1>5 DEF CodeOnce
<1>7. CookieOwn' /\ CallbackOwn' /\ SessionOwn' /\ SessionOnce' /\ SSO!StateKept'
  BY <1>2 DEF CookieOwn, CallbackOwn, SessionOwn, SessionOnce, SSO!StateKept
<1> QED
  BY <1>3, <1>6, <1>7

(* handleOIDCCallback: the cookie that lets the browser in is its own. *)
LEMMA CallbackInv == ASSUME NEW h \in Handlers PROVE SignOnIInv /\ SSO!Callback(h) => SignOnIInv'
<1> SUFFICES ASSUME SignOnIInv, SSO!Callback(h) PROVE SignOnIInv'
  OBVIOUS
<1> USE DEF SignOnIInv, SSO!States, SSO!Of, SSO!Become
<1>1. PICK b \in Browsers, k \in CodeIds, s \in SSO!States :
        /\ s \in cookie[b]
        /\ stage' = [stage EXCEPT ![h] = "exchange"]
        /\ callback' = [callback EXCEPT ![h] = [browser |-> b, state |-> s, code |-> k]]
        /\ back' = back \cup {s}
  BY DEF SSO!Callback, SSO!TypeOK
<1>2. UNCHANGED <<cookie, starts, codes, signedOn, disturbed>>
  BY DEF SSO!Callback
<1>3. s \in SSO!States /\ starts[s] = b
  BY <1>1 DEF SSO!TypeOK, CookieOwn
<1>4. SSO!TypeOK'
  BY <1>1, <1>2, <1>3 DEF SSO!TypeOK
<1>5. CallbackOwn'
  BY <1>1, <1>2, <1>3 DEF CallbackOwn, SSO!TypeOK
<1>6. CodeOnce'
  BY <1>1, <1>2 DEF CodeOnce, SSO!TypeOK
<1>7. CookieOwn' /\ SessionOwn' /\ SessionOnce' /\ SSO!StateKept'
  BY <1>1, <1>2 DEF CookieOwn, SessionOwn, SessionOnce, SSO!StateKept
<1> QED
  BY <1>4, <1>5, <1>6, <1>7

(* Exchange: whoever gets past it is the first with its code. *)
LEMMA ExchangeInv == ASSUME NEW h \in Handlers PROVE SignOnIInv /\ SSO!Exchange(h) => SignOnIInv'
<1> SUFFICES ASSUME SignOnIInv, SSO!Exchange(h) PROVE SignOnIInv'
  OBVIOUS
<1> USE DEF SignOnIInv, SSO!States, SSO!Of
<1>1. UNCHANGED <<cookie, starts, callback, signedOn, back, disturbed>> /\ stage[h] = "exchange"
  BY DEF SSO!Exchange
<1>2. CASE UNCHANGED codes /\ stage' = [stage EXCEPT ![h] = "answer"]
  <2>1. SSO!TypeOK'
    BY <1>1, <1>2 DEF SSO!TypeOK
  <2>2. CallbackOwn' /\ CodeOnce'
    BY <1>1, <1>2 DEF CallbackOwn, CodeOnce, SSO!TypeOK
  <2>3. CookieOwn' /\ SessionOwn' /\ SessionOnce' /\ SSO!StateKept'
    BY <1>1, <1>2 DEF CookieOwn, SessionOwn, SessionOnce, SSO!StateKept
  <2> QED
    BY <2>1, <2>2, <2>3
<1>3. CASE /\ codes[callback[h].code] = "open"
           /\ codes' = [codes EXCEPT ![callback[h].code] = "used"]
           /\ stage' = [stage EXCEPT ![h] = "account"]
  <2>1. callback[h].code \in CodeIds
    BY <1>1 DEF SSO!TypeOK
  <2>2. /\ codes'[callback[h].code] = "used"
        /\ \A k \in CodeIds : codes[k] = "used" => codes'[k] = "used"
    BY <1>3, <2>1 DEF SSO!TypeOK
  <2>3. SSO!TypeOK'
    BY <1>1, <1>3 DEF SSO!TypeOK
  <2>4. \A i \in DOMAIN signedOn : signedOn[i].code \in CodeIds
    BY SignedCodes
  <2>5. \A g \in Handlers : stage[g] # "idle" => callback[g].code \in CodeIds
    BY DEF SSO!TypeOK
  <2>6. CodeOnce'
    BY <1>1, <1>3, <2>2, <2>4, <2>5 DEF CodeOnce, SSO!TypeOK
  <2>7. CallbackOwn'
    BY <1>1, <1>3 DEF CallbackOwn, SSO!TypeOK
  <2>8. CookieOwn' /\ SessionOwn' /\ SessionOnce' /\ SSO!StateKept'
    BY <1>1 DEF CookieOwn, SessionOwn, SessionOnce, SSO!StateKept
  <2> QED
    BY <2>3, <2>6, <2>7, <2>8
<1> QED
  BY <1>2, <1>3 DEF SSO!Exchange

(* The session is the callback's own, and the first of its code. *)
LEMMA AccountInv == ASSUME NEW h \in Handlers PROVE SignOnIInv /\ SSO!Account(h) => SignOnIInv'
<1> SUFFICES ASSUME SignOnIInv, SSO!Account(h) PROVE SignOnIInv'
  OBVIOUS
<1> USE DEF SignOnIInv, SSO!States, SSO!Of
<1>1. /\ stage[h] = "account" /\ stage' = [stage EXCEPT ![h] = "answer"]
      /\ UNCHANGED <<cookie, starts, codes, callback, back, disturbed>>
  BY DEF SSO!Account
<1>2. callback[h] \in [browser : Browsers, state : StateIds, code : CodeIds] /\ callback[h].state \in SSO!States
  BY <1>1 DEF SSO!TypeOK
<1>3. CookieOwn' /\ SSO!StateKept'
  BY <1>1 DEF CookieOwn, SSO!StateKept
<1>4. CallbackOwn'
  BY <1>1 DEF CallbackOwn, SSO!TypeOK
<1>5. CASE UNCHANGED signedOn
  <2>1. SSO!TypeOK'
    BY <1>1, <1>5 DEF SSO!TypeOK
  <2>2. CodeOnce' /\ SessionOwn' /\ SessionOnce'
    BY <1>1, <1>5 DEF CodeOnce, SessionOwn, SessionOnce, SSO!TypeOK
  <2> QED
    BY <1>3, <1>4, <2>1, <2>2
<1>6. CASE signedOn' = Append(signedOn, callback[h])
  <2>1. signedOn' \in Seq([browser : Browsers, state : StateIds, code : CodeIds])
    BY <1>1, <1>2, <1>6 DEF SSO!TypeOK
  <2>3. \A i \in DOMAIN signedOn' :
          \/ i \in DOMAIN signedOn /\ signedOn'[i] = signedOn[i]
          \/ i = Len(signedOn) + 1 /\ signedOn'[i] = callback[h]
    BY <1>2, <1>6 DEF SSO!TypeOK
  <2>2. SSO!TypeOK'
    BY <1>1, <1>2, <2>1, <2>3 DEF SSO!TypeOK
  <2>4. CodeOnce'
    BY <1>1, <2>3 DEF CodeOnce, SSO!TypeOK
  <2>5. SessionOwn' /\ SessionOnce'
    BY <1>1, <2>3 DEF SessionOwn, SessionOnce, CallbackOwn, CodeOnce
  <2> QED
    BY <1>3, <1>4, <2>2, <2>4, <2>5
<1> QED
  BY <1>5, <1>6 DEF SSO!Account

(* The answer takes the browser's cookie, and disturbs every state of this browser. *)
LEMMA AnswerInv == ASSUME NEW h \in Handlers PROVE SignOnIInv /\ SSO!Answer(h) => SignOnIInv'
<1> SUFFICES ASSUME SignOnIInv, SSO!Answer(h) PROVE SignOnIInv'
  OBVIOUS
<1> USE DEF SignOnIInv, SSO!States, SSO!Of, SSO!Become
<1> DEFINE b == callback[h].browser
<1>1. /\ stage[h] = "answer" /\ cookie' = [cookie EXCEPT ![b] = {}]
      /\ disturbed' = disturbed \cup SSO!Of(b)
      /\ stage' = [stage EXCEPT ![h] = "idle"] /\ callback' = [callback EXCEPT ![h] = SSO!NoRequest]
      /\ UNCHANGED <<starts, codes, signedOn, back>>
  BY DEF SSO!Answer
<1>2. b \in Browsers
  BY <1>1 DEF SSO!TypeOK
<1>3. SSO!TypeOK'
  BY <1>1, <1>2 DEF SSO!TypeOK
<1>4. CookieOwn'
  BY <1>1, <1>2 DEF CookieOwn, SSO!TypeOK
<1>5. CallbackOwn' /\ CodeOnce' /\ SessionOwn' /\ SessionOnce'
  BY <1>1 DEF CallbackOwn, CodeOnce, SessionOwn, SessionOnce, SSO!TypeOK
<1>6. SSO!StateKept'
  BY <1>1, <1>2 DEF SSO!StateKept, SSO!TypeOK
<1> QED
  BY <1>3, <1>4, <1>5, <1>6

(* A browser that leaves ends its callback and nothing else. *)
LEMMA LeaveInv == ASSUME NEW h \in Handlers PROVE SignOnIInv /\ SSO!Leave(h) => SignOnIInv'
<1> SUFFICES ASSUME SignOnIInv, SSO!Leave(h) PROVE SignOnIInv'
  OBVIOUS
<1> USE DEF SignOnIInv, SSO!States, SSO!Of, SSO!Become
<1>1. /\ stage' = [stage EXCEPT ![h] = "idle"] /\ callback' = [callback EXCEPT ![h] = SSO!NoRequest]
      /\ UNCHANGED <<cookie, starts, codes, signedOn, back, disturbed>>
  BY DEF SSO!Leave
<1>2. SSO!TypeOK'
  BY <1>1 DEF SSO!TypeOK
<1>3. CallbackOwn' /\ CodeOnce'
  BY <1>1 DEF CallbackOwn, CodeOnce, SSO!TypeOK
<1>4. CookieOwn' /\ SessionOwn' /\ SessionOnce' /\ SSO!StateKept'
  BY <1>1 DEF CookieOwn, SessionOwn, SessionOnce, SSO!StateKept
<1> QED
  BY <1>2, <1>3, <1>4

(* Every step keeps SignOnIInv: one lemma per action. *)
LEMMA SignOnNextInv == SignOnIInv /\ [SSO!Next]_SSO!signOnVars => SignOnIInv'
<1> SUFFICES ASSUME SignOnIInv, [SSO!Next]_SSO!signOnVars PROVE SignOnIInv'
  OBVIOUS
<1>1. CASE UNCHANGED SSO!signOnVars
  BY <1>1 DEF SSO!signOnVars, SignOnIInv, SSO!TypeOK, CookieOwn, CallbackOwn, CodeOnce, SessionOwn,
              SessionOnce, SSO!StateKept, SSO!States, SSO!Of
<1>2. ASSUME NEW h \in Handlers,
             SSO!Callback(h) \/ SSO!Exchange(h) \/ SSO!Account(h) \/ SSO!Answer(h) \/ SSO!Leave(h)
      PROVE  SignOnIInv'
  BY <1>2, CallbackInv, ExchangeInv, AccountInv, AnswerInv, LeaveInv
<1> QED
  BY <1>1, <1>2, StartInv, ExpireInv, AuthorizeInv DEF SSO!Next

(* There is no sign-on, or single sign-on's own invariant holds. *)
SignOnInv == NoSignOn \/ SignOnIInv

(* It holds at first. *)
LEMMA SideInitInv == SideInit => SignOnInv
  BY SignOnInitInv DEF SideInit, SignOnInv

(* No step of the accounts touches it, and none of single sign-on breaks it. *)
LEMMA SideNextInv ==
  ASSUME SignOnInv,
         \/ Next /\ stage = <<>> /\ UNCHANGED signOnVars
         \/ stage # <<>> /\ SSO!Next /\ UNCHANGED vars
         \/ UNCHANGED <<vars, signOnVars>>
  PROVE  SignOnInv'
<1>1. CASE stage # <<>> /\ SSO!Next
  <2>1. SignOnIInv
    BY <1>1 DEF SignOnInv, NoSignOn
  <2> QED
    BY <1>1, <2>1, SignOnNextInv DEF SignOnInv
<1>2. CASE UNCHANGED signOnVars
  <2>1. CASE NoSignOn
    BY <1>2, <2>1 DEF SignOnInv, NoSignOn, signOnVars
  <2>2. CASE SignOnIInv
    BY <1>2, <2>2, SignOnNextInv DEF SignOnInv, signOnVars, SSO!signOnVars
  <2> QED
    BY <2>1, <2>2 DEF SignOnInv
<1> QED
  BY <1>1, <1>2

(* What it says of who is signed in, and of who may come back. *)
LEMMA SignOnInvSays == SignOnInv => RoundTrip /\ StateKept
<1>1. CASE NoSignOn
  <2>1. signedOn = <<>> /\ starts = <<>> /\ cookie = <<>>
    BY <1>1 DEF NoSignOn
  <2>2. DOMAIN signedOn = {} /\ DOMAIN starts = {} /\ DOMAIN cookie = {}
    BY <2>1
  <2> QED
    BY <2>2 DEF RoundTrip, StateKept, SSO!RoundTrip, SSO!StateKept, SSO!States
<1>2. CASE SignOnIInv
  <2>1. DOMAIN cookie = Browsers
    BY <1>2 DEF SignOnIInv, SSO!TypeOK
  <2> QED
    BY <1>2, <2>1 DEF SignOnIInv, CookieOwn, SessionOwn, SessionOnce, SSO!RoundTrip, RoundTrip, StateKept
<1> QED
  BY <1>1, <1>2 DEF SignOnInv

(* handleOIDCStart and handleOIDCCallback: every session comes of a start in its own
   browser, no start that is over lets anybody in, and every code signs in once, however
   many browsers, tabs and callbacks there are. *)
THEOREM SignOnReturns == SideSpec => []RoundTrip
<1>1. SideSpec => []SignOnInv
  BY SideInitInv, SideNextInv, PTL DEF SideSpec
<1> QED
  BY <1>1, SignOnInvSays, PTL

(* A sign-on under way can still come back, whatever is tried with other addresses. *)
THEOREM SignOnKept == SideSpec => []StateKept
<1>1. SideSpec => []SignOnInv
  BY SideInitInv, SideNextInv, PTL DEF SideSpec
<1> QED
  BY <1>1, SignOnInvSays, PTL

(* What holds of the accounts alone holds of them beside sign-on, which changes nothing
   of theirs: every behaviour of the runs is one of PanelUsers. *)
THEOREM BesideSignOn == (AccountsSpec => Spec) /\ (SideSpec => Spec)
<1>1. AccountsInit \/ SideInit => Init
  BY DEF AccountsInit, SideInit
<1>2. [Next /\ UNCHANGED signOnVars]_<<vars, signOnVars>> => [Next]_vars
  OBVIOUS
<1>3. [\/ Next /\ stage = <<>> /\ UNCHANGED signOnVars
       \/ stage # <<>> /\ SSO!Next /\ UNCHANGED vars]_<<vars, signOnVars>> => [Next]_vars
  OBVIOUS
<1> QED
  BY <1>1, <1>2, <1>3, PTL DEF AccountsSpec, SideSpec, Spec
==============================================================================
