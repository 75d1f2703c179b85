------------------------------- MODULE HostProofs -------------------------------
(***************************************************************************)
(* What holds of each part of the host, for any number of requests and any *)
(* bounds: an inductive invariant for each component, and at the end what  *)
(* follows for Host, of which one component runs.                          *)
(***************************************************************************)
EXTENDS Host, LinesProofs, FiniteSetTheorems, SequenceTheorems, TLAPS

--------------------------------------------------------------------------------
(* Network profiles. *)

(* A handler without a request is of the declared type. *)
LEMMA NetworkNoRequest == Network!NoRequest \in Network!Requests /\ Network!NoRequest.kind = "none"
<1>1. Network!Automatic \in Network!Profiles
  BY DEF Network!Profiles, Network!Profile, Network!Automatic
<1> QED
  BY <1>1 DEF Network!NoRequest, Network!Requests

(* Every connection starts out automatic. *)
LEMMA NetworkInit == Network!Init => Network!TypeOK
<1> SUFFICES ASSUME Network!Init PROVE Network!TypeOK
  OBVIOUS
<1>1. Network!Automatic \in Network!Profiles
  BY DEF Network!Profiles, Network!Profile, Network!Automatic
<1>2. Network!NoRequest \in Network!Requests /\ Network!NoRequest.kind = "none"
  BY NetworkNoRequest
<1>3. stored \in [Connections -> Network!Profiles]
  BY <1>1 DEF Network!Init
<1> QED
  BY <1>1, <1>2, <1>3 DEF Network!Init, Network!TypeOK

(* con mod leaves a profile: SetDHCP's has neither address nor gateway, and
   SetStatic's has an address. *)
LEMMA ModifiedProfile ==
  ASSUME NEW p \in Network!Profiles, NEW r \in Network!Requests, r.kind # "none",
         r.kind = "static" => r.given.method = "manual"
  PROVE  Network!Modified(p, r) \in Network!Profiles
<1> USE DEF Network!Profiles, Network!Profile, Network!Automatic, Network!Requests
<1>1. CASE r.kind = "static"
  BY <1>1 DEF Network!Modified
<1>2. CASE r.kind = "dhcp"
  BY <1>2 DEF Network!Modified
<1>3. CASE r.kind = "dns"
  BY <1>3 DEF Network!Modified
<1> QED
  BY <1>1, <1>2, <1>3

(* What a request begins with is of the declared type. *)
LEMMA NetworkBegin ==
  ASSUME Network!TypeOK, NEW h \in Handlers, Network!BeginSetStatic(h) \/ Network!BeginSetDHCP(h) \/ Network!BeginSetDNS(h)
  PROVE  Network!TypeOK'
<1> USE DEF Network!TypeOK, Network!ConnectionName, Network!Become
<1>1. CASE Network!BeginSetStatic(h)
  <2> PICK a \in Addresses, g \in Gateways \cup {""}, d \in Servers \cup {""} :
         Network!ConnectionName(h, "static", Network!Profile("manual", a, g, d))
    BY <1>1 DEF Network!BeginSetStatic
  <2>1. /\ Network!Profile("manual", a, g, d) \in Network!Profiles
        /\ Network!Profile("manual", a, g, d).method = "manual"
    BY DEF Network!Profiles, Network!Profile
  <2> QED
    BY <2>1 DEF Network!Requests
<1>2. CASE Network!BeginSetDHCP(h)
  <2>1. Network!Automatic \in Network!Profiles
    BY DEF Network!Profiles, Network!Profile, Network!Automatic
  <2> QED
    BY <1>2, <2>1 DEF Network!BeginSetDHCP, Network!Requests
<1>3. CASE Network!BeginSetDNS(h)
  <2> PICK d \in Servers \cup {""} : Network!ConnectionName(h, "dns", [Network!Automatic EXCEPT !.dns = d])
    BY <1>3 DEF Network!BeginSetDNS
  <2>1. [Network!Automatic EXCEPT !.dns = d] \in Network!Profiles
    BY DEF Network!Profiles, Network!Profile, Network!Automatic
  <2> QED
    BY <2>1 DEF Network!Requests
<1> QED
  BY <1>1, <1>2, <1>3

(* Every step of a request, of NetworkManager and of the host keeps the types. *)
LEMMA NetworkType == Network!TypeOK /\ [Network!Next]_Network!networkVars => Network!TypeOK'
<1> SUFFICES ASSUME Network!TypeOK, [Network!Next]_Network!networkVars PROVE Network!TypeOK'
  OBVIOUS
<1>1. Network!NoRequest \in Network!Requests /\ Network!NoRequest.kind = "none"
  BY NetworkNoRequest
<1>2. ASSUME NEW h \in Handlers, Network!Modify(h) PROVE Network!TypeOK'
  <2>1. Network!Modified(stored[req[h].conn], req[h]) \in Network!Profiles
    BY <1>2, ModifiedProfile DEF Network!TypeOK, Network!Modify
  <2> QED
    BY <1>2, <2>1 DEF Network!TypeOK, Network!Modify, Network!Become
<1>3. ASSUME NEW h \in Handlers, Network!ModifyFails(h) PROVE Network!TypeOK'
  BY <1>1, <1>3 DEF Network!TypeOK, Network!ModifyFails, Network!Reply, Network!Become
<1>4. ASSUME NEW h \in Handlers, Network!Up(h) PROVE Network!TypeOK'
  BY <1>1, <1>4 DEF Network!TypeOK, Network!Up, Network!Activated, Network!Reply, Network!Become
<1>5. ASSUME NEW h \in Handlers, Network!UpFails(h) PROVE Network!TypeOK'
  <2>1. stored' \in [Connections -> Network!Profiles] /\ live' \in Network!Profiles
    BY <1>5 DEF Network!TypeOK, Network!UpFails
  <2>2. connection' \in Connections \cup {Network!NoConnection} /\ unapplied' \subseteq Connections
    BY <1>5 DEF Network!TypeOK, Network!UpFails
  <2> QED
    BY <1>1, <1>5, <2>1, <2>2 DEF Network!TypeOK, Network!UpFails, Network!Reply, Network!Become
<1>6. ASSUME NEW c \in Connections, Network!Activate(c) PROVE Network!TypeOK'
  BY <1>6 DEF Network!TypeOK, Network!Activate, Network!Activated
<1>7. CASE Network!Reboot
  BY <1>1, <1>7 DEF Network!TypeOK, Network!Reboot, Network!Activated
<1>8. CASE UNCHANGED Network!networkVars
  BY <1>8 DEF Network!TypeOK, Network!networkVars
<1> QED
  BY <1>2, <1>3, <1>4, <1>5, <1>6, <1>7, <1>8, NetworkBegin DEF Network!Next

(* Between two requests a connection's settings are stored and live, or an
   activation of it is under way or has failed. *)
LEMMA NetworkLive ==
  Network!TypeOK /\ Network!LiveIsStored /\ [Network!Next]_Network!networkVars
    => Network!LiveIsStored'
<1> SUFFICES ASSUME Network!TypeOK, Network!LiveIsStored, [Network!Next]_Network!networkVars,
                    NEW c \in Connections,
                    connection' = c, c \notin unapplied',
                    \A h \in Handlers : pc'[h] = "up" => req'[h].conn # c
             PROVE  live' = stored'[c]
  BY DEF Network!LiveIsStored
<1> USE ConnectionsAssumption DEF Network!TypeOK, Network!NoConnection
<1>1. ASSUME NEW h \in Handlers, Network!BeginSetStatic(h) \/ Network!BeginSetDHCP(h) \/ Network!BeginSetDNS(h)
      PROVE  live' = stored'[c]
  <2>1. /\ UNCHANGED <<stored, connection, live, unapplied>> /\ pc[h] = "idle"
        /\ \A k \in Handlers \ {h} : pc'[k] = pc[k] /\ req'[k] = req[k]
    BY <1>1 DEF Network!BeginSetStatic, Network!BeginSetDHCP, Network!BeginSetDNS, Network!ConnectionName, Network!Become
  <2> QED
    BY <2>1 DEF Network!LiveIsStored
<1>2. ASSUME NEW h \in Handlers, Network!Modify(h) PROVE live' = stored'[c]
  <2>1. req[h].conn # c
    BY <1>2 DEF Network!Modify, Network!Become
  <2>2. stored'[c] = stored[c] /\ pc[h] # "up"
    BY <1>2, <2>1 DEF Network!Modify
  <2>3. \A k \in Handlers \ {h} : pc'[k] = pc[k] /\ req'[k] = req[k]
    BY <1>2 DEF Network!Modify, Network!Become
  <2> QED
    BY <1>2, <2>2, <2>3 DEF Network!LiveIsStored, Network!Modify
<1>3. ASSUME NEW h \in Handlers, Network!ModifyFails(h) PROVE live' = stored'[c]
  <2>1. pc[h] # "up" /\ \A k \in Handlers \ {h} : pc'[k] = pc[k] /\ req'[k] = req[k]
    BY <1>3 DEF Network!ModifyFails, Network!Reply, Network!Become
  <2> QED
    BY <1>3, <2>1 DEF Network!LiveIsStored, Network!ModifyFails
<1>4. ASSUME NEW h \in Handlers, Network!Up(h) PROVE live' = stored'[c]
  BY <1>4 DEF Network!Up, Network!Activated
<1>5. ASSUME NEW h \in Handlers, Network!UpFails(h) PROVE live' = stored'[c]
  <2>1. req[h].conn # c /\ c \notin unapplied
    BY <1>5 DEF Network!UpFails
  <2>2. connection = c /\ live' = live
    BY <1>5, <2>1 DEF Network!UpFails
  <2>3. \A k \in Handlers \ {h} : pc'[k] = pc[k] /\ req'[k] = req[k]
    BY <1>5 DEF Network!UpFails, Network!Reply, Network!Become
  <2> QED
    BY <1>5, <2>1, <2>2, <2>3 DEF Network!LiveIsStored, Network!UpFails
<1>6. ASSUME NEW d \in Connections, Network!Activate(d) PROVE live' = stored'[c]
  BY <1>6 DEF Network!Activate, Network!Activated
<1>7. CASE Network!Reboot
  BY <1>7 DEF Network!Reboot, Network!Activated
<1>8. CASE UNCHANGED Network!networkVars
  BY <1>8 DEF Network!LiveIsStored, Network!networkVars
<1> QED
  BY <1>1, <1>2, <1>3, <1>4, <1>5, <1>6, <1>7, <1>8 DEF Network!Next


--------------------------------------------------------------------------------
(* The panel's certificate. *)

Between == {"cert", "openKey", "key"}

(* Pairs are generated only while none has been served, the certificate before
   the key, and what no cut start has left behind can be loaded. *)
PairInv ==
  /\ TLS!TypeOK
  /\ phase \in Between \cup {"openCert"} => served = TLS!None /\ made # TLS!None
  /\ phase = "openCert" => cert = TLS!None
  /\ phase \in {"openKey", "key"} => cert = made
  /\ phase = "load" => cert # TLS!None
  /\ ~cutShort /\ phase \notin Between => cert = TLS!None \/ (cert = key /\ cert # TLS!Cut)
  /\ TLS!PairKept

(* A new data directory. *)
LEMMA PairInit == TLS!Init => PairInv
<1> SUFFICES ASSUME TLS!Init PROVE PairInv
  OBVIOUS
<1>1. TLS!None \in TLS!None..TLS!Cut /\ TLS!None \in 0..MaxPairs
  BY BoundsAssumption DEF TLS!None, TLS!Cut
<1>2. TLS!TypeOK
  BY <1>1 DEF TLS!Init, TLS!TypeOK, TLS!None
<1> QED
  BY <1>2 DEF TLS!Init, PairInv, TLS!PairKept, Between

(* No step of EnsureTLSCertificate, no crash and no restart breaks it. *)
LEMMA PairNext == PairInv /\ [TLS!Next]_TLS!tlsVars => PairInv'
<1> SUFFICES ASSUME PairInv, [TLS!Next]_TLS!tlsVars PROVE PairInv'
  OBVIOUS
<1> USE BoundsAssumption DEF PairInv, TLS!TypeOK, TLS!PairKept, TLS!None, TLS!Cut, Between
<1>1. CASE TLS!Start
  BY <1>1 DEF TLS!Start
<1>2. CASE TLS!Stat
  BY <1>2 DEF TLS!Stat
<1>3. CASE TLS!OpenCert
  BY <1>3 DEF TLS!OpenCert
<1>4. CASE TLS!WriteCert
  BY <1>4 DEF TLS!WriteCert
<1>5. CASE TLS!OpenKey
  BY <1>5 DEF TLS!OpenKey
<1>6. CASE TLS!WriteKey
  <2>1. key' \in TLS!None..TLS!Cut
    BY <1>6 DEF TLS!WriteKey
  <2>2. cert = made /\ made # TLS!None /\ made # TLS!Cut /\ served = TLS!None
    BY <1>6 DEF TLS!WriteKey
  <2> QED
    BY <1>6, <2>1, <2>2 DEF TLS!WriteKey
<1>7. CASE TLS!Load
  BY <1>7 DEF TLS!Load
<1>8. CASE TLS!Stop
  BY <1>8 DEF TLS!Stop
<1>9. CASE TLS!Remove
  <2>1. cert' \in TLS!None..TLS!Cut /\ key' \in TLS!None..TLS!Cut /\ served' \in 0..MaxPairs
    BY <1>9 DEF TLS!Remove
  <2> QED
    BY <1>9, <2>1 DEF TLS!Remove
<1>10. CASE UNCHANGED TLS!tlsVars
  BY <1>10 DEF TLS!tlsVars
<1> QED
  BY <1>1, <1>2, <1>3, <1>4, <1>5, <1>6, <1>7, <1>8, <1>9, <1>10 DEF TLS!Next


--------------------------------------------------------------------------------
(* The accounts of the host. *)

(* What a request about an account is. *)
AccountRequests == [name : Names \cup {"none"}, password : Passwords \cup {Users!Locked}]

(* The types of LinuxUsers in full. *)
AccountTypes ==
  /\ account \in [Names -> {Users!NoAccount} \cup Users!Accounts]
  /\ password \in [Names -> Passwords \cup {Users!Locked}]
  /\ home \in [Names -> SUBSET AccountKeys]
  /\ last \in {Users!NoAccount} \cup Users!Accounts
  /\ pc \in [Handlers -> {"idle", "chpasswd"}] /\ req \in [Handlers -> AccountRequests]
  /\ chosen \in [Users!Accounts -> SUBSET (Passwords \cup {Users!Locked})]
  /\ authorized \in [Users!Accounts -> SUBSET AccountKeys]
  /\ inherited \in BOOLEAN /\ disturbed \in BOOLEAN

(* An account has one name, and is none that is still to be made. *)
OneName ==
  \A n \in Names :
    /\ account[n] <= last
    /\ \A m \in Names : account[n] # Users!NoAccount /\ account[n] = account[m] => n = m

(* What is left of an account that is not there: no password, and no key unless its
   home was kept. *)
LeftBehind ==
  \A n \in Names : account[n] = Users!NoAccount =>
    /\ password[n] = Users!Locked
    /\ ~inherited => home[n] = {}

(* A password that is being set was asked for for the account that has the name. *)
SetForThisAccount ==
  \A h \in Handlers : pc[h] = "chpasswd" =>
    /\ req[h].name \in Names
    /\ ~disturbed => /\ account[req[h].name] # Users!NoAccount
                     /\ req[h].password \in chosen[account[req[h].name]]

(* The inductive invariant of the accounts. *)
AccountsInv ==
  AccountTypes /\ OneName /\ LeftBehind /\ SetForThisAccount /\ Users!OpensAsAsked

(* A host without accounts. *)
LEMMA AccountsInit == Users!Init => AccountsInv
<1> SUFFICES ASSUME Users!Init PROVE AccountsInv
  OBVIOUS
<1> USE DEF Users!Init, Users!NoAccount, Users!Locked
<1>1. AccountTypes
  BY DEF AccountTypes, AccountRequests, Users!NoRequest
<1>2. OneName /\ LeftBehind /\ SetForThisAccount /\ Users!OpensAsAsked
  BY DEF OneName, LeftBehind, SetForThisAccount, Users!OpensAsAsked
<1> QED
  BY <1>1, <1>2 DEF AccountsInv

(* handleLinuxUserCreate's useradd makes an account that never was there. *)
LEMMA CreateKeepsAccounts ==
  ASSUME AccountsInv, NEW h \in Handlers, NEW n \in Names,
         NEW p \in Passwords \cup {Users!Locked}, Users!Create(h, n, p)
  PROVE  AccountsInv'
<1> USE DEF Users!Create, Users!GoesOn, Users!NoAccount, Users!Accounts
<1>1. /\ last' = last + 1 /\ last' \in 1..MaxAccounts /\ last \in Nat
      /\ account' = [account EXCEPT ![n] = last'] /\ chosen' = [chosen EXCEPT ![last'] = {p}]
      /\ UNCHANGED <<password, home, authorized, inherited, disturbed>>
      /\ pc[h] = "idle" /\ account[n] = 0
  BY BoundsAssumption DEF AccountsInv, AccountTypes
<1>2. /\ \A m \in Names : account'[m] = IF m = n THEN last' ELSE account[m]
      /\ \A a \in 1..MaxAccounts : chosen'[a] = IF a = last' THEN {p} ELSE chosen[a]
  BY <1>1 DEF AccountsInv, AccountTypes
<1>3. \A m \in Names : account[m] \in 0..last
  BY <1>1 DEF AccountsInv, AccountTypes, OneName
<1>4. AccountTypes'
  <2>1. pc' \in [Handlers -> {"idle", "chpasswd"}] /\ req' \in [Handlers -> AccountRequests]
    BY DEF AccountsInv, AccountTypes, AccountRequests
  <2> QED
    BY <1>1, <2>1 DEF AccountsInv, AccountTypes
<1>5. OneName'
  BY <1>1, <1>2, <1>3 DEF AccountsInv, OneName
<1>6. LeftBehind'
  BY <1>1, <1>2 DEF AccountsInv, LeftBehind
<1>7. Users!OpensAsAsked'
  <2> SUFFICES ASSUME NEW m \in Names, account'[m] # 0
               PROVE  /\ ~disturbed' => password'[m] \in chosen'[account'[m]] \cup {Users!Locked}
                      /\ ~inherited' => home'[m] \subseteq authorized'[account'[m]]
    BY DEF Users!OpensAsAsked
  <2>1. CASE m = n
    BY <1>1, <2>1 DEF AccountsInv, LeftBehind
  <2>2. CASE m # n
    BY <1>1, <1>2, <1>3, <2>2 DEF AccountsInv, AccountTypes, Users!OpensAsAsked
  <2> QED
    BY <2>1, <2>2
<1>8. SetForThisAccount'
  <2> SUFFICES ASSUME NEW k \in Handlers, pc'[k] = "chpasswd"
               PROVE  /\ req'[k].name \in Names
                      /\ ~disturbed' => /\ account'[req'[k].name] # 0
                                        /\ req'[k].password \in chosen'[account'[req'[k].name]]
    BY DEF SetForThisAccount
  <2>1. CASE k = h /\ p # Users!Locked
    <3>1. req'[h] = [name |-> n, password |-> p]
      BY <2>1 DEF AccountsInv, AccountTypes
    <3> QED
      BY <1>1, <1>2, <2>1, <3>1
  <2>2. CASE ~(k = h /\ p # Users!Locked)
    <3>1. pc'[k] = pc[k] /\ req'[k] = req[k] /\ pc[k] = "chpasswd"
      BY <1>1, <2>2 DEF AccountsInv, AccountTypes
    <3>2. req[k].name \in Names /\ (~disturbed => account[req[k].name] # 0)
      BY <3>1 DEF AccountsInv, SetForThisAccount
    <3>3. ~disturbed => req[k].name # n /\ account[req[k].name] \in 1..last
      BY <1>1, <1>3, <3>2
    <3> QED
      BY <1>1, <1>2, <3>1, <3>2, <3>3 DEF AccountsInv, SetForThisAccount
  <2> QED
    BY <2>1, <2>2
<1> QED
  BY <1>4, <1>5, <1>6, <1>7, <1>8 DEF AccountsInv

(* handleLinuxUserPassword only adds to what was asked for. *)
LEMMA BeginSetPasswordKeepsAccounts ==
  ASSUME AccountsInv, NEW h \in Handlers, NEW n \in Names,
         NEW p \in Passwords \cup {Users!Locked}, Users!BeginSetPassword(h, n, p)
  PROVE  AccountsInv'
<1> USE DEF Users!BeginSetPassword, Users!GoesOn, Users!NoAccount, Users!Accounts
<1>1. /\ account[n] # 0 /\ account[n] \in 1..MaxAccounts
      /\ chosen' = [chosen EXCEPT ![account[n]] = @ \cup {p}]
      /\ UNCHANGED <<account, password, home, last, authorized, inherited, disturbed>>
      /\ pc' = [pc EXCEPT ![h] = "chpasswd"]
      /\ req' = [req EXCEPT ![h] = [name |-> n, password |-> p]]
  BY DEF AccountsInv, AccountTypes
<1>2. \A a \in 1..MaxAccounts : chosen[a] \subseteq chosen'[a]
  BY <1>1 DEF AccountsInv, AccountTypes
<1>3. p \in chosen'[account[n]]
  BY <1>1 DEF AccountsInv, AccountTypes
<1>4. AccountTypes'
  <2>1. req' \in [Handlers -> AccountRequests]
    BY <1>1 DEF AccountsInv, AccountTypes, AccountRequests
  <2>2. chosen' \in [Users!Accounts -> SUBSET (Passwords \cup {Users!Locked})]
    BY <1>1 DEF AccountsInv, AccountTypes
  <2> QED
    BY <1>1, <2>1, <2>2 DEF AccountsInv, AccountTypes
<1>5. OneName' /\ LeftBehind'
  BY <1>1 DEF AccountsInv, OneName, LeftBehind
<1>6. Users!OpensAsAsked'
  BY <1>1, <1>2 DEF AccountsInv, AccountTypes, Users!OpensAsAsked
<1>7. SetForThisAccount'
  <2> SUFFICES ASSUME NEW k \in Handlers, pc'[k] = "chpasswd"
               PROVE  /\ req'[k].name \in Names
                      /\ ~disturbed' => /\ account'[req'[k].name] # 0
                                        /\ req'[k].password \in chosen'[account'[req'[k].name]]
    BY DEF SetForThisAccount
  <2>1. CASE k = h
    <3>1. req'[h] = [name |-> n, password |-> p]
      BY <1>1 DEF AccountsInv, AccountTypes
    <3> QED
      BY <1>1, <1>3, <2>1, <3>1
  <2>2. CASE k # h
    <3>1. pc'[k] = pc[k] /\ req'[k] = req[k]
      BY <1>1, <2>2 DEF AccountsInv, AccountTypes
    <3> QED
      BY <1>1, <1>2, <3>1 DEF AccountsInv, AccountTypes, SetForThisAccount
  <2> QED
    BY <2>1, <2>2
<1> QED
  BY <1>4, <1>5, <1>6, <1>7 DEF AccountsInv

(* A request that is over leaves the others as they were. *)
LEMMA AccountReply ==
  ASSUME AccountsInv, NEW h \in Handlers, Users!Reply(h)
  PROVE  /\ pc' \in [Handlers -> {"idle", "chpasswd"}] /\ req' \in [Handlers -> AccountRequests]
         /\ \A k \in Handlers : pc'[k] = "chpasswd" => pc'[k] = pc[k] /\ req'[k] = req[k]
  BY DEF AccountsInv, AccountTypes, AccountRequests, Users!Reply, Users!NoRequest

(* chpasswd, which the account that was meant may have gone under. *)
LEMMA SetPasswordKeepsAccounts ==
  ASSUME AccountsInv, NEW h \in Handlers, Users!SetPassword(h) \/ Users!SetPasswordFails(h)
  PROVE  AccountsInv'
<1> USE DEF Users!NoAccount, Users!Accounts
<1>1. /\ UNCHANGED <<account, home, last, chosen, authorized, inherited, disturbed>>
      /\ Users!Reply(h) /\ pc[h] = "chpasswd"
  BY DEF Users!SetPassword, Users!SetPasswordFails
<1>2. \/ password' = password
      \/ /\ account[req[h].name] # 0
         /\ password' = [password EXCEPT ![req[h].name] = req[h].password]
  BY DEF Users!SetPassword, Users!SetPasswordFails
<1>3. /\ req[h].name \in Names
      /\ ~disturbed => req[h].password \in chosen[account[req[h].name]]
      /\ req[h].password \in Passwords \cup {Users!Locked}
  BY <1>1 DEF AccountsInv, AccountTypes, AccountRequests, SetForThisAccount
<1>4. AccountTypes'
  BY <1>1, <1>2, <1>3, AccountReply DEF AccountsInv, AccountTypes
<1>5. OneName' /\ LeftBehind'
  BY <1>1, <1>2, <1>3 DEF AccountsInv, AccountTypes, OneName, LeftBehind
<1>6. SetForThisAccount'
  BY <1>1, AccountReply DEF AccountsInv, SetForThisAccount
<1>7. Users!OpensAsAsked'
  <2> SUFFICES ASSUME NEW n \in Names, account[n] # 0, ~disturbed
               PROVE  password'[n] \in chosen[account[n]] \cup {Users!Locked}
    BY <1>1 DEF AccountsInv, Users!OpensAsAsked
  <2>1. password[n] \in chosen[account[n]] \cup {Users!Locked}
    BY DEF AccountsInv, Users!OpensAsAsked
  <2> QED
    BY <1>2, <1>3, <2>1 DEF AccountsInv, AccountTypes
<1> QED
  BY <1>4, <1>5, <1>6, <1>7 DEF AccountsInv

(* userdel: what is left behind is no password, and keys only in a home that is kept. *)
LEMMA DeleteKeepsAccounts ==
  ASSUME AccountsInv, NEW n \in Names, NEW removeHome \in BOOLEAN, Users!Delete(n, removeHome)
  PROVE  AccountsInv'
<1> USE DEF Users!Delete, Users!NoAccount, Users!Accounts
<1>1. AccountTypes'
  BY DEF AccountsInv, AccountTypes
<1>2. \A m \in Names \ {n} : /\ account'[m] = account[m] /\ password'[m] = password[m]
                             /\ home'[m] = home[m]
  BY DEF AccountsInv, AccountTypes
<1>3. /\ account'[n] = 0 /\ password'[n] = Users!Locked
      /\ ~inherited' => home'[n] = {}
  BY DEF AccountsInv, AccountTypes
<1>4. OneName'
  BY <1>2, <1>3, BoundsAssumption DEF AccountsInv, AccountTypes, OneName
<1>5. LeftBehind'
  BY <1>2, <1>3 DEF AccountsInv, LeftBehind
<1>6. Users!OpensAsAsked'
  BY <1>2, <1>3 DEF AccountsInv, Users!OpensAsAsked
<1>7. SetForThisAccount'
  <2> SUFFICES ASSUME NEW k \in Handlers, pc[k] = "chpasswd"
               PROVE  /\ req[k].name \in Names
                      /\ ~disturbed' => /\ account'[req[k].name] # 0
                                        /\ req[k].password \in chosen[account'[req[k].name]]
    BY DEF SetForThisAccount
  <2>1. ~disturbed' => ~disturbed /\ req[k].name # n
    OBVIOUS
  <2> QED
    BY <1>2, <2>1 DEF AccountsInv, SetForThisAccount
<1> QED
  BY <1>1, <1>4, <1>5, <1>6, <1>7 DEF AccountsInv

(* AddKey and DeleteKey, on the account that has the name. *)
LEMMA KeysKeepAccounts ==
  ASSUME AccountsInv, NEW n \in Names, NEW k \in AccountKeys,
         Users!AddKey(n, k) \/ Users!DeleteKey(n, k)
  PROVE  AccountsInv'
<1> USE DEF Users!NoAccount, Users!Accounts
<1>1. /\ account[n] # 0 /\ account[n] \in 1..MaxAccounts
      /\ UNCHANGED <<account, password, last, pc, req, chosen, inherited, disturbed>>
      /\ home' \in [Names -> SUBSET AccountKeys] /\ \A m \in Names \ {n} : home'[m] = home[m]
      /\ authorized' \in [1..MaxAccounts -> SUBSET AccountKeys]
      /\ \A a \in 1..MaxAccounts : authorized[a] \subseteq authorized'[a]
      /\ \/ home'[n] \subseteq home[n]
         \/ home'[n] = home[n] \cup {k} /\ k \in authorized'[account[n]]
  <2>1. account[n] # 0 /\ account[n] \in 1..MaxAccounts
    BY DEF AccountsInv, AccountTypes, Users!AddKey, Users!DeleteKey
  <2>2. CASE Users!AddKey(n, k)
    <3>1. /\ home' = [home EXCEPT ![n] = @ \cup {k}]
          /\ authorized' = [authorized EXCEPT ![account[n]] = @ \cup {k}]
          /\ UNCHANGED <<account, password, last, pc, req, chosen, inherited, disturbed>>
      BY <2>2 DEF Users!AddKey
    <3>2. authorized' \in [1..MaxAccounts -> SUBSET AccountKeys]
      BY <2>1, <3>1 DEF AccountsInv, AccountTypes
    <3> QED
      BY <2>1, <3>1, <3>2 DEF AccountsInv, AccountTypes
  <2>3. CASE Users!DeleteKey(n, k)
    BY <2>1, <2>3 DEF AccountsInv, AccountTypes, Users!DeleteKey
  <2> QED
    BY <2>1, <2>2, <2>3
<1>2. AccountTypes' /\ OneName' /\ SetForThisAccount'
  BY <1>1 DEF AccountsInv, AccountTypes, OneName, SetForThisAccount
<1>3. LeftBehind'
  BY <1>1 DEF AccountsInv, LeftBehind
<1>4. Users!OpensAsAsked'
  BY <1>1 DEF AccountsInv, AccountTypes, Users!OpensAsAsked
<1> QED
  BY <1>2, <1>3, <1>4 DEF AccountsInv

(* No step of the accounts breaks their invariant. *)
LEMMA AccountsNext == AccountsInv /\ [Users!Next]_Users!userVars => AccountsInv'
<1>1. ASSUME AccountsInv, UNCHANGED Users!userVars PROVE AccountsInv'
  BY <1>1 DEF Users!userVars, AccountsInv, AccountTypes, OneName, LeftBehind,
              SetForThisAccount, Users!OpensAsAsked
<1> QED
  BY <1>1, CreateKeepsAccounts, BeginSetPasswordKeepsAccounts, SetPasswordKeepsAccounts,
     DeleteKeepsAccounts, KeysKeepAccounts DEF Users!Next

--------------------------------------------------------------------------------
(* Backups. *)

(* What a request about an archive remembers. *)
ArchiveRequests == [path : Archives!Path \cup {<<>>}, row : Nat]

(* The steps of handleBackupCreate and handleBackupDelete. *)
ArchiveSteps == {"idle", "open", "tar", "insert", "unlink", "drop"}

(* The types of Backups in full. *)
ArchiveTypes ==
  /\ second \in 0..MaxSecond /\ lastRow \in 0..MaxRows
  /\ DOMAIN disk \subseteq Archives!Path
  /\ \A p \in DOMAIN disk : disk[p] \in [by : Handlers, whole : BOOLEAN]
  /\ DOMAIN rows \subseteq 1..lastRow /\ \A i \in DOMAIN rows : rows[i] \in Archives!Path
  /\ pc \in [Handlers -> ArchiveSteps] /\ req \in [Handlers -> ArchiveRequests]
  /\ \A r \in Handlers : pc[r] # "idle" => req[r].path \in Archives!Path

(* While a request writes to a path, and nobody has removed it, the archive there is
   its own, is whole from the end of the writing on, and has no row yet. *)
Making ==
  \A r \in Handlers : pc[r] \in {"tar", "insert"} /\ req[r].path \notin erased =>
    /\ req[r].path \in DOMAIN disk /\ disk[req[r].path].by = r
    /\ pc[r] = "insert" <=> disk[req[r].path].whole
    /\ \A i \in DOMAIN rows : rows[i] # req[r].path

(* A deletion is about the row it read, whose id is never given to another, and drops
   it only when its archive has been removed. *)
Deleting ==
  \A r \in Handlers :
    /\ pc[r] \in {"unlink", "drop"} =>
         /\ req[r].row \in 1..lastRow
         /\ req[r].row \in DOMAIN rows => rows[req[r].row] = req[r].path
    /\ pc[r] = "drop" => req[r].path \in erased

(* The inductive invariant of the backups. *)
ArchivesInv ==
  ArchiveTypes /\ Making /\ Deleting /\ Archives!ListedIsWhole /\ Archives!OnDiskIsListed

(* An empty directory and an empty table. *)
LEMMA ArchivesInit == Archives!Init => ArchivesInv
<1> SUFFICES ASSUME Archives!Init PROVE ArchivesInv
  OBVIOUS
<1>1. DOMAIN disk = {} /\ DOMAIN rows = {}
  BY DEF Archives!Init
<1>2. ArchiveTypes
  BY <1>1, BoundsAssumption DEF Archives!Init, ArchiveTypes, ArchiveSteps, ArchiveRequests,
     Archives!NoRequest
<1>3. Making /\ Deleting
  BY DEF Archives!Init, Making, Deleting
<1>4. Archives!ListedIsWhole /\ Archives!OnDiskIsListed
  BY <1>1 DEF Archives!ListedIsWhole, Archives!OnDiskIsListed
<1> QED
  BY <1>2, <1>3, <1>4 DEF ArchivesInv

(* What the step of a request leaves alone: the other requests. *)
LEMMA ArchiveBecome ==
  ASSUME ArchiveTypes, NEW r \in Handlers, NEW step \in ArchiveSteps, NEW record \in ArchiveRequests,
         Archives!Become(r, step, record), step # "idle" => record.path \in Archives!Path
  PROVE  /\ pc' \in [Handlers -> ArchiveSteps] /\ req' \in [Handlers -> ArchiveRequests]
         /\ \A q \in Handlers : pc'[q] # "idle" => req'[q].path \in Archives!Path
         /\ pc'[r] = step /\ req'[r] = record
         /\ \A q \in Handlers \ {r} : pc'[q] = pc[q] /\ req'[q] = req[q]
  BY DEF ArchiveTypes, Archives!Become

(* The same of a request that is over. *)
LEMMA ArchiveReply ==
  ASSUME ArchiveTypes, NEW r \in Handlers, Archives!Reply(r)
  PROVE  /\ pc' \in [Handlers -> ArchiveSteps] /\ req' \in [Handlers -> ArchiveRequests]
         /\ \A q \in Handlers : pc'[q] # "idle" => req'[q].path \in Archives!Path
         /\ pc'[r] = "idle"
         /\ \A q \in Handlers \ {r} : pc'[q] = pc[q] /\ req'[q] = req[q]
<1>1. Archives!NoRequest \in ArchiveRequests /\ "idle" \in ArchiveSteps
  BY DEF Archives!NoRequest, ArchiveRequests, ArchiveSteps
<1> QED
  BY <1>1, ArchiveBecome DEF Archives!Reply

(* Only one request writes to a path that nobody has removed. *)
LEMMA OneMaker ==
  ASSUME Making, NEW r \in Handlers, NEW q \in Handlers, r # q,
         pc[r] \in {"tar", "insert"}, pc[q] \in {"tar", "insert"}, req[r].path = req[q].path
  PROVE  req[r].path \in erased
  BY DEF Making

(* A request begins with the time, or with a row of the page. *)
LEMMA BeginKeepsArchives ==
  ASSUME ArchivesInv, NEW r \in Handlers, Archives!BeginCreate(r) \/ Archives!BeginDelete(r)
  PROVE  ArchivesInv'
<1>1. /\ pc[r] = "idle" /\ UNCHANGED <<second, disk, rows, lastRow, orphans, erased>>
  BY DEF Archives!BeginCreate, Archives!BeginDelete, Archives!table
<1>2. PICK step \in {"open", "unlink"}, record \in ArchiveRequests :
        /\ Archives!Become(r, step, record) /\ record.path \in Archives!Path
        /\ step = "unlink" => record.row \in DOMAIN rows /\ rows[record.row] = record.path
  <2>1. CASE Archives!BeginCreate(r)
    <3> PICK n \in BackupNames : Archives!Become(r, "open", [path |-> <<n, second>>, row |-> 0])
      BY <2>1 DEF Archives!BeginCreate
    <3>1. <<n, second>> \in Archives!Path
      BY DEF ArchivesInv, ArchiveTypes, Archives!Path
    <3>2. [path |-> <<n, second>>, row |-> 0] \in ArchiveRequests
      BY <3>1 DEF ArchiveRequests
    <3> QED
      BY <3>1, <3>2
  <2>2. CASE Archives!BeginDelete(r)
    <3> PICK i \in DOMAIN rows : Archives!Become(r, "unlink", [path |-> rows[i], row |-> i])
      BY <2>2 DEF Archives!BeginDelete
    <3>1. rows[i] \in Archives!Path /\ i \in Nat
      BY DEF ArchivesInv, ArchiveTypes
    <3>2. [path |-> rows[i], row |-> i] \in ArchiveRequests
      BY <3>1 DEF ArchiveRequests
    <3> QED
      BY <3>1, <3>2
  <2> QED
    BY <2>1, <2>2
<1>3. /\ pc' \in [Handlers -> ArchiveSteps] /\ req' \in [Handlers -> ArchiveRequests]
      /\ \A q \in Handlers : pc'[q] # "idle" => req'[q].path \in Archives!Path
      /\ pc'[r] = step /\ req'[r] = record
      /\ \A q \in Handlers \ {r} : pc'[q] = pc[q] /\ req'[q] = req[q]
  <2>1. step \in ArchiveSteps
    BY DEF ArchiveSteps
  <2> QED
    BY <1>2, <2>1, ArchiveBecome DEF ArchivesInv
<1>4. ArchiveTypes'
  BY <1>1, <1>3 DEF ArchivesInv, ArchiveTypes
<1>5. Making'
  BY <1>1, <1>2, <1>3 DEF ArchivesInv, Making
<1>6. Deleting'
  <2>1. step = "unlink" => record.row \in 1..lastRow
    BY <1>2 DEF ArchivesInv, ArchiveTypes
  <2> QED
    BY <1>1, <1>2, <1>3, <2>1 DEF ArchivesInv, Deleting
<1>7. Archives!ListedIsWhole' /\ Archives!OnDiskIsListed'
  BY <1>1, <1>3 DEF ArchivesInv, Archives!ListedIsWhole, Archives!OnDiskIsListed
<1> QED
  BY <1>4, <1>5, <1>6, <1>7 DEF ArchivesInv

(* O_EXCL: what is opened is an archive that was not there, and that no row names
   unless it has been removed. *)
LEMMA OpenKeepsArchives ==
  ASSUME ArchivesInv, NEW r \in Handlers, Archives!Open(r)
  PROVE  ArchivesInv'
<1>1. /\ pc[r] = "open" /\ UNCHANGED <<second, rows, lastRow, orphans, erased>>
      /\ req[r].path \in Archives!Path
  BY DEF Archives!Open, Archives!table, ArchivesInv, ArchiveTypes
<1>2. CASE req[r].path \in DOMAIN disk
  <2>1. Archives!Reply(r) /\ disk' = disk
    BY <1>2 DEF Archives!Open
  <2>2. ArchiveTypes'
    BY <1>1, <2>1, ArchiveReply DEF ArchivesInv, ArchiveTypes
  <2>3. Making' /\ Deleting'
    BY <1>1, <2>1, ArchiveReply DEF ArchivesInv, Making, Deleting
  <2>4. Archives!ListedIsWhole' /\ Archives!OnDiskIsListed'
    BY <1>1, <2>1, ArchiveReply
       DEF ArchivesInv, Archives!ListedIsWhole, Archives!OnDiskIsListed
  <2> QED
    BY <2>2, <2>3, <2>4 DEF ArchivesInv
<1>3. CASE req[r].path \notin DOMAIN disk
  <2> DEFINE p == req[r].path
  <2>1. disk' = Archives!On(p, [by |-> r, whole |-> FALSE]) /\ Archives!Become(r, "tar", req[r])
    BY <1>3 DEF Archives!Open
  <2>2. /\ DOMAIN disk' = DOMAIN disk \cup {p}
        /\ disk'[p] = [by |-> r, whole |-> FALSE]
        /\ \A q \in DOMAIN disk : disk'[q] = disk[q]
    BY <1>3, <2>1 DEF Archives!On
  <2>3. /\ pc' \in [Handlers -> ArchiveSteps] /\ req' \in [Handlers -> ArchiveRequests]
        /\ \A q \in Handlers : pc'[q] # "idle" => req'[q].path \in Archives!Path
        /\ pc'[r] = "tar" /\ req'[r] = req[r]
        /\ \A q \in Handlers \ {r} : pc'[q] = pc[q] /\ req'[q] = req[q]
    <3>1. "tar" \in ArchiveSteps /\ req[r] \in ArchiveRequests
      BY DEF ArchiveSteps, ArchivesInv, ArchiveTypes
    <3> QED
      BY <1>1, <2>1, <3>1, ArchiveBecome DEF ArchivesInv
  <2>4. ArchiveTypes'
    <3>1. \A q \in DOMAIN disk' : disk'[q] \in [by : Handlers, whole : BOOLEAN]
      <4>1. [by |-> r, whole |-> FALSE] \in [by : Handlers, whole : BOOLEAN]
        OBVIOUS
      <4>2. \A q \in DOMAIN disk : disk[q] \in [by : Handlers, whole : BOOLEAN]
        BY DEF ArchivesInv, ArchiveTypes
      <4> HIDE DEF p
      <4> QED
        BY <2>2, <4>1, <4>2, Zenon
    <3>2. DOMAIN disk' \subseteq Archives!Path
      BY <1>1, <2>2 DEF ArchivesInv, ArchiveTypes
    <3> QED
      BY <1>1, <2>3, <3>1, <3>2 DEF ArchivesInv, ArchiveTypes
  <2>5. p \notin erased => \A i \in DOMAIN rows : rows[i] # p
    BY <1>3 DEF ArchivesInv, Archives!ListedIsWhole
  <2>6. Making'
    BY <1>1, <1>3, <2>2, <2>3, <2>5 DEF ArchivesInv, Making
  <2>7. Deleting'
    BY <1>1, <2>3 DEF ArchivesInv, Deleting
  <2>8. Archives!ListedIsWhole'
    BY <1>1, <2>2 DEF ArchivesInv, Archives!ListedIsWhole
  <2>9. Archives!OnDiskIsListed'
    BY <1>1, <2>2, <2>3 DEF ArchivesInv, Archives!OnDiskIsListed
  <2> QED
    BY <2>4, <2>6, <2>7, <2>8, <2>9 DEF ArchivesInv
<1> QED
  BY <1>2, <1>3

(* The archive is closed, or its path is cleared, which is nobody else's. *)
LEMMA TarKeepsArchives ==
  ASSUME ArchivesInv, NEW r \in Handlers, Archives!Tar(r) \/ Archives!TarFails(r)
  PROVE  ArchivesInv'
<1> DEFINE p == req[r].path
<1>1. /\ pc[r] = "tar" /\ UNCHANGED <<second, rows, lastRow, orphans, erased>>
      /\ p \in Archives!Path
  BY DEF Archives!Tar, Archives!TarFails, Archives!table, ArchivesInv, ArchiveTypes
<1>2. p \notin erased => p \in DOMAIN disk /\ disk[p].by = r /\ \A i \in DOMAIN rows : rows[i] # p
  BY <1>1 DEF ArchivesInv, Making
<1>3. \A q \in Handlers \ {r} :
        pc[q] \in {"tar", "insert"} /\ req[q].path = p => p \in erased
  BY <1>1, OneMaker DEF ArchivesInv
<1>4. CASE Archives!Tar(r)
  <2>1. disk' = IF p \in DOMAIN disk /\ disk[p].by = r
                THEN [disk EXCEPT ![p].whole = TRUE] ELSE disk
    BY <1>4 DEF Archives!Tar
  <2>2. /\ DOMAIN disk' = DOMAIN disk
        /\ \A q \in DOMAIN disk \ {p} : disk'[q] = disk[q]
        /\ p \notin erased => disk'[p].by = r /\ disk'[p].whole
        /\ \A q \in DOMAIN disk : /\ disk'[q] \in [by : Handlers, whole : BOOLEAN]
                                  /\ disk[q].whole => disk'[q].whole
    BY <1>2, <2>1 DEF ArchivesInv, ArchiveTypes
  <2>3. /\ pc' \in [Handlers -> ArchiveSteps] /\ req' \in [Handlers -> ArchiveRequests]
        /\ \A q \in Handlers : pc'[q] # "idle" => req'[q].path \in Archives!Path
        /\ pc'[r] = "insert" /\ req'[r] = req[r]
        /\ \A q \in Handlers \ {r} : pc'[q] = pc[q] /\ req'[q] = req[q]
    <3>1. "insert" \in ArchiveSteps /\ req[r] \in ArchiveRequests
      BY DEF ArchiveSteps, ArchivesInv, ArchiveTypes
    <3>2. Archives!Become(r, "insert", req[r])
      BY <1>4 DEF Archives!Tar
    <3> QED
      BY <1>1, <3>1, <3>2, ArchiveBecome DEF ArchivesInv
  <2>4. ArchiveTypes'
    BY <1>1, <2>2, <2>3 DEF ArchivesInv, ArchiveTypes
  <2>5. Making'
    <3> SUFFICES ASSUME NEW q \in Handlers, pc'[q] \in {"tar", "insert"}, req'[q].path \notin erased
                 PROVE  /\ req'[q].path \in DOMAIN disk' /\ disk'[req'[q].path].by = q
                        /\ pc'[q] = "insert" <=> disk'[req'[q].path].whole
                        /\ \A i \in DOMAIN rows : rows[i] # req'[q].path
      BY <1>1 DEF Making
    <3>1. CASE q = r
      BY <1>2, <2>2, <2>3, <3>1
    <3>2. CASE q # r
      <4>1. pc'[q] = pc[q] /\ req'[q] = req[q] /\ req[q].path # p
        BY <1>3, <2>3, <3>2
      <4>2. req[q].path \in DOMAIN disk
        BY <4>1 DEF ArchivesInv, Making
      <4> QED
        BY <2>2, <4>1, <4>2 DEF ArchivesInv, Making
    <3> QED
      BY <3>1, <3>2
  <2>6. Deleting'
    BY <1>1, <2>3 DEF ArchivesInv, Deleting
  <2>7. Archives!ListedIsWhole' /\ Archives!OnDiskIsListed'
    BY <1>1, <2>2, <2>3 DEF ArchivesInv, Archives!ListedIsWhole, Archives!OnDiskIsListed
  <2> QED
    BY <2>4, <2>5, <2>6, <2>7 DEF ArchivesInv
<1>5. CASE Archives!TarFails(r)
  <2>1. DOMAIN disk' = DOMAIN disk \ {p} /\ \A q \in DOMAIN disk \ {p} : disk'[q] = disk[q]
    BY <1>5 DEF Archives!TarFails, Archives!Without, Archives!Restrict
  <2>2. Archives!Reply(r)
    BY <1>5 DEF Archives!TarFails
  <2>3. /\ pc' \in [Handlers -> ArchiveSteps] /\ req' \in [Handlers -> ArchiveRequests]
        /\ \A q \in Handlers : pc'[q] # "idle" => req'[q].path \in Archives!Path
        /\ pc'[r] = "idle"
        /\ \A q \in Handlers \ {r} : pc'[q] = pc[q] /\ req'[q] = req[q]
    BY <2>2, ArchiveReply DEF ArchivesInv
  <2>4. ArchiveTypes'
    BY <1>1, <2>1, <2>3 DEF ArchivesInv, ArchiveTypes
  <2>5. Making'
    BY <1>1, <1>3, <2>1, <2>3 DEF ArchivesInv, Making
  <2>6. Deleting'
    BY <1>1, <2>3 DEF ArchivesInv, Deleting
  <2>7. Archives!ListedIsWhole'
    BY <1>1, <1>2, <2>1 DEF ArchivesInv, Archives!ListedIsWhole
  <2>8. Archives!OnDiskIsListed'
    BY <1>1, <2>1, <2>3 DEF ArchivesInv, Archives!OnDiskIsListed
  <2> QED
    BY <2>4, <2>5, <2>6, <2>7, <2>8 DEF ArchivesInv
<1> QED
  BY <1>4, <1>5

(* The row of an archive that is whole, under an id that was never used; or none. *)
LEMMA InsertKeepsArchives ==
  ASSUME ArchivesInv, NEW r \in Handlers, Archives!Insert(r) \/ Archives!InsertFails(r)
  PROVE  ArchivesInv'
<1> DEFINE p == req[r].path
<1>1. /\ pc[r] = "insert" /\ UNCHANGED <<second, disk, erased>>
      /\ p \in Archives!Path /\ Archives!Reply(r)
  BY DEF Archives!Insert, Archives!InsertFails, Archives!table, ArchivesInv, ArchiveTypes
<1>2. p \notin erased => p \in DOMAIN disk /\ disk[p].whole
  BY <1>1 DEF ArchivesInv, Making
<1>3. \A q \in Handlers \ {r} :
        pc[q] \in {"tar", "insert"} /\ req[q].path = p => p \in erased
  BY <1>1, OneMaker DEF ArchivesInv
<1>4. /\ pc' \in [Handlers -> ArchiveSteps] /\ req' \in [Handlers -> ArchiveRequests]
      /\ \A q \in Handlers : pc'[q] # "idle" => req'[q].path \in Archives!Path
      /\ pc'[r] = "idle"
      /\ \A q \in Handlers \ {r} : pc'[q] = pc[q] /\ req'[q] = req[q]
  BY <1>1, ArchiveReply DEF ArchivesInv
<1>5. CASE Archives!Insert(r)
  <2>1. /\ lastRow' = lastRow + 1 /\ lastRow < MaxRows /\ orphans' = orphans
        /\ rows' = [i \in DOMAIN rows \cup {lastRow'} |-> IF i = lastRow' THEN p ELSE rows[i]]
    BY <1>5 DEF Archives!Insert
  <2>2. /\ lastRow \in Nat /\ lastRow' \in 0..MaxRows /\ lastRow' \notin DOMAIN rows
        /\ DOMAIN rows \subseteq 1..lastRow
    BY <2>1, BoundsAssumption DEF ArchivesInv, ArchiveTypes
  <2>3. /\ DOMAIN rows' = DOMAIN rows \cup {lastRow'} /\ rows'[lastRow'] = p
        /\ \A i \in DOMAIN rows : rows'[i] = rows[i]
    BY <2>1, <2>2
  <2>4. ArchiveTypes'
    <3>1. DOMAIN rows' \subseteq 1..lastRow'
      BY <2>1, <2>2, <2>3
    <3> QED
      BY <1>1, <1>4, <2>2, <2>3, <3>1 DEF ArchivesInv, ArchiveTypes
  <2>5. Making'
    BY <1>1, <1>3, <1>4, <2>3 DEF ArchivesInv, Making
  <2>6. Deleting'
    <3> SUFFICES ASSUME NEW q \in Handlers
                 PROVE  /\ pc'[q] \in {"unlink", "drop"} =>
                             /\ req'[q].row \in 1..lastRow'
                             /\ req'[q].row \in DOMAIN rows' => rows'[req'[q].row] = req'[q].path
                        /\ pc'[q] = "drop" => req'[q].path \in erased'
      BY DEF Deleting
    <3>1. CASE q = r
      BY <1>4, <3>1
    <3>2. CASE q # r
      <4>1. pc'[q] = pc[q] /\ req'[q] = req[q]
        BY <1>4, <3>2
      <4>2. pc[q] \in {"unlink", "drop"} =>
              req[q].row \in 1..lastRow /\ (req[q].row \in DOMAIN rows => rows[req[q].row] = req[q].path)
        BY DEF ArchivesInv, Deleting
      <4>3. pc[q] \in {"unlink", "drop"} => req[q].row \in 1..lastRow' /\ req[q].row # lastRow'
        BY <2>1, <2>2, <4>2
      <4> QED
        BY <1>1, <2>3, <4>1, <4>2, <4>3 DEF ArchivesInv, Deleting
    <3> QED
      BY <3>1, <3>2
  <2>7. Archives!ListedIsWhole'
    BY <1>1, <1>2, <2>3 DEF ArchivesInv, Archives!ListedIsWhole
  <2>8. Archives!OnDiskIsListed'
    <3> SUFFICES ASSUME NEW f \in DOMAIN disk \ (orphans \cup erased)
                 PROVE  \/ \E i \in DOMAIN rows' : rows'[i] = f
                        \/ \E q \in Handlers : pc'[q] \in {"tar", "insert"} /\ req'[q].path = f
      BY <1>1, <2>1 DEF Archives!OnDiskIsListed
    <3>1. CASE f = p
      BY <2>3, <3>1
    <3>2. CASE f # p
      BY <1>4, <2>3, <3>2 DEF ArchivesInv, Archives!OnDiskIsListed
    <3> QED
      BY <3>1, <3>2
  <2> QED
    BY <2>4, <2>5, <2>6, <2>7, <2>8 DEF ArchivesInv
<1>6. CASE Archives!InsertFails(r)
  <2>1. orphans' = orphans \cup {p} /\ UNCHANGED <<rows, lastRow>>
    BY <1>6 DEF Archives!InsertFails, Archives!table
  <2>2. ArchiveTypes'
    BY <1>1, <1>4, <2>1 DEF ArchivesInv, ArchiveTypes
  <2>3. Making' /\ Deleting'
    BY <1>1, <1>4, <2>1 DEF ArchivesInv, Making, Deleting
  <2>4. Archives!ListedIsWhole'
    BY <1>1, <2>1 DEF ArchivesInv, Archives!ListedIsWhole
  <2>5. Archives!OnDiskIsListed'
    BY <1>1, <1>4, <2>1 DEF ArchivesInv, Archives!OnDiskIsListed
  <2> QED
    BY <2>2, <2>3, <2>4, <2>5 DEF ArchivesInv
<1> QED
  BY <1>5, <1>6

(* An archive is removed, after which its path counts as erased. *)
LEMMA UnlinkKeepsArchives ==
  ASSUME ArchivesInv, NEW r \in Handlers, Archives!Unlink(r)
  PROVE  ArchivesInv'
<1> DEFINE p == req[r].path
<1>1. /\ pc[r] = "unlink" /\ UNCHANGED <<second, rows, lastRow, orphans>>
      /\ p \in Archives!Path
  BY DEF Archives!Unlink, Archives!table, ArchivesInv, ArchiveTypes
<1>2. CASE Archives!Reply(r) /\ UNCHANGED <<disk, erased>>
  <2>1. ArchiveTypes'
    BY <1>1, <1>2, ArchiveReply DEF ArchivesInv, ArchiveTypes
  <2>2. Making' /\ Deleting'
    BY <1>1, <1>2, ArchiveReply DEF ArchivesInv, Making, Deleting
  <2>3. Archives!ListedIsWhole' /\ Archives!OnDiskIsListed'
    BY <1>1, <1>2, ArchiveReply DEF ArchivesInv, Archives!ListedIsWhole, Archives!OnDiskIsListed
  <2> QED
    BY <2>1, <2>2, <2>3 DEF ArchivesInv
<1>3. CASE /\ disk' = Archives!Without(p) /\ erased' = erased \cup {p}
           /\ Archives!Become(r, "drop", req[r])
  <2>1. DOMAIN disk' = DOMAIN disk \ {p} /\ \A q \in DOMAIN disk \ {p} : disk'[q] = disk[q]
    BY <1>3 DEF Archives!Without, Archives!Restrict
  <2>2. /\ pc' \in [Handlers -> ArchiveSteps] /\ req' \in [Handlers -> ArchiveRequests]
        /\ \A q \in Handlers : pc'[q] # "idle" => req'[q].path \in Archives!Path
        /\ pc'[r] = "drop" /\ req'[r] = req[r]
        /\ \A q \in Handlers \ {r} : pc'[q] = pc[q] /\ req'[q] = req[q]
    <3>1. "drop" \in ArchiveSteps /\ req[r] \in ArchiveRequests
      BY DEF ArchiveSteps, ArchivesInv, ArchiveTypes
    <3> QED
      BY <1>1, <1>3, <3>1, ArchiveBecome DEF ArchivesInv
  <2>3. ArchiveTypes'
    BY <1>1, <2>1, <2>2 DEF ArchivesInv, ArchiveTypes
  <2>4. Making'
    BY <1>1, <1>3, <2>1, <2>2 DEF ArchivesInv, Making
  <2>5. Deleting'
    BY <1>1, <1>3, <2>2 DEF ArchivesInv, Deleting
  <2>6. Archives!ListedIsWhole'
    BY <1>1, <1>3, <2>1 DEF ArchivesInv, Archives!ListedIsWhole
  <2>7. Archives!OnDiskIsListed'
    BY <1>1, <1>3, <2>1, <2>2 DEF ArchivesInv, Archives!OnDiskIsListed
  <2> QED
    BY <2>3, <2>4, <2>5, <2>6, <2>7 DEF ArchivesInv
<1> QED
  BY <1>2, <1>3 DEF Archives!Unlink

(* The row goes, of an archive that has been removed. *)
LEMMA DropKeepsArchives ==
  ASSUME ArchivesInv, NEW r \in Handlers, Archives!Drop(r)
  PROVE  ArchivesInv'
<1> DEFINE p == req[r].path
<1>1. /\ pc[r] = "drop" /\ UNCHANGED <<second, disk, lastRow, orphans, erased>>
      /\ p \in erased /\ Archives!Reply(r)
  BY DEF Archives!Drop, ArchivesInv, Deleting
<1>2. /\ DOMAIN rows' \subseteq DOMAIN rows
      /\ \A i \in DOMAIN rows' : rows'[i] = rows[i]
      /\ \A i \in DOMAIN rows \ DOMAIN rows' : rows[i] = p
  BY <1>1 DEF Archives!Drop, Archives!Restrict, ArchivesInv, Deleting
<1>3. ArchiveTypes'
  BY <1>1, <1>2, ArchiveReply DEF ArchivesInv, ArchiveTypes
<1>4. Making'
  BY <1>1, <1>2, ArchiveReply DEF ArchivesInv, Making
<1>5. Deleting'
  BY <1>1, <1>2, ArchiveReply DEF ArchivesInv, Deleting
<1>6. Archives!ListedIsWhole'
  BY <1>1, <1>2 DEF ArchivesInv, Archives!ListedIsWhole
<1>7. Archives!OnDiskIsListed'
  <2> SUFFICES ASSUME NEW f \in DOMAIN disk \ (orphans \cup erased)
               PROVE  \/ \E i \in DOMAIN rows' : rows'[i] = f
                      \/ \E q \in Handlers : pc'[q] \in {"tar", "insert"} /\ req'[q].path = f
    BY <1>1 DEF Archives!OnDiskIsListed
  <2>1. CASE \E i \in DOMAIN rows : rows[i] = f
    BY <1>1, <1>2, <2>1
  <2>2. CASE \E q \in Handlers : pc[q] \in {"tar", "insert"} /\ req[q].path = f
    BY <1>1, <2>2, ArchiveReply DEF ArchivesInv
  <2> QED
    BY <2>1, <2>2 DEF ArchivesInv, Archives!OnDiskIsListed
<1> QED
  BY <1>3, <1>4, <1>5, <1>6, <1>7 DEF ArchivesInv

(* A crash leaves archives behind, and counts them. *)
LEMMA CrashKeepsArchives == ArchivesInv /\ Archives!Crash => ArchivesInv'
<1> SUFFICES ASSUME ArchivesInv, Archives!Crash PROVE ArchivesInv'
  OBVIOUS
<1>1. /\ orphans' = orphans \cup {req[r].path : r \in {r \in Handlers : pc[r] \in {"tar", "insert"}}}
      /\ pc' = [r \in Handlers |-> "idle"] /\ req' = [r \in Handlers |-> Archives!NoRequest]
      /\ UNCHANGED <<second, disk, rows, lastRow, erased>>
  BY DEF Archives!Crash, Archives!table
<1>2. ArchiveTypes'
  BY <1>1 DEF ArchivesInv, ArchiveTypes, ArchiveSteps, ArchiveRequests, Archives!NoRequest
<1>3. Making' /\ Deleting'
  BY <1>1 DEF Making, Deleting
<1>4. Archives!ListedIsWhole'
  BY <1>1 DEF ArchivesInv, Archives!ListedIsWhole
<1>5. Archives!OnDiskIsListed'
  <2> SUFFICES ASSUME NEW f \in DOMAIN disk \ (orphans' \cup erased)
               PROVE  \E i \in DOMAIN rows : rows[i] = f
    BY <1>1 DEF Archives!OnDiskIsListed
  <2>1. f \notin orphans
    BY <1>1
  <2>2. ~ \E q \in Handlers : pc[q] \in {"tar", "insert"} /\ req[q].path = f
    BY <1>1
  <2> QED
    BY <2>1, <2>2 DEF ArchivesInv, Archives!OnDiskIsListed
<1> QED
  BY <1>2, <1>3, <1>4, <1>5 DEF ArchivesInv

(* No step of the backups breaks their invariant. *)
LEMMA ArchivesNext == ArchivesInv /\ [Archives!Next]_Archives!backupVars => ArchivesInv'
<1>1. ASSUME ArchivesInv, Archives!Tick \/ UNCHANGED Archives!backupVars PROVE ArchivesInv'
  <2>1. UNCHANGED <<disk, rows, lastRow, pc, req, orphans, erased>> /\ second' \in 0..MaxSecond
    BY <1>1, BoundsAssumption
       DEF Archives!Tick, Archives!backupVars, Archives!table, ArchivesInv, ArchiveTypes
  <2>2. ArchiveTypes'
    BY <1>1, <2>1 DEF ArchivesInv, ArchiveTypes
  <2>3. Making' /\ Deleting' /\ Archives!ListedIsWhole' /\ Archives!OnDiskIsListed'
    BY <1>1, <2>1 DEF ArchivesInv, Making, Deleting, Archives!ListedIsWhole, Archives!OnDiskIsListed
  <2> QED
    BY <2>2, <2>3 DEF ArchivesInv
<1> QED
  BY <1>1, BeginKeepsArchives, OpenKeepsArchives, TarKeepsArchives, InsertKeepsArchives,
     UnlinkKeepsArchives, DropKeepsArchives, CrashKeepsArchives DEF Archives!Next

--------------------------------------------------------------------------------
(* Firewall. *)

(* The rules, each kind of them once. *)
OneOfAKind(list) == \A m, n \in DOMAIN list : Rules!SameKind(list[m], list[n]) => m = n

(* A page that no change has made old has the rules at their numbers. *)
FreshPages ==
  \A b \in Handlers : b \notin old =>
    \A n \in DOMAIN page[b] : n \in DOMAIN rules /\ page[b][n] = rules[n]

RulesInv ==
  /\ Rules!TypeOK
  /\ DOMAIN page = Handlers /\ \A b \in Handlers : DOMAIN page[b] \subseteq Nat \ {0}
  /\ OneOfAKind(rules) /\ FreshPages
  /\ ~disturbed => Rules!Range(rules) = wanted

(* One item less: those before it stay, those behind it move up. *)
LEMMA Removed ==
  ASSUME NEW S, NEW s \in Seq(S), NEW i \in DOMAIN s
  PROVE  /\ Rules!RemoveAt(s, i) \in Seq(S)
         /\ Len(Rules!RemoveAt(s, i)) = Len(s) - 1
         /\ \A k \in 1..Len(s)-1 : Rules!RemoveAt(s, i)[k] = IF k < i THEN s[k] ELSE s[k+1]
<1> DEFINE a == SubSeq(s, 1, i-1)
           b == SubSeq(s, i+1, Len(s))
<1>1. i \in 1..Len(s) /\ Len(s) \in Nat
  BY LenProperties
<1>2. /\ a \in Seq(S) /\ Len(a) = i - 1
      /\ \A k \in 1..i-1 : a[k] = s[k]
  <2>1. \A k \in 1..i-1 : s[k] \in S
    BY <1>1, ElementOfSeq
  <2>2. /\ a \in Seq(S) /\ Len(a) = IF 1 <= i-1 THEN i-1-1+1 ELSE 0
        /\ \A k \in 1..i-1-1+1 : a[k] = s[1+k-1]
    BY <1>1, <2>1, SubSeqProperties
  <2> QED
    BY <1>1, <2>2
<1>3. /\ b \in Seq(S) /\ Len(b) = Len(s) - i
      /\ \A k \in 1..Len(s)-i : b[k] = s[i+k]
  <2>1. \A k \in i+1..Len(s) : s[k] \in S
    BY <1>1, ElementOfSeq
  <2>2. /\ b \in Seq(S) /\ Len(b) = IF i+1 <= Len(s) THEN Len(s)-(i+1)+1 ELSE 0
        /\ \A k \in 1..Len(s)-(i+1)+1 : b[k] = s[i+1+k-1]
    BY <1>1, <2>1, SubSeqProperties
  <2> QED
    BY <1>1, <2>2
<1>4. Rules!RemoveAt(s, i) = a \o b
  BY DEF Rules!RemoveAt
<1> HIDE DEF a, b
<1> DEFINE c == a \o b
<1>5. /\ c \in Seq(S) /\ Len(c) = Len(a) + Len(b)
      /\ \A k \in 1..Len(a)+Len(b) : c[k] = IF k <= Len(a) THEN a[k] ELSE b[k - Len(a)]
  BY <1>2, <1>3, ConcatProperties
<1>6. Rules!RemoveAt(s, i) = c
  BY <1>4
<1> HIDE DEF c
<1>7. Len(c) = Len(s) - 1
  BY <1>1, <1>2, <1>3, <1>5
<1>8. ASSUME NEW k \in 1..Len(s)-1 PROVE c[k] = IF k < i THEN s[k] ELSE s[k+1]
  <2>0. k \in 1..Len(a)+Len(b) /\ Len(a) = i-1
    BY <1>1, <1>2, <1>3
  <2>1. c[k] = IF k <= i-1 THEN a[k] ELSE b[k - (i-1)]
    BY <1>5, <2>0
  <2>2. CASE k < i
    BY <1>1, <1>2, <2>1, <2>2
  <2>3. CASE ~(k < i)
    <3>1. k - (i-1) \in 1..Len(s)-i /\ i + (k - (i-1)) = k+1
      BY <1>1, <2>3
    <3> QED
      BY <1>1, <1>3, <2>1, <2>3, <3>1
  <2> QED
    BY <2>2, <2>3
<1> QED
  BY <1>5, <1>6, <1>7, <1>8

(* One item more: those before it stay, those behind it move down. *)
LEMMA Inserted ==
  ASSUME NEW S, NEW s \in Seq(S), NEW i \in 1..Len(s)+1, NEW e \in S
  PROVE  /\ Rules!InsertAt(s, i, e) \in Seq(S)
         /\ Len(Rules!InsertAt(s, i, e)) = Len(s) + 1
         /\ \A k \in 1..Len(s)+1 :
              Rules!InsertAt(s, i, e)[k] = IF k < i THEN s[k] ELSE IF k = i THEN e ELSE s[k-1]
<1> DEFINE a == SubSeq(s, 1, i-1)
           b == SubSeq(s, i, Len(s))
<1>1. Len(s) \in Nat /\ i \in Nat
  BY LenProperties
<1>2. /\ a \in Seq(S) /\ Len(a) = i - 1
      /\ \A k \in 1..i-1 : a[k] = s[k]
  <2>1. \A k \in 1..i-1 : s[k] \in S
    BY <1>1, ElementOfSeq
  <2>2. /\ a \in Seq(S) /\ Len(a) = IF 1 <= i-1 THEN i-1-1+1 ELSE 0
        /\ \A k \in 1..i-1-1+1 : a[k] = s[1+k-1]
    BY <1>1, <2>1, SubSeqProperties
  <2> QED
    BY <1>1, <2>2
<1>3. /\ b \in Seq(S) /\ Len(b) = Len(s) - i + 1
      /\ \A k \in 1..Len(s)-i+1 : b[k] = s[i+k-1]
  <2>1. \A k \in i..Len(s) : s[k] \in S
    BY <1>1, ElementOfSeq
  <2>2. /\ b \in Seq(S) /\ Len(b) = IF i <= Len(s) THEN Len(s)-i+1 ELSE 0
        /\ \A k \in 1..Len(s)-i+1 : b[k] = s[i+k-1]
    BY <1>1, <2>1, SubSeqProperties
  <2> QED
    BY <1>1, <2>2
<1>4. Rules!InsertAt(s, i, e) = (a \o <<e>>) \o b
  BY DEF Rules!InsertAt
<1>5. <<e>> \in Seq(S) /\ Len(<<e>>) = 1 /\ <<e>>[1] = e
  OBVIOUS
<1> HIDE DEF a, b
<1> DEFINE c == a \o <<e>>
<1>6. /\ c \in Seq(S) /\ Len(c) = Len(a) + 1
      /\ \A k \in 1..Len(a)+1 : c[k] = IF k <= Len(a) THEN a[k] ELSE <<e>>[k - Len(a)]
  BY <1>2, <1>5, ConcatProperties
<1>7. Rules!InsertAt(s, i, e) = c \o b
  BY <1>4
<1> HIDE DEF c
<1>8. /\ c \o b \in Seq(S) /\ Len(c \o b) = Len(c) + Len(b)
      /\ \A k \in 1..Len(c)+Len(b) : (c \o b)[k] = IF k <= Len(c) THEN c[k] ELSE b[k - Len(c)]
  BY <1>3, <1>6, ConcatProperties
<1>9. \A k \in 1..i-1 : c[k] = s[k]
  <2> SUFFICES ASSUME NEW k \in 1..i-1 PROVE c[k] = s[k]
    OBVIOUS
  <2>1. k \in 1..Len(a)+1 /\ k <= Len(a)
    BY <1>1, <1>2
  <2> QED
    BY <1>2, <1>6, <2>1
<1>10. c[i] = e
  <2>1. i \in 1..Len(a)+1 /\ ~(i <= Len(a)) /\ i - Len(a) = 1
    BY <1>1, <1>2
  <2> QED
    BY <1>5, <1>6, <2>1
<1> DEFINE d == c \o b
<1>11. /\ d \in Seq(S) /\ Len(d) = Len(s) + 1
       /\ \A k \in 1..Len(s)+1 : d[k] = IF k <= i THEN c[k] ELSE b[k - i]
  <2>1. Len(c) = i /\ Len(c) + Len(b) = Len(s) + 1
    BY <1>1, <1>2, <1>3, <1>6
  <2> QED
    BY <1>8, <2>1
<1> HIDE DEF d
<1>12. ASSUME NEW k \in 1..Len(s)+1
       PROVE  d[k] = IF k < i THEN s[k] ELSE IF k = i THEN e ELSE s[k-1]
  <2>1. CASE k < i
    BY <1>1, <1>9, <1>11, <2>1
  <2>2. CASE k = i
    BY <1>1, <1>10, <1>11, <2>2
  <2>3. CASE k > i
    <3>1. k - i \in 1..Len(s)-i+1 /\ i + (k - i) - 1 = k - 1 /\ ~(k <= i)
      BY <1>1, <2>3
    <3>2. d[k] = s[k-1]
      BY <1>3, <1>11, <3>1
    <3> QED
      BY <1>1, <2>3, <3>2
  <2> QED
    BY <1>1, <2>1, <2>2, <2>3
<1>13. Rules!InsertAt(s, i, e) = d
  BY <1>7 DEF d
<1> QED
  BY <1>11, <1>12, <1>13

(* The firewall counts as everybody does. *)
LEMMA RulesCount == \A S : Rules!Cardinality(S) = Cardinality(S)
BY DEF Rules!Cardinality, Cardinality

(* ufw's rules of a list without rule's kind, and rule. *)
Instead(S, rule) == {r \in S : ~Rules!SameKind(r, rule)} \cup {rule}

(* ufw turns the one rule of this kind or takes the new one in: the others stay. *)
LEMMA Placed ==
  ASSUME NEW R, NEW list \in Seq(R), OneOfAKind(list), NEW rule \in R
  PROVE  /\ Rules!Put(list, rule) \in Seq(R)
         /\ OneOfAKind(Rules!Put(list, rule))
         /\ Rules!Range(Rules!Put(list, rule)) = Instead(Rules!Range(list), rule)
<1> USE DEF OneOfAKind, Rules!SameKind, Rules!Range, Instead
<1>1. Len(list) \in Nat /\ DOMAIN list = 1..Len(list) /\ \A n \in 1..Len(list) : list[n] \in R
  BY LenProperties, ElementOfSeq
<1> DEFINE N == Len(list)
           p == Rules!Put(list, rule)
<1>2. CASE \E n \in DOMAIN list : Rules!SameKind(list[n], rule)
  <2>1. p = [n \in DOMAIN list |-> IF Rules!SameKind(list[n], rule) THEN rule ELSE list[n]]
    BY <1>2 DEF Rules!Put
  <2>2. DOMAIN p = 1..N /\ \A n \in 1..N : p[n] = IF Rules!SameKind(list[n], rule) THEN rule ELSE list[n]
    BY <1>1, <2>1
  <2>3. p \in Seq(R)
    <3>1. p \in [1..N -> R]
      BY <1>1, <2>1
    <3> QED
      BY <1>1, <3>1
  <2> HIDE DEF p
  <2>4. PICK k \in 1..N : Rules!SameKind(list[k], rule)
    BY <1>1, <1>2
  <2>5. \A n \in 1..N : p[n] = IF n = k THEN rule ELSE list[n]
    BY <1>1, <2>2, <2>4
  <2>6. OneOfAKind(p)
    BY <1>1, <2>2, <2>4, <2>5
  <2>7. {p[n] : n \in DOMAIN p} = {r \in {list[n] : n \in DOMAIN list} : ~Rules!SameKind(r, rule)} \cup {rule}
    BY <1>1, <2>2, <2>4, <2>5
  <2> QED
    BY <2>3, <2>6, <2>7 DEF p
<1> DEFINE v4 == {n \in DOMAIN list : ~list[n].v6}
<1>3. Cardinality(v4) + 1 \in 1..N+1
  <2>1. IsFiniteSet(1..N) /\ Cardinality(1..N) = N
    BY <1>1, FS_Interval
  <2>2. v4 \in SUBSET (1..N)
    BY <1>1
  <2>3. Cardinality(v4) <= N /\ Cardinality(v4) \in Nat
    BY <2>1, <2>2, FS_Subset, FS_CardinalityType
  <2> QED
    BY <1>1, <2>3
<1>4. CASE \A n \in DOMAIN list : ~Rules!SameKind(list[n], rule)
  <2>1. \E k \in 1..N+1 :
          /\ p \in Seq(R) /\ Len(p) = N + 1
          /\ \A n \in 1..N+1 : p[n] = IF n < k THEN list[n] ELSE IF n = k THEN rule ELSE list[n-1]
    <3>1. p = IF rule.v6 THEN Append(list, rule) ELSE Rules!InsertAt(list, Cardinality(v4) + 1, rule)
      <4>1. ~\E n \in DOMAIN list : Rules!SameKind(list[n], rule)
        BY <1>4
      <4> HIDE DEF Rules!SameKind
      <4> QED
        BY <4>1, RulesCount DEF Rules!Put
    <3>2. CASE rule.v6
      <4>1. /\ Append(list, rule) \in Seq(R) /\ Len(Append(list, rule)) = N + 1
            /\ \A n \in 1..N+1 : Append(list, rule)[n] =
                 IF n < N+1 THEN list[n] ELSE IF n = N+1 THEN rule ELSE list[n-1]
        BY <1>1
      <4>2. N+1 \in 1..N+1 /\ p = Append(list, rule)
        BY <1>1, <3>1, <3>2
      <4> HIDE DEF p
      <4> QED
        BY <4>1, <4>2
    <3>3. CASE ~rule.v6
      <4> DEFINE i == Cardinality(v4) + 1
      <4>1. i \in 1..N+1 /\ p = Rules!InsertAt(list, i, rule)
        BY <1>3, <3>1, <3>3
      <4> HIDE DEF p, i
      <4>2. /\ Rules!InsertAt(list, i, rule) \in Seq(R) /\ Len(Rules!InsertAt(list, i, rule)) = N + 1
            /\ \A n \in 1..N+1 : Rules!InsertAt(list, i, rule)[n] =
                 IF n < i THEN list[n] ELSE IF n = i THEN rule ELSE list[n-1]
        <5>1. i \in 1..Len(list)+1
          BY <4>1
        <5> QED
          BY <5>1, Inserted, SMTT(60)
      <4> QED
        BY <4>1, <4>2
    <3> QED
      BY <3>2, <3>3
  <2> HIDE DEF p
  <2> PICK k \in 1..N+1 :
          /\ p \in Seq(R) /\ Len(p) = N + 1
          /\ \A n \in 1..N+1 : p[n] = IF n < k THEN list[n] ELSE IF n = k THEN rule ELSE list[n-1]
    BY <2>1
  <2>2. DOMAIN p = 1..N+1 /\ p[k] = rule
    OBVIOUS
  <2> DEFINE at(n) == IF n < k THEN n ELSE n - 1
  <2>3. ASSUME NEW n \in 1..N+1, n # k PROVE at(n) \in 1..N /\ p[n] = list[at(n)]
    BY <1>1, <2>3
  <2>4. ASSUME NEW n \in 1..N PROVE \E m \in 1..N+1 : m # k /\ p[m] = list[n]
    <3>1. CASE n < k
      BY <1>1, <3>1
    <3>2. CASE ~(n < k)
      <4>1. n + 1 \in 1..N+1 /\ n + 1 # k /\ p[n+1] = list[n]
        BY <1>1, <3>2
      <4> QED
        BY <4>1
    <3> QED
      BY <3>1, <3>2
  <2>5. ASSUME NEW n \in 1..N+1, n # k PROVE ~Rules!SameKind(p[n], rule)
    BY <1>1, <1>4, <2>3, <2>5
  <2>6. OneOfAKind(p)
    <3> SUFFICES ASSUME NEW m \in 1..N+1, NEW n \in 1..N+1, Rules!SameKind(p[m], p[n]) PROVE m = n
      BY <2>2
    <3>1. CASE m = k \/ n = k
      BY <2>2, <2>5, <3>1
    <3>2. CASE m # k /\ n # k
      <4>1. at(m) \in 1..N /\ at(n) \in 1..N /\ p[m] = list[at(m)] /\ p[n] = list[at(n)]
        BY <2>3, <3>2
      <4>2. at(m) = at(n)
        BY <1>1, <4>1
      <4> QED
        BY <1>1, <3>2, <4>2
    <3> QED
      BY <3>1, <3>2
  <2>7. {p[n] : n \in DOMAIN p} = {r \in {list[n] : n \in DOMAIN list} : ~Rules!SameKind(r, rule)} \cup {rule}
    <3>1. \A n \in 1..N+1 : p[n] = rule \/ (p[n] \in {list[m] : m \in DOMAIN list} /\ ~Rules!SameKind(p[n], rule))
      <4> HIDE DEF Rules!SameKind
      <4> QED
        BY <1>1, <2>2, <2>3, <2>5
    <3> HIDE DEF Rules!SameKind
    <3>2. ASSUME NEW n \in DOMAIN list PROVE list[n] \in {p[m] : m \in DOMAIN p}
      <4>1. PICK m \in 1..N+1 : p[m] = list[n]
        BY <1>1, <2>4
      <4> QED
        BY <2>2, <4>1
    <3>3. rule \in {p[m] : m \in DOMAIN p}
      BY <2>2
    <3> QED
      BY <2>2, <3>1, <3>2, <3>3
  <2> QED
    BY <2>6, <2>7 DEF p
<1> QED
  BY <1>2, <1>4

(* No rule is listed before the first page is. *)
LEMMA RulesInit == Rules!Init => RulesInv
<1> SUFFICES ASSUME Rules!Init PROVE RulesInv
  OBVIOUS
<1>1. Rules!Routed \in Rules!Rules
  BY DEF Rules!Rules
<1>2. rules \in Seq(Rules!Rules) /\ Rules!Range(rules) \subseteq Rules!Rules /\ OneOfAKind(rules)
  <2>1. CASE rules = <<>>
    BY <2>1 DEF Rules!Range, OneOfAKind
  <2>2. CASE rules = <<Rules!Routed>>
    <3>1. <<Rules!Routed>> \in Seq(Rules!Rules) /\ DOMAIN <<Rules!Routed>> = {1}
      BY <1>1
    <3>2. \A n \in DOMAIN rules : n = 1 /\ rules[n] = Rules!Routed
      BY <2>2, <3>1
    <3> QED
      BY <1>1, <2>2, <3>1, <3>2 DEF Rules!Range, OneOfAKind
  <2> QED
    BY <2>1, <2>2 DEF Rules!Init
<1>3. DOMAIN page = Handlers /\ \A b \in Handlers : DOMAIN page[b] = {}
  <2>1. DOMAIN <<>> = {}
    OBVIOUS
  <2> QED
    BY <2>1 DEF Rules!Init
<1>4. Rules!TypeOK
  BY <1>2, <1>3 DEF Rules!Init, Rules!TypeOK, Rules!Range
<1>5. FreshPages /\ \A b \in Handlers : DOMAIN page[b] \subseteq Nat \ {0}
  BY <1>3 DEF FreshPages
<1>6. Rules!Range(rules) = wanted
  BY DEF Rules!Init
<1> QED
  BY <1>2, <1>3, <1>4, <1>5, <1>6 DEF RulesInv

(* A page that is made has the numbers of now. *)
LEMMA GetStatusKeepsRules ==
  ASSUME RulesInv, NEW b \in Handlers, Rules!GetStatus(b)
  PROVE  RulesInv'
<1> DEFINE new == IF enabled THEN Rules!Numbered(rules) ELSE <<>>
<1>1. \A n \in DOMAIN new : n \in DOMAIN rules /\ new[n] = rules[n] /\ new[n] # Rules!Routed
  BY DEF Rules!Numbered, Rules!Restrict
<1>2. Rules!Range(new) \subseteq Rules!Rules \ {Rules!Routed}
  BY <1>1, LenProperties, ElementOfSeq DEF Rules!Range, RulesInv, Rules!TypeOK
<1> HIDE DEF new
<1>3. page' = [page EXCEPT ![b] = new] /\ UNCHANGED <<enabled, rules, wanted, disturbed>> /\ old' = old \ {b}
  BY DEF Rules!GetStatus, new
<1>4. DOMAIN page = Handlers /\ DOMAIN page' = Handlers
      /\ \A c \in Handlers : DOMAIN page'[c] \subseteq Nat \ {0}
  <2>1. DOMAIN new \subseteq Nat \ {0}
    BY <1>1, LenProperties DEF RulesInv, Rules!TypeOK
  <2> QED
    BY <1>3, <2>1 DEF RulesInv
<1>5. Rules!TypeOK'
  BY <1>2, <1>3, <1>4 DEF RulesInv, Rules!TypeOK
<1>6. FreshPages'
  BY <1>1, <1>3, <1>4 DEF RulesInv, FreshPages
<1>7. OneOfAKind(rules)' /\ (~disturbed => Rules!Range(rules) = wanted)'
  BY <1>3 DEF RulesInv, OneOfAKind, Rules!Range
<1> QED
  BY <1>4, <1>5, <1>6, <1>7 DEF RulesInv

(* A change of the rules makes every page old. *)
LEMMA ChangedKeepsPages ==
  ASSUME RulesInv, NEW list, Rules!Changed(list), UNCHANGED page
  PROVE  FreshPages' /\ old' \subseteq Handlers
BY DEF RulesInv, FreshPages, Rules!Changed, Rules!TypeOK

(* A rule that is added stands instead of the one of its kind, if there is one. *)
LEMMA AddKeepsRules ==
  ASSUME RulesInv, NEW a \in Rules!Actions, NEW s \in Specs, Rules!Add(a, s)
  PROVE  RulesInv'
<1> DEFINE v4 == Rules!Rule(s, a, FALSE)
           v6 == Rules!Rule(s, a, TRUE)
           two == s \in BothStacks
           new == {v4} \cup (IF two THEN {v6} ELSE {})
           one == Rules!Put(rules, v4)
           list == IF two THEN Rules!Put(one, v6) ELSE one
<1>1. v4 \in Rules!Rules /\ v6 \in Rules!Rules /\ ~Rules!SameKind(v4, v6)
  <2>1. ASSUME NEW v \in BOOLEAN PROVE Rules!Rule(s, a, v) \in Rules!Rules
    <3>1. \E x \in Specs, y \in Rules!Actions, z \in BOOLEAN : Rules!Rule(s, a, v) = Rules!Rule(x, y, z)
      BY Zenon
    <3> QED
      BY <3>1 DEF Rules!Rules
  <2>2. v4 \in Rules!Rules /\ v6 \in Rules!Rules
    BY <2>1
  <2> QED
    BY <2>2 DEF Rules!Rule, Rules!SameKind
<1>2. /\ Rules!Changed(list) /\ UNCHANGED <<enabled, page, disturbed>>
      /\ wanted' = {r \in wanted : \A t \in new : ~Rules!SameKind(r, t)} \cup new
  BY DEF Rules!Add
<1> HIDE DEF v4, v6, two
<1>3. rules \in Seq(Rules!Rules) /\ OneOfAKind(rules)
  BY DEF RulesInv, Rules!TypeOK
<1>4. /\ list \in Seq(Rules!Rules) /\ OneOfAKind(list)
      /\ Rules!Range(list) = {r \in Rules!Range(rules) : \A t \in new : ~Rules!SameKind(r, t)} \cup new
  <2>1. /\ one \in Seq(Rules!Rules) /\ OneOfAKind(one)
        /\ Rules!Range(one) = Instead(Rules!Range(rules), v4)
    BY <1>1, <1>3, Placed
  <2> HIDE DEF one
  <2>2. CASE two
    <3>1. /\ Rules!Put(one, v6) \in Seq(Rules!Rules) /\ OneOfAKind(Rules!Put(one, v6))
          /\ Rules!Range(Rules!Put(one, v6)) = Instead(Rules!Range(one), v6)
      BY <1>1, <2>1, Placed
    <3>2. Instead(Instead(Rules!Range(rules), v4), v6)
            = {r \in Rules!Range(rules) : \A t \in new : ~Rules!SameKind(r, t)} \cup new
      BY <1>1, <2>2 DEF Instead
    <3> QED
      BY <2>1, <2>2, <3>1, <3>2
  <2>3. CASE ~two
    BY <2>1, <2>3 DEF Instead
  <2> QED
    BY <2>2, <2>3
<1>5. new \subseteq Rules!Rules
  BY <1>1
<1> HIDE DEF list, new
<1>6. FreshPages' /\ old' \subseteq Handlers
  BY <1>2, ChangedKeepsPages
<1>7. rules' = list
  BY <1>2 DEF Rules!Changed
<1>8. Rules!TypeOK'
  BY <1>2, <1>4, <1>5, <1>6, <1>7 DEF RulesInv, Rules!TypeOK
<1>9. ~disturbed' => Rules!Range(rules') = wanted'
  BY <1>2, <1>4, <1>7 DEF RulesInv
<1> QED
  BY <1>2, <1>4, <1>6, <1>7, <1>8, <1>9 DEF RulesInv

(* The rule at a number is gone, which is the one of the page unless that is old. *)
LEMMA DeleteKeepsRules ==
  ASSUME RulesInv, NEW b \in Handlers, Rules!Delete(b)
  PROVE  RulesInv'
<1> DEFINE R == Rules!Rules
           L == Len(rules)
<1>1. /\ rules \in Seq(R) /\ OneOfAKind(rules) /\ L \in Nat /\ DOMAIN rules = 1..L
  BY LenProperties DEF RulesInv, Rules!TypeOK
<1>2. PICK n \in DOMAIN page[b] :
        /\ Rules!Changed(IF n <= L THEN Rules!RemoveAt(rules, n) ELSE rules)
        /\ wanted' = wanted \ {page[b][n]}
        /\ disturbed' = (disturbed \/ b \in old)
        /\ UNCHANGED <<enabled, page>>
  BY DEF Rules!Delete
<1>3. FreshPages' /\ old' \subseteq Handlers
  BY <1>2, ChangedKeepsPages
<1>4. wanted' \subseteq R /\ disturbed' \in BOOLEAN
  BY <1>2 DEF RulesInv, Rules!TypeOK
<1>5. b \notin old => n \in 1..L /\ page[b][n] = rules[n]
  BY <1>1 DEF RulesInv, FreshPages
<1>6. n \in Nat \ {0}
  BY DEF RulesInv
<1>7. CASE n > L
  <2>1. rules' = rules /\ b \in old
    BY <1>1, <1>2, <1>5, <1>6, <1>7 DEF Rules!Changed
  <2>2. Rules!TypeOK' /\ (~disturbed => Rules!Range(rules) = wanted)'
    BY <1>2, <1>3, <1>4, <2>1 DEF RulesInv, Rules!TypeOK
  <2> QED
    BY <1>1, <1>2, <1>3, <2>1, <2>2 DEF RulesInv, OneOfAKind
<1>8. CASE n \in 1..L
  <2> DEFINE list == Rules!RemoveAt(rules, n)
  <2>1. /\ list \in Seq(R) /\ Len(list) = L - 1
        /\ \A k \in 1..L-1 : list[k] = IF k < n THEN rules[k] ELSE rules[k+1]
    BY <1>1, <1>8, Removed
  <2>2. rules' = list
    BY <1>1, <1>2, <1>8 DEF Rules!Changed
  <2> HIDE DEF list
  <2>3. DOMAIN list = 1..L-1
    BY <1>1, <2>1
  <2> DEFINE from(k) == IF k < n THEN k ELSE k + 1
  <2>4. ASSUME NEW k \in 1..L-1 PROVE from(k) \in 1..L /\ from(k) # n /\ list[k] = rules[from(k)]
    BY <1>1, <1>8, <2>1
  <2>5. ASSUME NEW k \in 1..L, k # n PROVE \E j \in 1..L-1 : list[j] = rules[k]
    <3>1. CASE k < n
      <4>1. k \in 1..L-1 /\ list[k] = rules[k]
        BY <1>1, <1>8, <2>1, <3>1
      <4> QED
        BY <4>1
    <3>2. CASE k > n
      <4>1. k - 1 \in 1..L-1 /\ list[k-1] = rules[k]
        BY <1>1, <1>8, <2>1, <3>2
      <4> QED
        BY <4>1
    <3> QED
      BY <1>1, <1>8, <2>5, <3>1, <3>2
  <2>6. OneOfAKind(list)
    <3> SUFFICES ASSUME NEW i \in 1..L-1, NEW j \in 1..L-1, Rules!SameKind(list[i], list[j]) PROVE i = j
      BY <2>3 DEF OneOfAKind
    <3>1. from(i) = from(j)
      BY <1>1, <2>4 DEF OneOfAKind
    <3> QED
      BY <1>1, <1>8, <3>1
  <2>7. Rules!Range(list) = Rules!Range(rules) \ {rules[n]}
    <3>1. ASSUME NEW k \in 1..L, rules[k] = rules[n] PROVE k = n
      BY <1>1, <1>8, <3>1 DEF OneOfAKind, Rules!SameKind
    <3>2. ASSUME NEW x \in Rules!Range(list) PROVE x \in Rules!Range(rules) \ {rules[n]}
      <4>1. PICK k \in 1..L-1 : x = list[k]
        BY <2>3 DEF Rules!Range
      <4>2. from(k) \in 1..L /\ from(k) # n /\ x = rules[from(k)]
        BY <2>4, <4>1
      <4> QED
        BY <1>1, <3>1, <4>2 DEF Rules!Range
    <3>3. ASSUME NEW x \in Rules!Range(rules), x # rules[n] PROVE x \in Rules!Range(list)
      <4>1. PICK k \in 1..L : x = rules[k]
        BY <1>1 DEF Rules!Range
      <4>2. PICK j \in 1..L-1 : list[j] = x
        BY <2>5, <3>3, <4>1
      <4> QED
        BY <2>3, <4>2 DEF Rules!Range
    <3> QED
      BY <3>2, <3>3
  <2>8. Rules!TypeOK'
    BY <1>2, <1>3, <1>4, <2>1, <2>2 DEF RulesInv, Rules!TypeOK
  <2>9. ~disturbed' => Rules!Range(rules') = wanted'
    BY <1>2, <1>5, <2>2, <2>7 DEF RulesInv
  <2> QED
    BY <1>2, <1>3, <2>2, <2>6, <2>8, <2>9 DEF RulesInv
<1> QED
  BY <1>1, <1>6, <1>7, <1>8

(* Every step keeps the rules as asked. *)
LEMMA RulesNext == RulesInv /\ [Rules!Next]_Rules!firewallVars => RulesInv'
<1>1. RulesInv /\ Rules!SetEnabled => RulesInv'
  BY DEF Rules!SetEnabled, RulesInv, Rules!TypeOK, Rules!Range, OneOfAKind, FreshPages
<1>2. RulesInv /\ UNCHANGED Rules!firewallVars => RulesInv'
  BY DEF Rules!firewallVars, RulesInv, Rules!TypeOK, Rules!Range, OneOfAKind, FreshPages
<1> QED
  BY <1>1, <1>2, GetStatusKeepsRules, AddKeepsRules, DeleteKeepsRules DEF Rules!Next

(* Stronger than what the run checks: each kind of rule is there once, whatever happened. *)
LEMMA RulesInvSays == RulesInv => Rules!RulesAsAsked
BY DEF RulesInv, Rules!RulesAsAsked, OneOfAKind

--------------------------------------------------------------------------------
(* SSH keys. *)

(* The components count and pick lines as everybody does. *)
LEMMA KeysLines == \A text, P : SSHKeys!LinesAt(text, P) = LinesAt(text, P)
<1>1. \A P : SSHKeys!Cardinality(P) = Cardinality(P)
  BY DEF SSHKeys!Cardinality, Cardinality
<1>2. \A P, k : SSHKeys!UpTo(P, k) = UpTo(P, k)
  BY DEF SSHKeys!UpTo, UpTo
<1>3. \A P, n : SSHKeys!Nth(P, n) = Nth(P, n)
  BY <1>1, <1>2 DEF SSHKeys!Nth, Nth
<1> QED
  BY <1>1, <1>3 DEF SSHKeys!LinesAt, LinesAt

KeyLine == Seq(Keys \cup {"comment", "scrap"})

(* No two lines have a key in common. *)
OneLineEach(text) ==
  \A i, j \in DOMAIN text : SSHKeys!KeyOf(text[i]) \cap SSHKeys!KeyOf(text[j]) # {} => i = j

KeysTypes ==
  /\ keysFile \in Seq(KeyLine) /\ Len(keysFile) \in 1..MaxLines
  /\ pc \in [Handlers -> {"idle", "append", "truncate", "write"}] /\ DOMAIN req = Handlers
  /\ wanted \subseteq Keys /\ joined \in BOOLEAN /\ disturbed \in BOOLEAN
  /\ \A h \in Handlers : pc[h] # "idle" => req[h].key \in Keys
  /\ \A h \in Handlers : pc[h] \in {"truncate", "write"} =>
       req[h].kept \in Seq(KeyLine) /\ Len(req[h].kept) \in 1..MaxLines

(* The requests take turns. *)
OneRequest == \A g, h \in Handlers : pc[g] # "idle" /\ pc[h] # "idle" => g = h

(* What a request in progress knows of the file is still so. *)
KeysKnown(h) ==
  /\ pc[h] = "append" => req[h].key \notin wanted
  /\ pc[h] \in {"truncate", "write"} =>
       /\ SSHKeys!ListKeys(req[h].kept) = wanted \ {req[h].key} /\ OneLineEach(req[h].kept)
  /\ pc[h] = "write" => keysFile = <<<<>>>>

KeysInv ==
  /\ KeysTypes
  /\ ~disturbed => OneRequest
  /\ ~disturbed /\ ~joined => \A h \in Handlers : KeysKnown(h)
  /\ SSHKeys!AuthorizedAsAsked

(* A line has at most one key. *)
LEMMA OneKeyOf ==
  ASSUME NEW line
  PROVE  /\ SSHKeys!KeyOf(line) \subseteq Keys
         /\ \A j, k \in SSHKeys!KeyOf(line) : j = k
BY DEF SSHKeys!KeyOf

(* The line that AddKey appends has the one key, and an empty one has none. *)
LEMMA NewLine ==
  /\ SSHKeys!KeyOf(<<>>) = {}
  /\ \A k \in Keys : SSHKeys!KeyOf(<<k>>) = {k} /\ <<>> \o <<k>> = <<k>>
<1>1. SSHKeys!KeyOf(<<>>) = {}
  BY DEF SSHKeys!KeyOf
<1>2. ASSUME NEW k \in Keys PROVE SSHKeys!KeyOf(<<k>>) = {k} /\ <<>> \o <<k>> = <<k>>
  <2>1. <<k>> # <<>> /\ Head(<<k>>) = k /\ <<>> \o <<k>> = <<k>>
    OBVIOUS
  <2> QED
    BY <2>1 DEF SSHKeys!KeyOf
<1> QED
  BY <1>1, <1>2

(* DeleteKey keeps every line but those of the key. *)
LEMMA KeptLines ==
  ASSUME NEW text \in Seq(KeyLine), Len(text) \in 1..MaxLines, NEW k \in Keys
  PROVE  /\ SSHKeys!Kept(text, k) \in Seq(KeyLine) /\ Len(SSHKeys!Kept(text, k)) \in 1..MaxLines
         /\ SSHKeys!ListKeys(SSHKeys!Kept(text, k)) = SSHKeys!ListKeys(text) \ {k}
         /\ OneLineEach(text) => OneLineEach(SSHKeys!Kept(text, k))
<1> DEFINE P == {i \in DOMAIN text : k \notin SSHKeys!KeyOf(text[i])}
           kept == LinesAt(text, P)
<1>0. MaxLines \in Nat
  BY BoundsAssumption
<1>1. Len(text) \in Nat /\ DOMAIN text = 1..Len(text)
  BY LenProperties
<1>2. /\ IsFiniteSet(P)
      /\ kept \in Seq(KeyLine) /\ Len(kept) = Cardinality(P)
      /\ \A n \in DOMAIN kept : Nth(P, n) \in P /\ kept[n] = text[Nth(P, n)]
      /\ \A m, n \in DOMAIN kept : Nth(P, m) = Nth(P, n) => m = n
      /\ \A i \in P : \E n \in DOMAIN kept : kept[n] = text[i]
  <2>1. P \in SUBSET (DOMAIN text)
    OBVIOUS
  <2> HIDE DEF P
  <2> QED
    BY <2>1, LinesKept
<1>3. SSHKeys!Kept(text, k) = IF kept = <<>> THEN <<<<>>>> ELSE kept
  BY KeysLines DEF SSHKeys!Kept
<1>4. Len(kept) \in 0..MaxLines
  <2>1. IsFiniteSet(1..Len(text)) /\ Cardinality(1..Len(text)) = Len(text)
    BY <1>1, FS_Interval
  <2>2. P \in SUBSET (1..Len(text))
    BY <1>1
  <2>3. Cardinality(P) <= Len(text) /\ Cardinality(P) \in Nat
    BY <1>2, <2>1, <2>2, FS_Subset, FS_CardinalityType
  <2> QED
    BY <1>0, <1>1, <1>2, <2>3
<1>5. \A i \in DOMAIN text : i \notin P => SSHKeys!KeyOf(text[i]) = {k}
  BY OneKeyOf
<1>6. \A i \in P : k \notin SSHKeys!KeyOf(text[i]) /\ i \in DOMAIN text
  OBVIOUS
<1> HIDE DEF kept, P
<1>7. SSHKeys!ListKeys(kept) = SSHKeys!ListKeys(text) \ {k}
  <2>1. ASSUME NEW x \in SSHKeys!ListKeys(kept) PROVE x \in SSHKeys!ListKeys(text) /\ x # k
    <3>1. PICK n \in DOMAIN kept : x \in SSHKeys!KeyOf(kept[n])
      BY DEF SSHKeys!ListKeys
    <3>2. Nth(P, n) \in P /\ x \in SSHKeys!KeyOf(text[Nth(P, n)])
      BY <1>2, <3>1
    <3> QED
      BY <1>6, <3>2 DEF SSHKeys!ListKeys
  <2>2. ASSUME NEW x \in SSHKeys!ListKeys(text), x # k PROVE x \in SSHKeys!ListKeys(kept)
    <3>1. PICK i \in DOMAIN text : x \in SSHKeys!KeyOf(text[i])
      BY DEF SSHKeys!ListKeys
    <3>2. i \in P
      BY <1>5, <2>2, <3>1
    <3>3. PICK n \in DOMAIN kept : kept[n] = text[i]
      BY <1>2, <3>2
    <3> QED
      BY <3>1, <3>3 DEF SSHKeys!ListKeys
  <2> QED
    BY <2>1, <2>2
<1>8. OneLineEach(text) => OneLineEach(kept)
  BY <1>2, <1>6 DEF OneLineEach
<1>9. CASE kept # <<>>
  <2>1. Len(kept) # 0
    BY <1>2, <1>9, EmptySeq
  <2> QED
    BY <1>0, <1>2, <1>3, <1>4, <1>7, <1>8, <1>9, <2>1
<1>10. CASE kept = <<>>
  <2> DEFINE none == <<<<>>>>
  <2>1. none \in Seq(KeyLine) /\ Len(none) = 1 /\ DOMAIN none = {1} /\ none[1] = <<>>
    BY DEF KeyLine
  <2>2. SSHKeys!Kept(text, k) = none
    BY <1>3, <1>10
  <2> HIDE DEF none
  <2>3. SSHKeys!ListKeys(none) = {} /\ OneLineEach(none)
    BY <2>1, NewLine DEF SSHKeys!ListKeys, OneLineEach
  <2>4. SSHKeys!ListKeys(kept) = {}
    <3>1. DOMAIN kept = {}
      BY <1>10
    <3> QED
      BY <3>1 DEF SSHKeys!ListKeys
  <2>5. 1 \in 1..MaxLines
    BY BoundsAssumption
  <2> QED
    BY <1>7, <2>1, <2>2, <2>3, <2>4, <2>5
<1> QED
  BY <1>9, <1>10

(* Nothing is in progress at first, and the file is what somebody left. *)
LEMMA KeysInit == SSHKeys!Init => KeysInv
<1> SUFFICES ASSUME SSHKeys!Init PROVE KeysInv
  OBVIOUS
<1>0. MaxLines \in Nat /\ MaxLines > 2
  BY BoundsAssumption
<1>1. /\ keysFile \in Seq(KeyLine) /\ Len(keysFile) \in 1..2 /\ wanted \subseteq Keys
      /\ SSHKeys!ListKeys(keysFile) = wanted /\ OneLineEach(keysFile)
  <2>1. CASE keysFile = <<<<>>>> /\ wanted = {}
    <3>1. <<<<>>>> \in Seq(KeyLine) /\ Len(<<<<>>>>) = 1 /\ DOMAIN <<<<>>>> = {1} /\ <<<<>>>>[1] = <<>>
      BY DEF KeyLine
    <3>2. keysFile \in Seq(KeyLine) /\ Len(keysFile) = 1 /\ DOMAIN keysFile = {1} /\ keysFile[1] = <<>>
      BY <2>1, <3>1
    <3> QED
      BY <2>1, <3>2, NewLine DEF SSHKeys!ListKeys, OneLineEach
  <2>2. CASE keysFile = <<<<"comment">>, <<>>>> /\ wanted = {}
    <3> DEFINE t == <<<<"comment">>, <<>>>>
    <3>1. t \in Seq(KeyLine) /\ Len(t) = 2 /\ DOMAIN t = {1, 2} /\ t[1] = <<"comment">> /\ t[2] = <<>>
      BY DEF KeyLine
    <3>2. SSHKeys!KeyOf(<<"comment">>) = {}
      <4>1. Head(<<"comment">>) = "comment"
        OBVIOUS
      <4> QED
        BY <4>1, CommentAssumption DEF SSHKeys!KeyOf
    <3> HIDE DEF t
    <3>3. SSHKeys!ListKeys(t) = {} /\ OneLineEach(t)
      BY <3>1, <3>2, NewLine DEF SSHKeys!ListKeys, OneLineEach
    <3> QED
      BY <2>2, <3>1, <3>3 DEF t
  <2>3. ASSUME NEW k \in Keys, keysFile = <<<<k>>, <<>>>>, wanted = {k}
        PROVE  <1>1!:
    <3> DEFINE t == <<<<k>>, <<>>>>
    <3>1. t \in Seq(KeyLine) /\ Len(t) = 2 /\ DOMAIN t = {1, 2} /\ t[1] = <<k>> /\ t[2] = <<>>
      BY DEF KeyLine
    <3> HIDE DEF t
    <3>3. SSHKeys!KeyOf(t[1]) = {k} /\ SSHKeys!KeyOf(t[2]) = {} /\ \A i \in DOMAIN t : i = 1 \/ i = 2
      BY <3>1, NewLine
    <3>2. SSHKeys!ListKeys(t) = {k} /\ OneLineEach(t)
      BY <3>1, <3>3 DEF SSHKeys!ListKeys, OneLineEach
    <3> QED
      BY <2>3, <3>1, <3>2 DEF t
  <2>4. ASSUME NEW k \in Keys, keysFile = <<<<k>>>>, wanted = {k}
        PROVE  <1>1!:
    <3> DEFINE t == <<<<k>>>>
    <3>1. t \in Seq(KeyLine) /\ Len(t) = 1 /\ DOMAIN t = {1} /\ t[1] = <<k>>
      BY DEF KeyLine
    <3> HIDE DEF t
    <3>2. SSHKeys!ListKeys(t) = {k} /\ OneLineEach(t)
      BY <3>1, NewLine DEF SSHKeys!ListKeys, OneLineEach
    <3> QED
      BY <2>4, <3>1, <3>2 DEF t
  <2> QED
    BY <2>1, <2>2, <2>3, <2>4 DEF SSHKeys!Init
<1>2. \A h \in Handlers : pc[h] = "idle"
  BY DEF SSHKeys!Init
<1>3. KeysTypes
  <2>0. \A l \in 1..2 : l \in 1..MaxLines
    BY <1>0
  <2>1. Len(keysFile) \in 1..MaxLines
    BY <1>1, <2>0, Zenon
  <2>2. pc \in [Handlers -> {"idle", "append", "truncate", "write"}] /\ DOMAIN req = Handlers
    BY DEF SSHKeys!Init
  <2>3. joined \in BOOLEAN /\ disturbed \in BOOLEAN
    BY DEF SSHKeys!Init
  <2> QED
    BY <1>1, <1>2, <2>1, <2>2, <2>3 DEF KeysTypes
<1>4. OneRequest /\ \A h \in Handlers : KeysKnown(h)
  BY <1>2 DEF OneRequest, KeysKnown
<1>5. SSHKeys!AuthorizedAsAsked
  BY <1>1 DEF SSHKeys!AuthorizedAsAsked, OneLineEach
<1> QED
  BY <1>3, <1>4, <1>5 DEF KeysInv

(* A step of one request is none of another's. *)
LEMMA KeysBecome ==
  ASSUME KeysTypes, NEW h \in Handlers, NEW step, NEW r, SSHKeys!Become(h, step, r)
  PROVE  /\ DOMAIN pc' = Handlers /\ DOMAIN req' = Handlers
         /\ pc'[h] = step /\ req'[h] = r
         /\ \A g \in Handlers : g # h => pc'[g] = pc[g] /\ req'[g] = req[g]
BY DEF KeysTypes, SSHKeys!Become

(* A request begins with what it has just read. *)
LEMMA BeginKeepsKeys ==
  ASSUME KeysInv, NEW h \in Handlers, NEW step \in {"idle", "append", "truncate"}, NEW r,
         pc[h] = "idle", SSHKeys!Become(h, step, r), SSHKeys!Overlaps,
         UNCHANGED <<keysFile, wanted, joined>>,
         step # "idle" => r.key \in Keys,
         step = "truncate" => r.kept \in Seq(KeyLine) /\ Len(r.kept) \in 1..MaxLines,
         (~disturbed /\ ~joined /\ \A g \in Handlers : pc[g] = "idle") => KeysKnown(h)'
  PROVE  KeysInv'
<1>1. /\ DOMAIN pc' = Handlers /\ DOMAIN req' = Handlers
      /\ pc'[h] = step /\ req'[h] = r
      /\ \A g \in Handlers : g # h => pc'[g] = pc[g] /\ req'[g] = req[g]
  BY KeysBecome DEF KeysInv
<1>2. pc' \in [Handlers -> {"idle", "append", "truncate", "write"}]
  BY DEF KeysInv, KeysTypes, SSHKeys!Become
<1>3. disturbed' \in BOOLEAN /\ (~disturbed' => ~disturbed /\ \A g \in Handlers : pc[g] = "idle")
  BY DEF KeysInv, KeysTypes, SSHKeys!Overlaps
<1>4. KeysTypes'
  BY <1>1, <1>2, <1>3 DEF KeysInv, KeysTypes
<1>5. ~disturbed' => OneRequest'
  BY <1>1, <1>3 DEF OneRequest
<1>6. ASSUME ~disturbed', ~joined', NEW g \in Handlers PROVE KeysKnown(g)'
  <2>1. CASE g = h
    BY <1>3, <1>6, <2>1
  <2>2. CASE g # h
    BY <1>1, <1>3, <1>6, <2>2 DEF KeysKnown
  <2> QED
    BY <2>1, <2>2
<1>7. SSHKeys!AuthorizedAsAsked'
  BY <1>1, <1>3 DEF KeysInv, SSHKeys!AuthorizedAsAsked
<1> QED
  BY <1>4, <1>5, <1>6, <1>7 DEF KeysInv

(* AddKey, up to its listing. *)
LEMMA BeginAddKeepsKeys ==
  ASSUME KeysInv, NEW h \in Handlers, SSHKeys!BeginAdd(h)
  PROVE  KeysInv'
<1>1. pc[h] = "idle" /\ SSHKeys!Overlaps /\ UNCHANGED <<keysFile, wanted, joined>>
  BY DEF SSHKeys!BeginAdd
<1>2. PICK k \in Keys :
        IF k \in SSHKeys!ListKeys(keysFile)
        THEN SSHKeys!Reply(h)
        ELSE SSHKeys!Become(h, "append", [kind |-> "add", key |-> k, kept |-> <<>>])
  BY DEF SSHKeys!BeginAdd
<1>3. CASE k \in SSHKeys!ListKeys(keysFile)
  <2>1. SSHKeys!Become(h, "idle", SSHKeys!NoRequest)
    BY <1>2, <1>3 DEF SSHKeys!Reply
  <2>2. KeysKnown(h)'
    BY <2>1, KeysBecome DEF KeysInv, KeysKnown
  <2> QED
    BY <1>1, <2>1, <2>2, BeginKeepsKeys
<1>4. CASE k \notin SSHKeys!ListKeys(keysFile)
  <2> DEFINE r == [kind |-> "add", key |-> k, kept |-> <<>>]
  <2>1. SSHKeys!Become(h, "append", r) /\ r.key = k
    BY <1>2, <1>4
  <2> HIDE DEF r
  <2>2. pc'[h] = "append" /\ req'[h] = r
    BY <2>1, KeysBecome DEF KeysInv
  <2>3. ASSUME ~disturbed, ~joined, \A g \in Handlers : pc[g] = "idle" PROVE KeysKnown(h)'
    <3>1. SSHKeys!ListKeys(keysFile) = wanted
      BY <2>3 DEF KeysInv, SSHKeys!AuthorizedAsAsked
    <3> QED
      BY <1>1, <1>4, <2>1, <2>2, <3>1 DEF KeysKnown
  <2> QED
    BY <1>1, <2>1, <2>3, BeginKeepsKeys
<1> QED
  BY <1>3, <1>4

(* DeleteKey, up to its own reading of the file. *)
LEMMA BeginDeleteKeepsKeys ==
  ASSUME KeysInv, NEW h \in Handlers, SSHKeys!BeginDelete(h)
  PROVE  KeysInv'
<1>1. pc[h] = "idle" /\ SSHKeys!Overlaps /\ UNCHANGED <<keysFile, wanted, joined>>
  BY DEF SSHKeys!BeginDelete
<1>2. PICK k \in SSHKeys!ListKeys(keysFile) :
        SSHKeys!Become(h, "truncate", [kind |-> "delete", key |-> k, kept |-> SSHKeys!Kept(keysFile, k)])
  BY DEF SSHKeys!BeginDelete
<1>3. k \in Keys
  BY OneKeyOf DEF SSHKeys!ListKeys
<1> DEFINE kept == SSHKeys!Kept(keysFile, k)
           r == [kind |-> "delete", key |-> k, kept |-> kept]
<1>4. /\ kept \in Seq(KeyLine) /\ Len(kept) \in 1..MaxLines
      /\ SSHKeys!ListKeys(kept) = SSHKeys!ListKeys(keysFile) \ {k}
      /\ OneLineEach(keysFile) => OneLineEach(kept)
  BY <1>3, KeptLines DEF KeysInv, KeysTypes
<1>5. SSHKeys!Become(h, "truncate", r) /\ r.key = k /\ r.kept = kept
  BY <1>2
<1> HIDE DEF kept, r
<1>6. pc'[h] = "truncate" /\ req'[h] = r
  BY <1>5, KeysBecome DEF KeysInv
<1>7. ASSUME ~disturbed, ~joined, \A g \in Handlers : pc[g] = "idle" PROVE KeysKnown(h)'
  <2>1. SSHKeys!ListKeys(keysFile) = wanted /\ OneLineEach(keysFile)
    BY <1>7 DEF KeysInv, SSHKeys!AuthorizedAsAsked, OneLineEach
  <2> QED
    BY <1>1, <1>4, <1>5, <1>6, <2>1 DEF KeysKnown, OneLineEach
<1> QED
  BY <1>1, <1>3, <1>4, <1>5, <1>7, BeginKeepsKeys

(* A step of the request that is alone keeps what the others know: nothing. *)
LEMMA AloneKnows ==
  ASSUME KeysInv, NEW h \in Handlers, pc[h] # "idle",
         \A g \in Handlers : g # h => pc'[g] = pc[g] /\ req'[g] = req[g],
         ~disturbed
  PROVE  \A g \in Handlers : g # h => pc[g] = "idle" /\ pc'[g] = "idle" /\ KeysKnown(g)'
BY DEF KeysInv, OneRequest, KeysKnown

(* AddKey's line goes behind the last byte, on a line of its own if that ended one. *)
LEMMA AppendKeepsKeys ==
  ASSUME KeysInv, NEW h \in Handlers, SSHKeys!AppendLine(h)
  PROVE  KeysInv'
<1> DEFINE k == req[h].key
           N == Len(keysFile)
           line == SSHKeys!Last(keysFile) \o <<k>>
           text == SSHKeys!Front(keysFile) \o <<line, <<>>>>
<1>0. MaxLines \in Nat /\ N \in 1..MaxLines /\ keysFile \in Seq(KeyLine) /\ DOMAIN keysFile = 1..N
  BY BoundsAssumption, LenProperties DEF KeysInv, KeysTypes
<1> HIDE DEF N
<1>1. /\ pc[h] = "append" /\ N < MaxLines /\ keysFile' = text
      /\ joined' = (joined \/ SSHKeys!Last(keysFile) # <<>>)
      /\ wanted' = wanted \cup {k} /\ disturbed' = disturbed
      /\ SSHKeys!Become(h, "idle", SSHKeys!NoRequest)
  BY DEF SSHKeys!AppendLine, SSHKeys!Reply, N
<1>2. /\ DOMAIN pc' = Handlers /\ DOMAIN req' = Handlers
      /\ pc'[h] = "idle" /\ req'[h] = SSHKeys!NoRequest
      /\ \A g \in Handlers : g # h => pc'[g] = pc[g] /\ req'[g] = req[g]
  BY <1>1, KeysBecome DEF KeysInv
<1>3. k \in Keys
  BY <1>1 DEF KeysInv, KeysTypes
<1>4. SSHKeys!Last(keysFile) = keysFile[N] /\ keysFile[N] \in KeyLine /\ line \in KeyLine
  BY <1>0, <1>3, ElementOfSeq DEF SSHKeys!Last, KeyLine, N
<1>5. /\ text \in Seq(KeyLine) /\ Len(text) = N + 1
      /\ \A i \in 1..N+1 : text[i] = IF i < N THEN keysFile[i] ELSE IF i = N THEN line ELSE <<>>
  <2> HIDE DEF line
  <2> DEFINE a == SSHKeys!Front(keysFile)
             b == <<line, <<>>>>
  <2>1. /\ a \in Seq(KeyLine) /\ Len(a) = N - 1
        /\ \A i \in 1..N-1 : a[i] = keysFile[i]
    <3>1. \A i \in 1..N-1 : keysFile[i] \in KeyLine
      BY <1>0, ElementOfSeq
    <3>2. /\ SubSeq(keysFile, 1, N-1) \in Seq(KeyLine)
          /\ Len(SubSeq(keysFile, 1, N-1)) = IF 1 <= N-1 THEN N-1-1+1 ELSE 0
          /\ \A i \in 1..N-1-1+1 : SubSeq(keysFile, 1, N-1)[i] = keysFile[1+i-1]
      BY <1>0, <3>1, SubSeqProperties
    <3> QED
      BY <1>0, <3>2 DEF SSHKeys!Front, N
  <2>2. b \in Seq(KeyLine) /\ Len(b) = 2 /\ b[1] = line /\ b[2] = <<>>
    BY <1>4 DEF KeyLine
  <2> HIDE DEF a, b
  <2>3. /\ a \o b \in Seq(KeyLine) /\ Len(a \o b) = Len(a) + Len(b)
        /\ \A i \in 1..Len(a)+Len(b) : (a \o b)[i] = IF i <= Len(a) THEN a[i] ELSE b[i - Len(a)]
    BY <2>1, <2>2, ConcatProperties
  <2> DEFINE c == a \o b
  <2>4. text = c
    BY DEF a, b
  <2> HIDE DEF c, text
  <2>5. c \in Seq(KeyLine) /\ Len(c) = N + 1
    BY <1>0, <2>1, <2>2, <2>3 DEF c
  <2>6. ASSUME NEW i \in 1..N+1
        PROVE  c[i] = IF i < N THEN keysFile[i] ELSE IF i = N THEN line ELSE <<>>
    <3>1. c[i] = IF i <= N-1 THEN a[i] ELSE b[i - (N-1)]
      BY <1>0, <2>1, <2>2, <2>3 DEF c
    <3>2. CASE i < N
      BY <1>0, <2>1, <3>1, <3>2
    <3>3. CASE i = N
      BY <1>0, <2>2, <3>1, <3>3
    <3>4. CASE i = N+1
      BY <1>0, <2>2, <3>1, <3>4
    <3> QED
      BY <1>0, <3>2, <3>3, <3>4
  <2> QED
    BY <2>4, <2>5, <2>6
<1> HIDE DEF text
<1>6. DOMAIN text = 1..N+1
  BY <1>0, <1>5
<1>7. KeysTypes'
  <2>1. Len(text) \in 1..MaxLines
    BY <1>0, <1>1, <1>5
  <2>2. pc' \in [Handlers -> {"idle", "append", "truncate", "write"}]
    BY <1>1 DEF SSHKeys!Become, KeysInv, KeysTypes
  <2>3. wanted' \subseteq Keys /\ joined' \in BOOLEAN /\ disturbed' \in BOOLEAN
    BY <1>1, <1>3 DEF KeysInv, KeysTypes
  <2> QED
    BY <1>1, <1>2, <1>5, <2>1, <2>2, <2>3 DEF KeysInv, KeysTypes
<1>8. ~disturbed' => OneRequest'
  BY <1>1, <1>2 DEF KeysInv, OneRequest
<1>9. ~disturbed' => \A g \in Handlers : KeysKnown(g)'
  BY <1>1, <1>2, AloneKnows DEF KeysKnown
<1>10. SSHKeys!AuthorizedAsAsked'
  <2> SUFFICES ASSUME ~disturbed, ~joined, SSHKeys!Last(keysFile) = <<>>
               PROVE  SSHKeys!ListKeys(text) = wanted \cup {k} /\ OneLineEach(text)
    BY <1>1 DEF SSHKeys!AuthorizedAsAsked, OneLineEach
  <2>1. \A g \in Handlers : pc[g] # "write"
    BY <1>1, <1>2, AloneKnows
  <2>2. SSHKeys!ListKeys(keysFile) = wanted /\ OneLineEach(keysFile) /\ k \notin wanted
    BY <1>1, <2>1 DEF KeysInv, KeysKnown, SSHKeys!AuthorizedAsAsked, OneLineEach
  <2>3. line = <<k>>
    BY <1>3, NewLine
  <2>4. SSHKeys!KeyOf(keysFile[N]) = {}
    BY <1>4, NewLine
  <2>5. SSHKeys!KeyOf(text[N]) = {k} /\ SSHKeys!KeyOf(text[N+1]) = {}
    BY <1>0, <1>3, <1>5, <2>3, NewLine
  <2>6. \A i \in 1..N-1 : text[i] = keysFile[i] /\ k \notin SSHKeys!KeyOf(keysFile[i])
    <3>1. ASSUME NEW i \in 1..N-1 PROVE i \in 1..N+1 /\ i < N /\ i \in DOMAIN keysFile
      BY <1>0
    <3>2. ASSUME NEW i \in DOMAIN keysFile PROVE k \notin SSHKeys!KeyOf(keysFile[i])
      <4> HIDE DEF k
      <4> QED
        BY <2>2 DEF SSHKeys!ListKeys
    <3> QED
      BY <1>5, <3>1, <3>2
  <2>7. \A i \in 1..N+1 : i \in 1..N-1 \/ i = N \/ i = N+1
    BY <1>0
  <2>8. SSHKeys!ListKeys(text) = wanted \cup {k}
    <3>1. ASSUME NEW x \in SSHKeys!ListKeys(text) PROVE x \in wanted \cup {k}
      <4>1. PICK i \in 1..N+1 : x \in SSHKeys!KeyOf(text[i])
        BY <1>6 DEF SSHKeys!ListKeys
      <4>2. i \in 1..N-1 => i \in DOMAIN keysFile /\ x \in SSHKeys!KeyOf(keysFile[i])
        BY <1>0, <2>6, <4>1
      <4> QED
        BY <2>2, <2>5, <2>7, <4>1, <4>2 DEF SSHKeys!ListKeys
    <3>2. ASSUME NEW x \in wanted PROVE x \in SSHKeys!ListKeys(text)
      <4>1. PICK i \in 1..N : x \in SSHKeys!KeyOf(keysFile[i])
        BY <1>0, <2>2 DEF SSHKeys!ListKeys
      <4>2. i \in 1..N-1 /\ i \in 1..N+1
        BY <1>0, <2>4, <4>1
      <4> QED
        BY <1>6, <2>6, <4>1, <4>2 DEF SSHKeys!ListKeys
    <3>3. k \in SSHKeys!ListKeys(text)
      BY <1>0, <1>6, <2>5 DEF SSHKeys!ListKeys
    <3> QED
      BY <3>1, <3>2, <3>3
  <2>9. OneLineEach(text)
    <3> SUFFICES ASSUME NEW i \in 1..N+1, NEW j \in 1..N+1, NEW x,
                        x \in SSHKeys!KeyOf(text[i]), x \in SSHKeys!KeyOf(text[j])
                 PROVE  i = j
      BY <1>6 DEF OneLineEach
    <3>1. i # N+1 /\ j # N+1
      BY <2>5
    <3>2. CASE i = N \/ j = N
      BY <2>5, <2>6, <2>7, <3>1, <3>2
    <3>3. CASE i \in 1..N-1 /\ j \in 1..N-1
      <4>1. i \in DOMAIN keysFile /\ j \in DOMAIN keysFile
        BY <1>0, <3>3
      <4> QED
        BY <2>2, <2>6, <3>3, <4>1 DEF OneLineEach
    <3> QED
      BY <2>7, <3>1, <3>2, <3>3
  <2> QED
    BY <2>8, <2>9
<1> QED
  BY <1>7, <1>8, <1>9, <1>10 DEF KeysInv

(* os.WriteFile empties the file first. *)
LEMMA TruncateKeepsKeys ==
  ASSUME KeysInv, NEW h \in Handlers, SSHKeys!Truncate(h)
  PROVE  KeysInv'
<1>1. /\ pc[h] = "truncate" /\ keysFile' = <<<<>>>> /\ UNCHANGED <<wanted, joined, disturbed>>
      /\ SSHKeys!Become(h, "write", req[h])
  BY DEF SSHKeys!Truncate
<1>2. /\ DOMAIN pc' = Handlers /\ DOMAIN req' = Handlers
      /\ pc'[h] = "write" /\ req'[h] = req[h]
      /\ \A g \in Handlers : g # h => pc'[g] = pc[g] /\ req'[g] = req[g]
  BY <1>1, KeysBecome DEF KeysInv
<1>3. <<<<>>>> \in Seq(KeyLine) /\ Len(<<<<>>>>) = 1 /\ 1 \in 1..MaxLines
  BY BoundsAssumption DEF KeyLine
<1>4. KeysTypes'
  <2>1. pc' \in [Handlers -> {"idle", "append", "truncate", "write"}]
    BY <1>1 DEF SSHKeys!Become, KeysInv, KeysTypes
  <2>2. keysFile' \in Seq(KeyLine) /\ Len(keysFile') \in 1..MaxLines
    BY <1>1, <1>3
  <2> QED
    BY <1>1, <1>2, <2>1, <2>2 DEF KeysInv, KeysTypes
<1>5. ~disturbed' => OneRequest'
  BY <1>1, <1>2 DEF KeysInv, OneRequest
<1>6. ASSUME ~disturbed', ~joined', NEW g \in Handlers PROVE KeysKnown(g)'
  <2>1. CASE g = h
    BY <1>1, <1>2, <1>6, <2>1 DEF KeysInv, KeysKnown
  <2>2. CASE g # h
    BY <1>1, <1>2, <1>6, <2>2, AloneKnows
  <2> QED
    BY <2>1, <2>2
<1>7. SSHKeys!AuthorizedAsAsked'
  BY <1>2 DEF SSHKeys!AuthorizedAsAsked
<1> QED
  BY <1>4, <1>5, <1>6, <1>7 DEF KeysInv

(* What the write leaves is what was kept, when nothing was appended meanwhile. *)
LEMMA WriteKeepsKeys ==
  ASSUME KeysInv, NEW h \in Handlers, SSHKeys!Write(h)
  PROVE  KeysInv'
<1> DEFINE kept == req[h].kept
           N == Len(kept)
           scrap == SSHKeys!Front(kept) \o <<SSHKeys!Last(kept) \o <<"scrap">>, <<>>>>
<1>1. /\ pc[h] = "write" /\ wanted' = wanted \ {req[h].key} /\ UNCHANGED <<joined, disturbed>>
      /\ keysFile' = kept \/ (keysFile # <<<<>>>> /\ N < MaxLines /\ keysFile' = scrap)
      /\ SSHKeys!Become(h, "idle", SSHKeys!NoRequest)
  BY DEF SSHKeys!Write, SSHKeys!Reply
<1> HIDE DEF scrap, N
<1>0. MaxLines \in Nat /\ kept \in Seq(KeyLine) /\ N \in 1..MaxLines
  BY <1>1, BoundsAssumption DEF KeysInv, KeysTypes, N
<1>2. /\ DOMAIN pc' = Handlers /\ DOMAIN req' = Handlers
      /\ pc'[h] = "idle" /\ req'[h] = SSHKeys!NoRequest
      /\ \A g \in Handlers : g # h => pc'[g] = pc[g] /\ req'[g] = req[g]
  BY <1>1, KeysBecome DEF KeysInv
<1>3. scrap \in Seq(KeyLine) /\ Len(scrap) = N + 1
  <2> HIDE DEF kept
  <2>1. kept[N] \in KeyLine /\ kept[N] \o <<"scrap">> \in KeyLine
    <3>1. kept[N] \in KeyLine
      BY <1>0, ElementOfSeq DEF N
    <3> QED
      BY <3>1 DEF KeyLine
  <2> DEFINE line == SSHKeys!Last(kept) \o <<"scrap">>
             a == SSHKeys!Front(kept)
             b == <<line, <<>>>>
  <2>2. a \in Seq(KeyLine) /\ Len(a) = N - 1
    <3>1. \A i \in 1..N-1 : kept[i] \in KeyLine
      BY <1>0, ElementOfSeq DEF N
    <3>2. /\ SubSeq(kept, 1, N-1) \in Seq(KeyLine)
          /\ Len(SubSeq(kept, 1, N-1)) = IF 1 <= N-1 THEN N-1-1+1 ELSE 0
      BY <1>0, <3>1, SubSeqProperties
    <3>3. a = SubSeq(kept, 1, N-1)
      BY DEF SSHKeys!Front, N
    <3>4. (IF 1 <= N-1 THEN N-1-1+1 ELSE 0) = N - 1
      BY <1>0
    <3> HIDE DEF a
    <3> QED
      BY <3>2, <3>3, <3>4
  <2>3. line \in KeyLine
    BY <2>1 DEF SSHKeys!Last, N
  <2> HIDE DEF line
  <2>4. b \in Seq(KeyLine) /\ Len(b) = 2
    BY <2>3 DEF KeyLine
  <2>5. scrap = a \o b
    BY DEF scrap, line
  <2> HIDE DEF a, b
  <2>6. a \o b \in Seq(KeyLine) /\ Len(a \o b) = Len(a) + Len(b)
    BY <2>2, <2>4, ConcatProperties
  <2> QED
    BY <1>0, <2>2, <2>4, <2>5, <2>6
<1>4. KeysTypes'
  <2>1. pc' \in [Handlers -> {"idle", "append", "truncate", "write"}]
    BY <1>1 DEF SSHKeys!Become, KeysInv, KeysTypes
  <2>2. keysFile' \in Seq(KeyLine) /\ Len(keysFile') \in 1..MaxLines
    <3>1. CASE keysFile' = kept
      BY <1>0, <3>1 DEF N
    <3>2. CASE N < MaxLines /\ keysFile' = scrap
      <4>1. N + 1 \in 1..MaxLines
        BY <1>0, <3>2
      <4> QED
        BY <1>3, <3>2, <4>1
    <3> QED
      BY <1>1, <3>1, <3>2
  <2>3. wanted' \subseteq Keys
    BY <1>1 DEF KeysInv, KeysTypes
  <2> QED
    BY <1>1, <1>2, <2>1, <2>2, <2>3 DEF KeysInv, KeysTypes
<1>5. ~disturbed' => OneRequest'
  BY <1>1, <1>2 DEF KeysInv, OneRequest
<1>6. ~disturbed' => \A g \in Handlers : KeysKnown(g)'
  BY <1>1, <1>2, AloneKnows DEF KeysKnown
<1>7. SSHKeys!AuthorizedAsAsked'
  <2> SUFFICES ASSUME ~disturbed, ~joined
               PROVE  SSHKeys!ListKeys(keysFile') = wanted' /\ OneLineEach(keysFile')
    BY <1>1 DEF SSHKeys!AuthorizedAsAsked, OneLineEach
  <2>1. keysFile = <<<<>>>> /\ SSHKeys!ListKeys(kept) = wanted' /\ OneLineEach(kept)
    BY <1>1 DEF KeysInv, KeysKnown
  <2> QED
    BY <1>1, <2>1
<1> QED
  BY <1>4, <1>5, <1>6, <1>7 DEF KeysInv

(* A request that fails leaves the file as it was, or empty. *)
LEMMA FailsKeepsKeys ==
  ASSUME KeysInv, NEW h \in Handlers, SSHKeys!Fails(h)
  PROVE  KeysInv'
<1>1. /\ pc[h] # "idle" /\ disturbed' = (disturbed \/ pc[h] = "write")
      /\ UNCHANGED <<keysFile, wanted, joined>>
      /\ SSHKeys!Become(h, "idle", SSHKeys!NoRequest)
  BY DEF SSHKeys!Fails, SSHKeys!Reply
<1>2. /\ DOMAIN pc' = Handlers /\ DOMAIN req' = Handlers
      /\ pc'[h] = "idle" /\ req'[h] = SSHKeys!NoRequest
      /\ \A g \in Handlers : g # h => pc'[g] = pc[g] /\ req'[g] = req[g]
  BY <1>1, KeysBecome DEF KeysInv
<1>3. disturbed' \in BOOLEAN /\ (~disturbed' => ~disturbed /\ pc[h] # "write")
  BY <1>1 DEF KeysInv, KeysTypes
<1>4. KeysTypes'
  <2>1. pc' \in [Handlers -> {"idle", "append", "truncate", "write"}]
    BY <1>1 DEF SSHKeys!Become, KeysInv, KeysTypes
  <2> QED
    BY <1>1, <1>2, <1>3, <2>1 DEF KeysInv, KeysTypes
<1>5. ~disturbed' => OneRequest'
  BY <1>2, <1>3 DEF KeysInv, OneRequest
<1>6. ~disturbed' => \A g \in Handlers : KeysKnown(g)'
  BY <1>1, <1>2, <1>3, AloneKnows DEF KeysKnown
<1>7. SSHKeys!AuthorizedAsAsked'
  BY <1>1, <1>2, <1>3, AloneKnows DEF KeysInv, SSHKeys!AuthorizedAsAsked
<1> QED
  BY <1>4, <1>5, <1>6, <1>7 DEF KeysInv

(* Every step of a request for the keys of a user. *)
LEMMA KeysNext == KeysInv /\ [SSHKeys!Next]_SSHKeys!keyVars => KeysInv'
<1>1. KeysInv /\ UNCHANGED SSHKeys!keyVars => KeysInv'
  BY DEF SSHKeys!keyVars, KeysInv, KeysTypes, OneRequest, KeysKnown, SSHKeys!AuthorizedAsAsked
<1> QED
  BY <1>1, BeginAddKeepsKeys, AppendKeepsKeys, BeginDeleteKeepsKeys, TruncateKeepsKeys,
     WriteKeepsKeys, FailsKeepsKeys DEF SSHKeys!Next

--------------------------------------------------------------------------------
(* Cron jobs. *)

(* The crontab picks lines as everybody does. *)
LEMMA CronLines == \A text, P : Cron!LinesAt(text, P) = LinesAt(text, P)
<1>1. \A P : Cron!Cardinality(P) = Cardinality(P)
  BY DEF Cron!Cardinality, Cardinality
<1>2. \A P, k : Cron!UpTo(P, k) = UpTo(P, k)
  BY DEF Cron!UpTo, UpTo
<1>3. \A P, n : Cron!Nth(P, n) = Nth(P, n)
  BY <1>1, <1>2 DEF Cron!Nth, Nth
<1> QED
  BY <1>1, <1>3 DEF Cron!LinesAt, LinesAt

CronLine == Entries \cup Cron!Other

(* The numbers of the lines that are none of the panel's. *)
OtherNumbers(text) == {i \in DOMAIN text : text[i] \in Cron!Other \ {Cron!Blank}}

(* The numbers of the lines that are this entry. *)
Numbers(text, e) == {i \in DOMAIN text : text[i] = e}

(* What AsAsked says of a text: so many lines of each entry, and those other lines. *)
CronText(text, counts, others) ==
  /\ \A e \in Entries : Cardinality(Numbers(text, e)) = counts[e]
  /\ LinesAt(text, OtherNumbers(text)) = others

(* The crontab counts as everybody does. *)
LEMMA CronCopies == \A text, e : Cron!Copies(text, e) = Cardinality(Numbers(text, e))
BY DEF Cron!Copies, Numbers, Cron!Cardinality, Cardinality

(* The other lines of a text. *)
LEMMA CronOthers == \A text : Cron!Others(text) = LinesAt(text, OtherNumbers(text))
BY CronLines DEF Cron!Others, OtherNumbers

(* An entry is none of the other lines. *)
LEMMA EntryIsNoOther == \A e \in Entries : e \notin Cron!Other /\ e # Cron!Blank
<1>1. {Cron!Blank, "comment", "malformed"} \cap Entries = {}
  BY EntriesAssumption, Zenon DEF Cron!Blank
<1> QED
  BY <1>1 DEF Cron!Other

(* Numbers of lines are finitely many. *)
LEMMA LineNumbers ==
  ASSUME NEW S, NEW text \in Seq(S), NEW P \in SUBSET (DOMAIN text)
  PROVE  P \in SUBSET Nat /\ IsFiniteSet(P)
<1>1. P \in SUBSET (1..Len(text)) /\ Len(text) \in Nat
  BY LenProperties
<1>2. IsFiniteSet(1..Len(text))
  BY <1>1, FS_Interval
<1>3. IsFiniteSet(P)
  BY <1>1, <1>2, FS_Subset
<1> QED
  BY <1>1, <1>3

(* So are those of an entry, and can be counted. *)
LEMMA EntryNumbers ==
  ASSUME NEW S, NEW text \in Seq(S), NEW e
  PROVE  /\ Numbers(text, e) \in SUBSET Nat /\ IsFiniteSet(Numbers(text, e))
         /\ Cardinality(Numbers(text, e)) \in Nat
<1>1. Numbers(text, e) \in SUBSET (DOMAIN text)
  BY DEF Numbers
<1>2. IsFiniteSet(Numbers(text, e))
  BY <1>1, LineNumbers
<1> QED
  BY <1>1, <1>2, LineNumbers, FS_CardinalityType

(* A text with an entry and the rest of its line behind it. *)
LEMMA BehindIt ==
  ASSUME NEW text \in Seq(CronLine), NEW e \in Entries
  PROVE  /\ text \o <<e, Cron!Blank>> \in Seq(CronLine) /\ Len(text \o <<e, Cron!Blank>>) = Len(text) + 2
         /\ \A i \in 1..Len(text)+2 : (text \o <<e, Cron!Blank>>)[i] =
              IF i <= Len(text) THEN text[i] ELSE IF i = Len(text)+1 THEN e ELSE Cron!Blank
<1> DEFINE b == <<e, Cron!Blank>>
           c == text \o b
           n == Len(text)
<1>1. Cron!Blank \in CronLine /\ e \in CronLine
  BY DEF CronLine, Cron!Other
<1>2. b \in Seq(CronLine) /\ Len(b) = 2 /\ b[1] = e /\ b[2] = Cron!Blank
  BY <1>1
<1>3. n \in Nat
  BY LenProperties
<1> HIDE DEF b
<1>4. /\ c \in Seq(CronLine) /\ Len(c) = n + Len(b)
      /\ \A i \in 1..n+Len(b) : c[i] = IF i <= n THEN text[i] ELSE b[i - n]
  BY <1>2, ConcatProperties
<1> HIDE DEF c, n
<1>5. ASSUME NEW i \in 1..n+2
      PROVE  c[i] = IF i <= n THEN text[i] ELSE IF i = n+1 THEN e ELSE Cron!Blank
  <2>1. c[i] = IF i <= n THEN text[i] ELSE b[i - n]
    BY <1>2, <1>4
  <2>2. i <= n \/ i = n+1 \/ i = n+2
    BY <1>3
  <2>3. i = n+1 => ~(i <= n) /\ i - n = 1
    BY <1>3
  <2>4. i = n+2 => ~(i <= n) /\ i - n = 2 /\ i # n+1
    BY <1>3
  <2> QED
    BY <1>2, <2>1, <2>2, <2>3, <2>4
<1>6. Len(c) = n + 2
  BY <1>2, <1>4
<1> QED
  BY <1>4, <1>5, <1>6 DEF b, c, n

(* Add puts the entry behind the last line that is not empty. *)
LEMMA EntryAdded ==
  ASSUME NEW text \in Seq(CronLine), Len(text) > 0, NEW e \in Entries
  PROVE  \E n \in Nat :
           /\ (n = Len(text) /\ text[n] # Cron!Blank) \/ (n = Len(text) - 1 /\ text[n+1] = Cron!Blank)
           /\ Cron!Added(text, e) \in Seq(CronLine) /\ Len(Cron!Added(text, e)) = n + 2
           /\ \A i \in 1..n+2 : Cron!Added(text, e)[i] = IF i <= n THEN text[i]
                                                        ELSE IF i = n+1 THEN e ELSE Cron!Blank
<1> DEFINE L == Len(text)
           front == IF Cron!Last(text) = Cron!Blank THEN Cron!Front(text) ELSE text
           n == IF text[L] = Cron!Blank THEN L - 1 ELSE L
<1>1. L \in Nat \ {0} /\ text \in Seq(CronLine)
  BY LenProperties
<1>2. Cron!Last(text) = text[L]
  BY DEF Cron!Last
<1>3. Cron!Added(text, e) = front \o <<e, Cron!Blank>>
  BY DEF Cron!Added
<1>4. SubSeq(text, 1, L-1) = Cron!Front(text)
  BY DEF Cron!Front
<1>5. \A i \in 1..L : text[i] \in CronLine
  BY ElementOfSeq
<1>6. Len(text) = L
  OBVIOUS
<1> HIDE DEF L
<1>7. CASE text[L] # Cron!Blank
  <2>1. front = text
    BY <1>2, <1>7
  <2> DEFINE c == text \o <<e, Cron!Blank>>
  <2>2. /\ c \in Seq(CronLine) /\ Len(c) = L + 2
        /\ \A i \in 1..L+2 : c[i] = IF i <= L THEN text[i] ELSE IF i = L+1 THEN e ELSE Cron!Blank
    BY <1>1, <1>6, BehindIt
  <2>3. Cron!Added(text, e) = c
    BY <1>3, <2>1
  <2> HIDE DEF c
  <2>4. L \in Nat
    BY <1>1
  <2>5. /\ L = Len(text) /\ text[L] # Cron!Blank
        /\ Cron!Added(text, e) \in Seq(CronLine) /\ Len(Cron!Added(text, e)) = L + 2
        /\ \A i \in 1..L+2 : Cron!Added(text, e)[i] = IF i <= L THEN text[i]
                                                     ELSE IF i = L+1 THEN e ELSE Cron!Blank
    BY <1>6, <1>7, <2>2, <2>3
  <2> WITNESS L \in Nat
  <2> QED
    BY <2>5
<1>8. CASE text[L] = Cron!Blank
  <2> DEFINE t == SubSeq(text, 1, L-1)
  <2>1. front = t /\ n = L - 1
    BY <1>2, <1>4, <1>8
  <2>2. \A i \in 1..L-1 : text[i] \in CronLine
    BY <1>1, <1>5
  <2>3. /\ t \in Seq(CronLine) /\ Len(t) = IF 1 <= L-1 THEN L-1-1+1 ELSE 0
        /\ \A i \in 1..L-1-1+1 : t[i] = text[1+i-1]
    BY <1>1, <2>2, SubSeqProperties
  <2> HIDE DEF t
  <2>4. t \in Seq(CronLine) /\ Len(t) = L-1 /\ \A i \in 1..L-1 : t[i] = text[i]
    BY <1>1, <2>3
  <2>5. L-1 \in Nat /\ (L-1)+1 = L
    BY <1>1
  <2> DEFINE c == t \o <<e, Cron!Blank>>
  <2>6. /\ c \in Seq(CronLine) /\ Len(c) = (L-1) + 2
        /\ \A i \in 1..(L-1)+2 : c[i] = IF i <= L-1 THEN t[i] ELSE IF i = (L-1)+1 THEN e ELSE Cron!Blank
    BY <2>4, BehindIt
  <2>7. Cron!Added(text, e) = c
    BY <1>3, <2>1
  <2> HIDE DEF c
  <2>8. \A i \in 1..(L-1)+2 : c[i] = IF i <= L-1 THEN text[i] ELSE IF i = (L-1)+1 THEN e ELSE Cron!Blank
    BY <2>4, <2>5, <2>6
  <2> QED
    BY <1>6, <1>8, <2>5, <2>6, <2>7, <2>8
<1> QED
  BY <1>7, <1>8

(* Adding an entry: one more of it, and nothing else. *)
LEMMA AddedAsAsked ==
  ASSUME NEW text \in Seq(CronLine), Len(text) > 0, NEW e \in Entries,
         NEW counts \in [Entries -> Nat], NEW others, CronText(text, counts, others)
  PROVE  CronText(Cron!Added(text, e), [counts EXCEPT ![e] = @ + 1], others)
<1> DEFINE L == Len(text)
           new == Cron!Added(text, e)
<1>0. PICK n \in Nat :
           /\ (n = L /\ text[n] # Cron!Blank) \/ (n = L - 1 /\ text[n+1] = Cron!Blank)
           /\ new \in Seq(CronLine) /\ Len(new) = n + 2
           /\ \A i \in 1..n+2 : new[i] = IF i <= n THEN text[i] ELSE IF i = n+1 THEN e ELSE Cron!Blank
  BY EntryAdded
<1>1. L \in Nat /\ DOMAIN text = 1..L /\ DOMAIN new = 1..n+2
  BY <1>0, LenProperties
<1> HIDE DEF L, new
<1>13. n \in {L, L - 1} /\ (n = L - 1 => text[L] = Cron!Blank)
  BY <1>0, <1>1
<1>12. \A i \in 1..n : i \in 1..L /\ i \in 1..n+2 /\ i <= n
  BY <1>1, <1>13
<1>2. \A i \in 1..n : i \in 1..L /\ i \in 1..n+2 /\ new[i] = text[i]
  BY <1>0, <1>12
<1>3. \A i \in 1..L : i \in 1..n \/ text[i] = Cron!Blank
  <2>1. \A i \in 1..L : i \in 1..n \/ (n = L - 1 /\ i = L)
    BY <1>1, <1>13
  <2> QED
    BY <1>13, <2>1
<1>14. n+1 \in 1..n+2 /\ n+2 \in 1..n+2 /\ ~(n+1 <= n) /\ ~(n+2 <= n) /\ n+2 # n+1
  OBVIOUS
<1>4. n+1 \in 1..n+2 /\ n+2 \in 1..n+2 /\ new[n+1] = e /\ new[n+2] = Cron!Blank
  BY <1>0, <1>14
<1>5. \A i \in 1..n+2 : i \in 1..n \/ i = n+1 \/ i = n+2
  OBVIOUS
<1>6. Cron!Blank \notin Entries /\ e \notin Cron!Other /\ e # Cron!Blank
  BY EntryIsNoOther DEF Cron!Other
<1>7. \A d \in Entries : Numbers(new, d) = IF d = e THEN Numbers(text, d) \cup {n+1} ELSE Numbers(text, d)
  BY <1>1, <1>2, <1>3, <1>4, <1>5, <1>6 DEF Numbers
<1>8. n+1 \notin Numbers(text, e)
  BY <1>0, <1>1, <1>6, <1>13 DEF Numbers
<1>9. \A d \in Entries : Cardinality(Numbers(new, d)) = [counts EXCEPT ![e] = @ + 1][d]
  <2>1. ASSUME NEW d \in Entries
        PROVE  IsFiniteSet(Numbers(text, d)) /\ Cardinality(Numbers(text, d)) = counts[d]
    BY EntryNumbers DEF CronText
  <2>2. Cardinality(Numbers(text, e) \cup {n+1}) = counts[e] + 1
    BY <1>8, <2>1, FS_AddElement
  <2> QED
    BY <1>7, <2>1, <2>2
<1>10. LinesAt(new, OtherNumbers(new)) = others
  <2> DEFINE P == OtherNumbers(text)
  <2>1. OtherNumbers(new) = P
    BY <1>1, <1>2, <1>3, <1>4, <1>5, <1>6 DEF OtherNumbers
  <2>2. P \subseteq 1..n
    BY <1>1, <1>3 DEF OtherNumbers
  <2>3. P \in SUBSET Nat /\ IsFiniteSet(P)
    <3>1. P \in SUBSET DOMAIN text
      BY DEF OtherNumbers
    <3> QED
      BY <3>1, LineNumbers
  <2> HIDE DEF P
  <2>4. \A k \in P : new[k] = text[k]
    BY <1>2, <2>2
  <2>5. LinesAt(new, P) = LinesAt(text, P)
    BY <2>3, <2>4, SameLinesInPlace
  <2> QED
    BY <2>1, <2>5 DEF CronText, P
<1> QED
  BY <1>9, <1>10 DEF CronText, new

(* Deleting a line that is an entry: one less, and nothing else. *)
LEMMA DeletedAsAsked ==
  ASSUME NEW text \in Seq(CronLine), NEW n \in DOMAIN text, text[n] \in Entries,
         NEW counts \in [Entries -> Nat], NEW others, CronText(text, counts, others)
  PROVE  /\ Cron!Deleted(text, n) \in Seq(CronLine) /\ Len(Cron!Deleted(text, n)) = Len(text) - 1
         /\ [counts EXCEPT ![text[n]] = @ - 1] \in [Entries -> Nat]
         /\ CronText(Cron!Deleted(text, n), [counts EXCEPT ![text[n]] = @ - 1], others)
<1> DEFINE L == Len(text)
           new == Cron!Deleted(text, n)
           from(k) == IF k < n THEN k ELSE k + 1
<1>1. L \in Nat /\ DOMAIN text = 1..L /\ n \in 1..L
  BY LenProperties
<1>2. /\ new \in Seq(CronLine) /\ Len(new) = L - 1
      /\ \A k \in 1..L-1 : new[k] = IF k < n THEN text[k] ELSE text[k+1]
  <2>1. \A s, i : Cron!RemoveAt(s, i) = Rules!RemoveAt(s, i)
    BY DEF Cron!RemoveAt, Rules!RemoveAt
  <2>2. new = Rules!RemoveAt(text, n)
    BY <2>1 DEF Cron!Deleted
  <2> HIDE DEF new
  <2> QED
    BY <2>2, Removed
<1>3. DOMAIN new = 1..L-1
  BY <1>1, <1>2
<1> HIDE DEF L, new
<1>4. ASSUME NEW k \in 1..L-1 PROVE from(k) \in 1..L /\ from(k) # n /\ new[k] = text[from(k)]
  BY <1>1, <1>2
<1>5. ASSUME NEW k \in 1..L, k # n PROVE \E j \in 1..L-1 : from(j) = k
  <2>1. CASE k < n
    <3>1. k \in 1..L-1 /\ from(k) = k
      BY <1>1, <2>1
    <3> QED
      BY <3>1
  <2>2. CASE k > n
    <3>1. k - 1 \in 1..L-1 /\ from(k-1) = k
      BY <1>1, <2>2
    <3> QED
      BY <3>1
  <2> QED
    BY <1>1, <1>5, <2>1, <2>2
<1>6. ASSUME NEW i \in 1..L-1, NEW j \in 1..L-1
      PROVE  (i < j => from(i) < from(j)) /\ (from(i) = from(j) => i = j)
  BY <1>1
<1> HIDE DEF from
<1>7. ASSUME NEW P \in SUBSET (DOMAIN new), NEW Q \in SUBSET (DOMAIN text \ {n}),
             \A k \in DOMAIN new : k \in P <=> from(k) \in Q
      PROVE  LinesAt(text, Q) = LinesAt(new, P) /\ Cardinality(Q) = Cardinality(P)
  <2> DEFINE g == [k \in P |-> from(k)]
  <2>1. P \subseteq 1..L-1 /\ Q \subseteq 1..L /\ n \notin Q
    BY <1>1, <1>3
  <2>2. P \in SUBSET Nat /\ IsFiniteSet(P) /\ Q \in SUBSET Nat /\ IsFiniteSet(Q)
    <3>1. Q \in SUBSET (DOMAIN text)
      OBVIOUS
    <3> QED
      BY <1>2, <3>1, LineNumbers
  <2>3. \A k \in P : from(k) \in Q
    BY <1>7
  <2>4. \A q \in Q : \E k \in P : from(k) = q
    <3> SUFFICES ASSUME NEW q \in Q PROVE \E k \in P : from(k) = q
      OBVIOUS
    <3>1. PICK k \in 1..L-1 : from(k) = q
      BY <1>5, <2>1
    <3> QED
      BY <1>3, <1>7, <3>1
  <2>5. \A j, k \in P : j < k => from(j) < from(k)
    BY <1>6, <2>1
  <2>6. \A k \in P : text[from(k)] = new[k]
    BY <1>4, <2>1
  <2>7. /\ g \in [P -> Q] /\ \A q \in Q : \E p \in P : g[p] = q
        /\ \A j, k \in P : j < k => g[j] < g[k]
        /\ \A k \in P : text[g[k]] = new[k]
    BY <2>3, <2>4, <2>5, <2>6
  <2> HIDE DEF g
  <2>8. Moved(new, P, text, Q)
    BY <2>7 DEF Moved
  <2>9. LinesAt(text, Q) = LinesAt(new, P)
    BY <2>2, <2>8, SameLines
  <2>10. Cardinality(Q) = Cardinality(P)
    BY <2>2, <2>7, MovedInOrder
  <2> QED
    BY <2>9, <2>10
<1>8. [counts EXCEPT ![text[n]] = @ - 1] \in [Entries -> Nat]
      /\ \A d \in Entries : Cardinality(Numbers(new, d)) = [counts EXCEPT ![text[n]] = @ - 1][d]
  <2>1. ASSUME NEW d \in Entries PROVE Cardinality(Numbers(text, d) \ {n}) = Cardinality(Numbers(new, d))
    <3>1. \A k \in DOMAIN new : k \in Numbers(new, d) <=> from(k) \in Numbers(text, d) \ {n}
      BY <1>1, <1>3, <1>4 DEF Numbers
    <3>2. Numbers(new, d) \in SUBSET (DOMAIN new) /\ Numbers(text, d) \ {n} \in SUBSET (DOMAIN text \ {n})
      BY DEF Numbers
    <3> QED
      BY <1>7, <3>1, <3>2
  <2>2. ASSUME NEW d \in Entries
        PROVE  /\ IsFiniteSet(Numbers(text, d)) /\ Cardinality(Numbers(text, d)) = counts[d]
               /\ counts[d] \in Nat
    BY EntryNumbers DEF CronText
  <2>3. ASSUME NEW d \in Entries, d # text[n] PROVE Numbers(text, d) \ {n} = Numbers(text, d)
    BY <2>3 DEF Numbers
  <2>4. n \in Numbers(text, text[n])
    BY DEF Numbers
  <2>5. Cardinality(Numbers(text, text[n]) \ {n}) = counts[text[n]] - 1
        /\ counts[text[n]] - 1 \in Nat
    <3>1. IsFiniteSet(Numbers(text, text[n]) \ {n})
          /\ Cardinality(Numbers(text, text[n]) \ {n}) = counts[text[n]] - 1
      BY <2>2, <2>4, FS_RemoveElement
    <3> QED
      BY <3>1, FS_CardinalityType
  <2>6. [counts EXCEPT ![text[n]] = @ - 1] \in [Entries -> Nat]
    BY <2>5
  <2> QED
    BY <2>1, <2>2, <2>3, <2>5, <2>6
<1>9. LinesAt(new, OtherNumbers(new)) = others
  <2>1. \A k \in DOMAIN new : k \in OtherNumbers(new) <=> from(k) \in OtherNumbers(text)
    BY <1>1, <1>3, <1>4 DEF OtherNumbers
  <2>2. n \notin OtherNumbers(text)
    BY EntryIsNoOther DEF OtherNumbers
  <2>3. OtherNumbers(new) \in SUBSET (DOMAIN new) /\ OtherNumbers(text) \in SUBSET (DOMAIN text \ {n})
    BY <2>2 DEF OtherNumbers
  <2>4. LinesAt(text, OtherNumbers(text)) = LinesAt(new, OtherNumbers(new))
    BY <1>7, <2>1, <2>3
  <2> QED
    BY <2>4 DEF CronText
<1> QED
  BY <1>2, <1>8, <1>9 DEF CronText, new, L

(* A crontab that is left empty is one with an empty line. *)
LEMMA EmptyAsAsked ==
  ASSUME NEW counts, NEW others, CronText(<<>>, counts, others)
  PROVE  CronText(<<Cron!Blank>>, counts, others)
<1> DEFINE t == <<Cron!Blank>>
           e == <<>>
<1>1. DOMAIN t = {1} /\ t[1] = Cron!Blank /\ DOMAIN e = {}
  OBVIOUS
<1>2. CronText(e, counts, others)
  OBVIOUS
<1> HIDE DEF t, e
<1>3. \A d \in Entries : Numbers(t, d) = {} /\ Numbers(e, d) = {}
  BY <1>1, EntryIsNoOther DEF Numbers
<1>4. OtherNumbers(t) = {} /\ OtherNumbers(e) = {}
  BY <1>1 DEF OtherNumbers
<1>5. LinesAt(t, {}) = LinesAt(e, {})
  BY FS_EmptySet, SameLinesInPlace
<1>6. others = LinesAt(e, {}) /\ \A d \in Entries : Cardinality({}) = counts[d]
  BY <1>2, <1>3, <1>4 DEF CronText
<1> QED
  BY <1>3, <1>4, <1>5, <1>6 DEF CronText, t

CronTypes ==
  /\ table \in Seq(CronLine) /\ Len(table) \in 1..MaxTable
  /\ pc \in [Handlers -> {"idle", "write"}] /\ DOMAIN req = Handlers /\ DOMAIN page = Handlers
  /\ \A b \in Handlers : DOMAIN page[b] \subseteq Nat \ {0} /\ Cron!Range(page[b]) \subseteq Entries
  /\ wanted \in [Entries -> Nat] /\ disturbed \in BOOLEAN

(* What a request has read is a text, and what it is about is there or to come. *)
CronRequest(r) ==
  /\ r.kind \in {"add", "delete"} /\ r.entry \in Entries
  /\ r.read \in Seq(CronLine) /\ Len(r.read) > 0
  /\ r.kind = "delete" => r.line \in DOMAIN r.read

(* The request is alone, and the text is still what it has read. *)
CronAlone(b) ==
  /\ \A c \in Handlers : pc[c] = "write" => c = b
  /\ req[b].read = table

CronInv ==
  /\ CronTypes
  /\ \A b \in Handlers : pc[b] = "write" => CronRequest(req[b]) /\ (~disturbed => CronAlone(b))
  /\ ~disturbed => CronText(table, wanted, original)

(* The first text, by whatever entries it has. *)
LEMMA CronInit == Cron!Init => CronInv
<1> SUFFICES ASSUME Cron!Init PROVE CronInv
  OBVIOUS
<1>1. table \in Seq(CronLine) /\ Len(table) \in 1..3
  <2>0. {Cron!Blank, "comment", "malformed"} \cup Entries \subseteq CronLine
    BY DEF CronLine, Cron!Other
  <2>1. CASE table = <<Cron!Blank>>
    BY <2>0, <2>1
  <2>2. CASE table = <<"comment", "malformed", Cron!Blank>>
    BY <2>0, <2>2
  <2>3. CASE table = <<"comment">>
    BY <2>0, <2>3
  <2>4. ASSUME NEW e \in Entries, table = <<e>> PROVE table \in Seq(CronLine) /\ Len(table) \in 1..3
    BY <2>0, <2>4
  <2> QED
    BY <2>1, <2>2, <2>3, <2>4 DEF Cron!Init
<1>2. Len(table) \in 1..MaxTable
  <2>1. \A l \in 1..3 : l \in 1..MaxTable
    BY BoundsAssumption
  <2> QED
    BY <1>1, <2>1, Zenon
<1>3. DOMAIN page = Handlers /\ \A b \in Handlers : DOMAIN page[b] = {}
  <2>1. DOMAIN <<>> = {}
    OBVIOUS
  <2> QED
    BY <2>1 DEF Cron!Init
<1>6. wanted \in [Entries -> Nat] /\ CronText(table, wanted, original)
  <2>1. /\ wanted = [e \in Entries |-> Cardinality(Numbers(table, e))]
        /\ original = LinesAt(table, OtherNumbers(table))
    BY CronCopies, CronOthers DEF Cron!Init
  <2>2. \A e \in Entries : Cardinality(Numbers(table, e)) \in Nat
    BY <1>1, EntryNumbers
  <2> QED
    BY <2>1, <2>2 DEF CronText
<1>4. CronTypes
  <2>1. \A b \in Handlers : Cron!Range(page[b]) \subseteq Entries
    BY <1>3 DEF Cron!Range
  <2> QED
    BY <1>1, <1>2, <1>3, <1>6, <2>1 DEF Cron!Init, CronTypes
<1>5. \A b \in Handlers : pc[b] # "write"
  BY DEF Cron!Init
<1> QED
  BY <1>4, <1>5, <1>6 DEF CronInv

(* A page has entries, by the numbers of their lines. *)
LEMMA ListKeepsCron ==
  ASSUME CronInv, NEW b \in Handlers, Cron!List(b)
  PROVE  CronInv'
<1> DEFINE new == Cron!Listing(table)
<1>1. page' = [page EXCEPT ![b] = new] /\ UNCHANGED <<table, pc, req, wanted, disturbed, original>>
  BY DEF Cron!List
<1>2. DOMAIN new \subseteq Nat \ {0} /\ Cron!Range(new) \subseteq Entries
  <2>1. DOMAIN new \subseteq DOMAIN table /\ \A i \in DOMAIN new : new[i] \in Entries
    BY DEF Cron!Listing, Cron!Restrict
  <2>2. DOMAIN table = 1..Len(table) /\ Len(table) \in Nat
    BY LenProperties DEF CronInv, CronTypes
  <2> QED
    BY <2>1, <2>2 DEF Cron!Range
<1> HIDE DEF new
<1>3. CronTypes'
  BY <1>1, <1>2 DEF CronInv, CronTypes
<1> QED
  BY <1>1, <1>3 DEF CronInv, CronAlone, CronRequest, CronText, OtherNumbers, Cron!Others

(* crontab -l: from here on the request knows the text as it was. *)
LEMMA BeginKeepsCron ==
  ASSUME CronInv, NEW b \in Handlers, NEW r, Cron!Begin(b, r), CronRequest(r),
         r.read = table
  PROVE  CronInv'
<1>1. /\ pc[b] = "idle" /\ pc' = [pc EXCEPT ![b] = "write"] /\ req' = [req EXCEPT ![b] = r]
      /\ UNCHANGED <<table, page, wanted, original>>
      /\ disturbed' = (disturbed \/ \E c \in Handlers : pc[c] # "idle")
  BY DEF Cron!Begin
<1>2. /\ pc'[b] = "write" /\ req'[b] = r /\ DOMAIN req' = Handlers
      /\ \A c \in Handlers : c # b => pc'[c] = pc[c] /\ req'[c] = req[c]
  BY <1>1 DEF CronInv, CronTypes
<1>3. CronTypes'
  BY <1>1, <1>2 DEF CronInv, CronTypes
<1>4. disturbed' \in BOOLEAN /\ (~disturbed' => ~disturbed /\ \A c \in Handlers : pc[c] = "idle")
  BY <1>1 DEF CronInv, CronTypes
<1>5. ASSUME NEW c \in Handlers, pc'[c] = "write" PROVE CronRequest(req'[c]) /\ (~disturbed' => CronAlone(c)')
  <2>1. CASE c = b
    BY <1>1, <1>2, <1>4, <2>1 DEF CronAlone
  <2>2. CASE c # b
    BY <1>1, <1>2, <1>4, <1>5, <2>2 DEF CronInv
  <2> QED
    BY <2>1, <2>2
<1>6. (~disturbed => CronText(table, wanted, original))'
  BY <1>1, <1>4 DEF CronInv, CronText, OtherNumbers, Cron!Others
<1> QED
  BY <1>3, <1>5, <1>6 DEF CronInv

(* Add begins with any entry. *)
LEMMA BeginAddKeepsCron ==
  ASSUME CronInv, NEW b \in Handlers, Cron!BeginAdd(b)
  PROVE  CronInv'
<1>1. PICK e \in Entries :
        Cron!Begin(b, [kind |-> "add", entry |-> e, line |-> 0, read |-> table])
  BY DEF Cron!BeginAdd
<1> DEFINE r == [kind |-> "add", entry |-> e, line |-> 0, read |-> table]
<1>2. r.kind = "add" /\ r.entry = e /\ r.read = table
  OBVIOUS
<1>3. Cron!Begin(b, r)
  BY <1>1
<1> HIDE DEF r
<1>4. CronRequest(r)
  BY <1>2 DEF CronRequest, CronInv, CronTypes
<1> QED
  BY <1>2, <1>3, <1>4, BeginKeepsCron

(* Delete begins with a line that the page named. *)
LEMMA BeginDeleteKeepsCron ==
  ASSUME CronInv, NEW b \in Handlers, Cron!BeginDelete(b)
  PROVE  CronInv'
<1>1. PICK n \in DOMAIN page[b] :
        /\ n <= Len(table)
        /\ Cron!Begin(b, [kind |-> "delete", entry |-> page[b][n], line |-> n, read |-> table])
  BY DEF Cron!BeginDelete
<1> DEFINE r == [kind |-> "delete", entry |-> page[b][n], line |-> n, read |-> table]
<1>2. r.kind = "delete" /\ r.entry = page[b][n] /\ r.line = n /\ r.read = table
  OBVIOUS
<1>3. Cron!Begin(b, r)
  BY <1>1
<1> HIDE DEF r
<1>4. n \in DOMAIN table /\ page[b][n] \in Entries
  <2>1. n \in Nat \ {0} /\ page[b][n] \in Entries
    BY DEF CronInv, CronTypes, Cron!Range
  <2>2. DOMAIN table = 1..Len(table) /\ Len(table) \in Nat
    BY LenProperties DEF CronInv, CronTypes
  <2> QED
    BY <1>1, <2>1, <2>2
<1>5. CronRequest(r)
  BY <1>2, <1>4 DEF CronRequest, CronInv, CronTypes
<1> QED
  BY <1>2, <1>3, <1>5, BeginKeepsCron

(* A request that is over leaves nothing behind, and undisturbed nobody else is there. *)
LEMMA ReplyKeepsCron ==
  ASSUME CronInv, NEW b \in Handlers, Cron!Reply(b), pc[b] = "write",
         disturbed' \in BOOLEAN, disturbed => disturbed'
  PROVE  /\ pc' \in [Handlers -> {"idle", "write"}] /\ DOMAIN req' = Handlers
         /\ \A c \in Handlers : pc'[c] = "write" => CronRequest(req'[c]) /\ (~disturbed' => CronAlone(c)')
<1>1. /\ pc' \in [Handlers -> {"idle", "write"}] /\ DOMAIN req' = Handlers
      /\ pc'[b] = "idle" /\ \A c \in Handlers : c # b => pc'[c] = pc[c] /\ req'[c] = req[c]
  BY DEF CronInv, CronTypes, Cron!Reply
<1> QED
  BY <1>1 DEF CronInv, CronAlone

(* crontab - takes what the request makes of what it has read. *)
LEMMA WriteKeepsCron ==
  ASSUME CronInv, NEW b \in Handlers, Cron!Write(b)
  PROVE  CronInv'
<1> DEFINE r == req[b]
           edited == Cron!Edited(r)
           next == [wanted EXCEPT ![r.entry] = IF r.kind = "add" THEN @ + 1 ELSE @ - 1]
<1>1. /\ pc[b] = "write" /\ Cron!Reply(b) /\ UNCHANGED <<page, original>>
      /\ table' = IF edited = <<>> THEN <<Cron!Blank>> ELSE edited
      /\ Len(table') <= MaxTable
      /\ wanted' = IF disturbed' THEN [e \in Entries |-> 0] ELSE next
      /\ disturbed' = (disturbed \/ (r.kind = "delete" /\ r.read[r.line] # r.entry))
  BY DEF Cron!Write
<1>2. CronRequest(r) /\ disturbed \in BOOLEAN
      /\ (~disturbed => CronAlone(b) /\ CronText(table, wanted, original))
      /\ wanted \in [Entries -> Nat]
  BY <1>1 DEF CronInv, CronTypes
<1> HIDE DEF r
<1>3. /\ edited \in Seq(CronLine)
      /\ ~disturbed' => next \in [Entries -> Nat] /\ CronText(edited, next, original)
  <2>1. CASE r.kind = "add"
    <3>1. edited = Cron!Added(r.read, r.entry)
      BY <2>1 DEF Cron!Edited
    <3>2. edited \in Seq(CronLine)
      BY <1>2, <3>1, EntryAdded DEF CronRequest
    <3>4. r.entry \in Entries /\ next = [wanted EXCEPT ![r.entry] = @ + 1]
      BY <1>2, <2>1 DEF CronRequest
    <3>5. next \in [Entries -> Nat]
      BY <1>2, <3>4
    <3> HIDE DEF next
    <3>3. ASSUME ~disturbed PROVE CronText(Cron!Added(r.read, r.entry), next, original)
      <4>1. r.read = table /\ CronText(r.read, wanted, original)
        BY <1>2, <2>1, <3>3 DEF CronAlone, r
      <4> QED
        BY <1>2, <3>4, <4>1, AddedAsAsked DEF CronRequest
    <3> HIDE DEF edited
    <3> QED
      BY <1>1, <2>1, <3>1, <3>2, <3>3, <3>5
  <2>2. CASE r.kind = "delete"
    <3>1. edited = Cron!Deleted(r.read, r.line)
      BY <2>2 DEF Cron!Edited
    <3>2. Cron!Deleted(r.read, r.line) \in Seq(CronLine)
      <4>1. \A s, i : Cron!Deleted(s, i) = Rules!RemoveAt(s, i)
        BY DEF Cron!Deleted, Cron!RemoveAt, Rules!RemoveAt
      <4> QED
        BY <1>2, <2>2, <4>1, Removed DEF CronRequest
    <3>3. ASSUME ~disturbed'
          PROVE  next \in [Entries -> Nat] /\ CronText(Cron!Deleted(r.read, r.line), next, original)
      <4>1. r.read[r.line] = r.entry /\ ~disturbed
        BY <1>1, <1>2, <2>2, <3>3
      <4>2. CronText(r.read, wanted, original)
        BY <1>2, <4>1 DEF CronAlone, r
      <4>3. next = [wanted EXCEPT ![r.read[r.line]] = @ - 1]
        BY <2>2, <4>1
      <4> HIDE DEF next
      <4> QED
        BY <1>2, <2>2, <4>1, <4>2, <4>3, DeletedAsAsked DEF CronRequest
    <3> HIDE DEF edited, next
    <3> QED
      BY <1>1, <2>2, <3>1, <3>2, <3>3
  <2> QED
    BY <1>2, <2>1, <2>2 DEF CronRequest
<1> HIDE DEF edited, next
<1>4. disturbed' \in BOOLEAN /\ (disturbed => disturbed')
  BY <1>1, <1>2
<1>5. table' \in Seq(CronLine) /\ Len(table') \in 1..MaxTable
      /\ (~disturbed' => CronText(table', wanted', original))
  <2>0. MaxTable \in Nat
    BY BoundsAssumption
  <2>1. CASE edited = <<>>
    <3> DEFINE t == <<Cron!Blank>>
    <3>1. t \in Seq(CronLine) /\ Len(t) = 1
      BY DEF CronLine, Cron!Other
    <3>2. ~disturbed' => CronText(t, wanted', original)
      BY <1>1, <1>3, <2>1, EmptyAsAsked
    <3>3. table' = t /\ 1 \in 1..MaxTable
      BY <1>1, <2>1, BoundsAssumption
    <3> HIDE DEF t
    <3> QED
      BY <3>1, <3>2, <3>3
  <2>2. CASE edited # <<>>
    <3>1. table' = edited /\ Len(edited) \in Nat \ {0}
      BY <1>1, <1>3, <2>2, EmptySeq
    <3> QED
      BY <1>1, <1>3, <2>0, <3>1
  <2> QED
    BY <2>1, <2>2
<1>6. wanted' \in [Entries -> Nat]
  BY <1>1, <1>3
<1>7. CronTypes'
  BY <1>1, <1>4, <1>5, <1>6, ReplyKeepsCron DEF CronInv, CronTypes
<1>8. (~disturbed => CronText(table, wanted, original))'
  BY <1>1, <1>5 DEF CronText, OtherNumbers, Cron!Others
<1> QED
  BY <1>1, <1>4, <1>7, <1>8, ReplyKeepsCron DEF CronInv

(* Every step of a page and of its requests. *)
LEMMA CronNext == CronInv /\ [Cron!Next]_Cron!cronVars => CronInv'
<1>1. ASSUME CronInv, NEW b \in Handlers, Cron!Fails(b) PROVE CronInv'
  <2>1. pc[b] = "write" /\ Cron!Reply(b) /\ UNCHANGED <<table, page, wanted, disturbed, original>>
    BY <1>1 DEF Cron!Fails
  <2>2. disturbed' \in BOOLEAN /\ (disturbed => disturbed')
    BY <1>1, <2>1 DEF CronInv, CronTypes
  <2>3. CronTypes'
    BY <1>1, <2>1, <2>2, ReplyKeepsCron DEF CronInv, CronTypes
  <2>4. (~disturbed => CronText(table, wanted, original))'
    BY <1>1, <2>1 DEF CronInv, CronText, OtherNumbers, Cron!Others
  <2> QED
    BY <1>1, <2>1, <2>2, <2>3, <2>4, ReplyKeepsCron DEF CronInv
<1>2. CronInv /\ UNCHANGED Cron!cronVars => CronInv'
  BY DEF Cron!cronVars, CronInv, CronTypes, CronAlone, CronRequest, CronText, OtherNumbers,
         Cron!Others
<1> QED
  BY <1>1, <1>2, ListKeepsCron, BeginAddKeepsCron, BeginDeleteKeepsCron, WriteKeepsCron
     DEF Cron!Next

(* The invariant says what the runs check. *)
LEMMA CronInvSays == CronInv => Cron!AsAsked
<1>1. \A e \in Entries : Cron!Copies(table, e) = Cardinality(Numbers(table, e))
  BY CronCopies
<1>2. Cron!Others(table) = LinesAt(table, OtherNumbers(table))
  BY CronOthers
<1> QED
  BY <1>1, <1>2 DEF CronInv, CronText, Cron!AsAsked

--------------------------------------------------------------------------------
(* The copy of the panel's database. *)

LogFrame == [page : Copies!Pages, version : 1..MaxCommits, salt : Nat, last : BOOLEAN]
Database == [Copies!Pages -> 0..MaxCommits]

(* A set of numbers up to n has a largest one. *)
LEMMA Largest ==
  ASSUME NEW n \in Nat, NEW P \in SUBSET (0..n), P # {}
  PROVE  \E i \in P : \A j \in P : j <= i
<1> DEFINE Bound == {m \in Nat : \A j \in P : j <= m}
<1>1. n \in Bound
  OBVIOUS
<1>2. PICK m \in Bound : \A k \in Bound : <<k, m>> \notin OpToRel(<, Nat)
  <2>1. IsWellFoundedOn(OpToRel(<, Nat), Nat)
    BY NatLessThanWellFounded
  <2> QED
    BY <1>1, <2>1, WFMin
<1>3. m \in P
  <2> SUFFICES ASSUME m \notin P PROVE FALSE
    OBVIOUS
  <2>1. PICK j \in P : TRUE
    OBVIOUS
  <2>2. j <= m /\ j # m /\ j \in Nat
    OBVIOUS
  <2>3. m - 1 \in Bound /\ m - 1 < m
    BY <2>2
  <2> QED
    BY <1>2, <2>3 DEF OpToRel
<1> QED
  BY <1>3

(* The last frame that ends a transaction decides, whatever comes behind it. *)
DecidedBy(frames, salt, upto) ==
  /\ upto \in 0..Len(frames)
  /\ \A i \in 1..upto : frames[i].salt = salt
  /\ upto = 0 \/ frames[upto].last
  /\ \A n \in 1..Len(frames) :
       frames[n].last /\ (\A i \in 1..n : frames[i].salt = salt) => n <= upto

(* What page p is after the first e frames, of a database where it was v. *)
PageAfter(frames, e, p, v, w) ==
  LET to == {i \in 1..e : frames[i].page = p}
  IN \/ to = {} /\ w = v
     \/ \E i \in to : (\A j \in to : j <= i) /\ w = frames[i].version

(* The frames up to the last that ends a transaction are what a page is recovered from. *)
LEMMA RecoveredIs ==
  ASSUME NEW db, NEW salt, NEW frames \in Seq(LogFrame), NEW upto, DecidedBy(frames, salt, upto)
  PROVE  /\ DOMAIN Copies!Recovered(db, salt, frames) = Copies!Pages
         /\ Copies!Recovered(db, salt, frames) = [p \in Copies!Pages |-> Copies!Recovered(db, salt, frames)[p]]
         /\ \A p \in Copies!Pages :
              PageAfter(frames, upto, p, db[p], Copies!Recovered(db, salt, frames)[p])
<1> DEFINE N == Len(frames)
           valid(n) == n <= N /\ \A i \in 1..n : frames[i].salt = salt
           ends == {n \in 1..N : valid(n) /\ frames[n].last}
           final == IF ends = {} THEN 0 ELSE CHOOSE n \in ends : \A m \in ends : m <= n
           newest(p) == {i \in 1..final : frames[i].page = p}
           R == Copies!Recovered(db, salt, frames)
<1>0. N \in Nat
  BY LenProperties
<1>1. R = [p \in Copies!Pages |->
             IF newest(p) = {} THEN db[p]
             ELSE frames[CHOOSE i \in newest(p) : \A j \in newest(p) : j <= i].version]
  BY DEF Copies!Recovered
<1>2. /\ upto \in 0..N /\ \A i \in 1..upto : frames[i].salt = salt
      /\ upto = 0 \/ frames[upto].last
      /\ \A n \in 1..N : frames[n].last /\ (\A i \in 1..n : frames[i].salt = salt) => n <= upto
  BY DEF DecidedBy
<1> HIDE DEF R, N
<1>3. final = upto
  <2>1. upto # 0 => upto \in ends
    BY <1>0, <1>2
  <2>2. \A n \in ends : n <= upto /\ n \in Nat /\ n # 0
    BY <1>0, <1>2
  <2>3. CASE upto = 0
    <3>1. ends = {}
      BY <2>2, <2>3
    <3> QED
      BY <2>3, <3>1
  <2>4. CASE upto # 0
    <3>1. ends # {} /\ upto \in ends
      BY <2>1, <2>4
    <3> HIDE DEF ends
    <3>2. final \in ends /\ upto <= final
      BY <2>2, <3>1
    <3> QED
      BY <1>0, <1>2, <2>2, <3>2
  <2> QED
    BY <2>3, <2>4
<1> HIDE DEF final, ends
<1>4. ASSUME NEW p \in Copies!Pages PROVE PageAfter(frames, upto, p, db[p], R[p])
  <2>1. newest(p) = {i \in 1..upto : frames[i].page = p}
    BY <1>3
  <2>2. CASE newest(p) = {}
    BY <1>1, <2>1, <2>2 DEF PageAfter
  <2>3. CASE newest(p) # {}
    <3>1. newest(p) \in SUBSET (0..N)
      BY <1>0, <1>2, <2>1
    <3>2. \E i \in newest(p) : \A j \in newest(p) : j <= i
      BY <1>0, <2>3, <3>1, Largest
    <3> DEFINE i == CHOOSE i \in newest(p) : \A j \in newest(p) : j <= i
    <3>3. R[p] = frames[i].version
      BY <1>1, <2>3
    <3> HIDE DEF newest
    <3>4. i \in newest(p) /\ \A j \in newest(p) : j <= i
      BY <3>2
    <3> QED
      BY <2>1, <3>3, <3>4 DEF PageAfter
  <2> QED
    BY <2>2, <2>3
<1>5. DOMAIN R = Copies!Pages /\ R = [p \in Copies!Pages |-> R[p]]
  BY <1>1
<1> QED
  BY <1>4, <1>5 DEF R

(* Some frame, or none, decides. *)
LEMMA SomeDecides ==
  ASSUME NEW salt, NEW frames \in Seq(LogFrame)
  PROVE  \E upto : DecidedBy(frames, salt, upto)
<1> DEFINE N == Len(frames)
           ends == {n \in 1..N : frames[n].last /\ \A i \in 1..n : frames[i].salt = salt}
<1>1. N \in Nat
  BY LenProperties
<1> HIDE DEF N
<1>2. CASE ends = {}
  <2>1. DecidedBy(frames, salt, 0)
    BY <1>1, <1>2 DEF DecidedBy, N
  <2> QED
    BY <2>1
<1>3. CASE ends # {}
  <2>1. ends \in SUBSET (0..N)
    BY <1>1
  <2>2. PICK n \in ends : \A m \in ends : m <= n
    <3> HIDE DEF ends
    <3> QED
      BY <1>1, <1>3, <2>1, Largest
  <2>3. DecidedBy(frames, salt, n)
    BY <1>1, <2>2 DEF DecidedBy, N
  <2> QED
    BY <2>3
<1> QED
  BY <1>2, <1>3

(* Frames that stay say the same. *)
LEMMA PageAfterStays ==
  ASSUME NEW s, NEW t, NEW e \in Nat, \A i \in 1..e : s[i] = t[i], NEW p, NEW v, NEW w,
         PageAfter(s, e, p, v, w)
  PROVE  PageAfter(t, e, p, v, w)
<1>1. {i \in 1..e : s[i].page = p} = {i \in 1..e : t[i].page = p}
  OBVIOUS
<1> QED
  BY <1>1 DEF PageAfter

(* A page has one version after the first frames. *)
LEMMA OneVersion ==
  ASSUME NEW frames \in Seq(LogFrame), NEW e \in 0..Len(frames), NEW p, NEW v1, NEW v2, NEW w1, NEW w2,
         PageAfter(frames, e, p, v1, w1), PageAfter(frames, e, p, v2, w2),
         (\A i \in 1..e : frames[i].page # p) => v1 = v2
  PROVE  w1 = w2
<1> DEFINE to == {i \in 1..e : frames[i].page = p}
<1>1. Len(frames) \in Nat
  BY LenProperties
<1>2. CASE to = {}
  BY <1>2 DEF PageAfter
<1>3. CASE to # {}
  <2>1. PICK i \in to : (\A j \in to : j <= i) /\ w1 = frames[i].version
    BY <1>3 DEF PageAfter
  <2>2. PICK k \in to : (\A j \in to : j <= k) /\ w2 = frames[k].version
    BY <1>3 DEF PageAfter
  <2>3. i = k
    <3>1. i <= k /\ k <= i
      BY <2>1, <2>2
    <3>2. i \in Nat /\ k \in Nat
      BY <1>1
    <3> QED
      BY <3>1, <3>2
  <2> QED
    BY <2>1, <2>2, <2>3
<1> QED
  BY <1>2, <1>3

(* A log w behind which the states c have been committed: where a transaction ends,
   the state the log started from, and the one that a transaction has committed. *)
LogTypes(w) == w \in [salt : Nat, frames : Seq(LogFrame), end : Nat] /\ w.end <= Len(w.frames)
LogEnd(w, e) == e = 0 \/ w.frames[e].last
LogBase(w, c) == IF w.end = 0 THEN Len(c) ELSE w.frames[1].version
CommitOf(w, c, e) == IF e = 0 THEN LogBase(w, c) ELSE w.frames[e].version + 1

(* Current frames, and no others, have the log's salt; the frames up to the end of a
   transaction make what it has committed of what the log started from; and later
   transactions have committed later. *)
LogSays(w, c) ==
  /\ \A i \in 1..Len(w.frames) :
       w.frames[i].salt <= w.salt /\ (w.frames[i].salt = w.salt <=> i <= w.end)
  /\ LogBase(w, c) \in 1..Len(c)
  /\ \A e \in 0..w.end : LogEnd(w, e) =>
       /\ CommitOf(w, c, e) \in 1..Len(c)
       /\ \A p \in Copies!Pages :
            PageAfter(w.frames, e, p, c[LogBase(w, c)][p], c[CommitOf(w, c, e)][p])
  /\ \A e, f \in 0..w.end : LogEnd(w, e) /\ LogEnd(w, f) /\ e <= f =>
       CommitOf(w, c, e) <= CommitOf(w, c, f)

(* Pages of db that no transaction up to u has written are as the log found them. *)
FromBase(w, c, db, u) ==
  \A p \in Copies!Pages :
    p \in DOMAIN db /\ (\A i \in 1..u : w.frames[i].page # p) => db[p] = c[LogBase(w, c)][p]

(* u is the end of the last transaction of the log. *)
LastEnd(w, c, u) ==
  /\ LogEnd(w, u) /\ CommitOf(w, c, u) = Len(c)
  /\ \A i \in u+1..w.end : ~w.frames[i].last

(* The copy r began before the transaction that ends at u, and will have its frames. *)
Copied(w, c, r, u) ==
  /\ LogEnd(w, u) /\ u <= r.size /\ r.since <= CommitOf(w, c, u)
  /\ FromBase(w, c, r.db, u)
  /\ \A i \in 1..Len(r.frames) : i <= u => r.frames[i] = w.frames[i]

(* What it has copied as a current frame is one. *)
CopiedCurrent(w, r) ==
  /\ r.salt = w.salt
  /\ \A i \in 1..Len(r.frames) : r.frames[i].salt = r.salt => i <= w.end /\ r.frames[i] = w.frames[i]

(* The log, and what has been committed, have become longer. *)
Longer(w, c, w2, c2) ==
  /\ w2.salt = w.salt /\ w.end <= w2.end /\ \A i \in 1..w.end : w2.frames[i] = w.frames[i]
  /\ LogBase(w2, c2) = LogBase(w, c)
  /\ Len(c) <= Len(c2) /\ \A n \in 1..Len(c) : c2[n] = c[n]

(* What they said of the places that were there before they still say. *)
LEMMA LongerSays ==
  ASSUME NEW w, NEW c \in Seq(Database), NEW w2, NEW c2 \in Seq(Database), LogTypes(w), LogTypes(w2),
         LogSays(w, c), Longer(w, c, w2, c2), NEW e \in 0..w.end
  PROVE  /\ e \in 0..w2.end
         /\ LogEnd(w2, e) <=> LogEnd(w, e)
         /\ CommitOf(w2, c2, e) = CommitOf(w, c, e)
         /\ \A db : FromBase(w2, c2, db, e) <=> FromBase(w, c, db, e)
         /\ \A r : Copied(w, c, r, e) => Copied(w2, c2, r, e)
<1>0. w.end \in Nat /\ w2.end \in Nat /\ Len(c) \in Nat /\ Len(w.frames) \in Nat /\ w.end <= w2.end
  BY LenProperties DEF LogTypes, Longer
<1>1. e \in 0..w2.end
  BY <1>0
<1>2. LogEnd(w2, e) <=> LogEnd(w, e)
  BY <1>0 DEF LogEnd, Longer
<1>3. CommitOf(w2, c2, e) = CommitOf(w, c, e)
  BY <1>0 DEF CommitOf, Longer
<1>4. ASSUME NEW db PROVE FromBase(w2, c2, db, e) <=> FromBase(w, c, db, e)
  <2>1. c2[LogBase(w2, c2)] = c[LogBase(w, c)]
    BY DEF Longer, LogSays
  <2>2. \A i \in 1..e : w2.frames[i] = w.frames[i]
    BY <1>0 DEF Longer
  <2> QED
    BY <2>1, <2>2 DEF FromBase
<1>5. ASSUME NEW r, Copied(w, c, r, e) PROVE Copied(w2, c2, r, e)
  <2>1. \A i \in 1..Len(r.frames) : i <= e => r.frames[i] = w2.frames[i]
    <3> SUFFICES ASSUME NEW i \in 1..Len(r.frames), i <= e PROVE r.frames[i] = w2.frames[i]
      OBVIOUS
    <3>1. r.frames[i] = w.frames[i]
      BY <1>5 DEF Copied
    <3>2. i \in 1..w.end
      BY <1>0
    <3> QED
      BY <3>1, <3>2 DEF Longer
  <2> QED
    BY <1>2, <1>3, <1>4, <1>5, <2>1 DEF Copied
<1> QED
  BY <1>1, <1>2, <1>3, <1>4, <1>5

(* A whole copy has a committed state that is none from before it began. *)
LEMMA CopyIsCommitted ==
  ASSUME NEW w, NEW c \in Seq(Database), LogTypes(w), LogSays(w, c), NEW r,
         r.frames \in Seq(LogFrame), Len(r.frames) = r.size, r.since \in Nat, DOMAIN r.db = Copies!Pages,
         CopiedCurrent(w, r), NEW u \in 0..w.end, Copied(w, c, r, u)
  PROVE  \E n \in r.since..Len(c) : Copies!Recovered(r.db, r.salt, r.frames) = c[n]
<1> DEFINE N == Len(r.frames)
           R == Copies!Recovered(r.db, r.salt, r.frames)
<1>0. /\ w.end \in Nat /\ w.salt \in Nat /\ Len(c) \in Nat /\ N \in Nat /\ Len(w.frames) \in Nat
      /\ w.end <= Len(w.frames) /\ w.frames \in Seq(LogFrame) /\ u \in Nat /\ u <= w.end
  BY LenProperties DEF LogTypes
<1>1. PICK e : DecidedBy(r.frames, r.salt, e)
  BY SomeDecides
<1>2. /\ e \in 0..N /\ \A i \in 1..e : r.frames[i].salt = r.salt
      /\ e = 0 \/ r.frames[e].last
      /\ \A n \in 1..N : r.frames[n].last /\ (\A i \in 1..n : r.frames[i].salt = r.salt) => n <= e
  BY <1>1 DEF DecidedBy
<1>3. DOMAIN R = Copies!Pages /\ \A p \in Copies!Pages : PageAfter(r.frames, e, p, r.db[p], R[p])
  BY <1>1, RecoveredIs
<1>4. R = [p \in Copies!Pages |-> R[p]]
  BY <1>1, RecoveredIs
<1>5. /\ r.salt = w.salt
      /\ \A i \in 1..N : r.frames[i].salt = r.salt => i <= w.end /\ r.frames[i] = w.frames[i]
  BY DEF CopiedCurrent
<1>6. /\ LogEnd(w, u) /\ u <= N /\ r.since <= CommitOf(w, c, u)
      /\ FromBase(w, c, r.db, u) /\ \A i \in 1..N : i <= u => r.frames[i] = w.frames[i]
  BY DEF Copied
<1> HIDE DEF N, R
<1>7. u <= e
  <2> SUFFICES ASSUME u # 0 PROVE u <= e
    BY <1>0, <1>2
  <2>1. u \in 1..N /\ r.frames[u].last
    BY <1>0, <1>6 DEF LogEnd
  <2>2. \A i \in 1..u : r.frames[i].salt = r.salt
    <3> SUFFICES ASSUME NEW i \in 1..u PROVE r.frames[i].salt = r.salt
      OBVIOUS
    <3>1. i \in 1..Len(w.frames) /\ i <= w.end /\ i \in 1..N /\ i <= u
      BY <1>0, <1>6
    <3>2. w.frames[i].salt = w.salt /\ r.frames[i] = w.frames[i]
      BY <1>6, <3>1 DEF LogSays
    <3> QED
      BY <1>5, <3>2
  <2> QED
    BY <1>2, <2>1, <2>2
<1>8. e \in Nat /\ e <= w.end /\ \A i \in 1..e : r.frames[i] = w.frames[i]
  <2>1. \A i \in 1..e : i \in 1..N /\ i <= w.end /\ r.frames[i] = w.frames[i]
    BY <1>0, <1>2, <1>5
  <2>2. e \in Nat /\ (e # 0 => e \in 1..e)
    BY <1>0, <1>2
  <2>3. e <= w.end
    BY <1>0, <2>1, <2>2
  <2> QED
    BY <2>1, <2>2, <2>3
<1>9. e \in 0..w.end /\ LogEnd(w, e)
  BY <1>0, <1>2, <1>8 DEF LogEnd
<1> DEFINE n == CommitOf(w, c, e)
<1>10. /\ n \in 1..Len(c) /\ CommitOf(w, c, u) \in 1..Len(c) /\ CommitOf(w, c, u) <= n
       /\ \A p \in Copies!Pages : PageAfter(w.frames, e, p, c[LogBase(w, c)][p], c[n][p])
  BY <1>6, <1>7, <1>9 DEF LogSays
<1> HIDE DEF n
<1>11. n \in r.since..Len(c)
  BY <1>0, <1>6, <1>10
<1>12. ASSUME NEW p \in Copies!Pages PROVE R[p] = c[n][p]
  <2>1. PageAfter(w.frames, e, p, r.db[p], R[p])
    BY <1>3, <1>8, PageAfterStays
  <2>2. (\A i \in 1..e : w.frames[i].page # p) => r.db[p] = c[LogBase(w, c)][p]
    <3> SUFFICES ASSUME \A i \in 1..e : w.frames[i].page # p PROVE r.db[p] = c[LogBase(w, c)][p]
      OBVIOUS
    <3>1. \A i \in 1..u : w.frames[i].page # p
      BY <1>0, <1>2, <1>7
    <3> QED
      BY <1>6, <3>1 DEF FromBase
  <2>3. e \in 0..Len(w.frames)
    BY <1>0, <1>9
  <2>4. PageAfter(w.frames, e, p, c[LogBase(w, c)][p], c[n][p])
    BY <1>10
  <2> QED
    BY <1>0, <2>1, <2>2, <2>3, <2>4, OneVersion
<1>13. c[n] \in Database
  BY <1>0, <1>10, ElementOfSeq
<1>14. R = c[n]
  BY <1>4, <1>12, <1>13 DEF Database
<1> QED
  BY <1>11, <1>14 DEF R

CopySteps == {"idle", "db", "stat", "wal", "done", "failed"}
CopyRequests == [since : Nat, db : Seq(0..MaxCommits), salt : Nat, size : Nat, frames : Seq(LogFrame)]

CopyTypes ==
  /\ dbFile \in Database /\ LogTypes(wal) /\ writing \in Seq(LogFrame)
  /\ checkpoint \subseteq Copies!Pages
  /\ commits \in Seq(Database) /\ Len(commits) \in 1..MaxCommits + 1
  /\ pc \in CopySteps /\ req \in CopyRequests /\ moved \in BOOLEAN
  /\ Len(req.db) <= NumPages /\ Len(req.frames) <= req.size /\ req.since <= Len(commits)
  /\ pc # "idle" => req.since > 0
  /\ pc = "db" => Len(req.db) < NumPages
  /\ pc \in {"db", "stat"} => Len(req.frames) = 0
  /\ pc \in {"stat", "wal"} => Len(req.db) = NumPages
  /\ pc = "wal" => req.size <= Len(wal.frames)

(* The frames that are still to be written are of the log and of the next commit, and
   the last of them says so. *)
WritingOn(frames, salt) ==
  \A i \in 1..Len(frames) :
    /\ frames[i].salt = salt /\ frames[i].version = Len(commits)
    /\ frames[i].last <=> i = Len(frames)

(* What the database's file and the copy of it lack of what has been committed is in
   the log. *)
InTheLog ==
  \E u \in 0..wal.end :
    /\ LastEnd(wal, commits, u) /\ FromBase(wal, commits, dbFile, u)
    /\ pc \in {"db", "stat"} /\ ~moved => FromBase(wal, commits, req.db, u)

LogCopied ==
  pc = "wal" /\ ~moved => CopiedCurrent(wal, req) /\ \E u \in 0..wal.end : Copied(wal, commits, req, u)

CopyInv ==
  /\ CopyTypes /\ LogSays(wal, commits) /\ WritingOn(writing, wal.salt)
  /\ InTheLog /\ LogCopied /\ Copies!RestoresCommitted

(* The first state is committed, and the log is empty. *)
LEMMA CopyInit == Copies!Init => CopyInv
<1> SUFFICES ASSUME Copies!Init PROVE CopyInv
  OBVIOUS
<1>1. /\ dbFile = [p \in Copies!Pages |-> 0] /\ commits = <<dbFile>>
      /\ wal = [salt |-> 0, frames |-> <<>>, end |-> 0] /\ writing = <<>> /\ checkpoint = {}
      /\ pc = "idle" /\ req = [since |-> 0, db |-> <<>>, salt |-> 0, size |-> 0, frames |-> <<>>]
      /\ moved = FALSE
  BY DEF Copies!Init, Copies!NoCopy
<1>2. dbFile \in Database
  BY <1>1, BoundsAssumption DEF Database
<1>3. commits \in Seq(Database) /\ Len(commits) = 1 /\ commits[1] = dbFile
  BY <1>1, <1>2
<1>4. /\ wal.salt = 0 /\ wal.end = 0 /\ Len(wal.frames) = 0 /\ LogTypes(wal)
      /\ writing \in Seq(LogFrame) /\ Len(writing) = 0
  BY <1>1, EmptySeq DEF LogTypes
<1>5. req \in CopyRequests /\ Len(req.db) = 0 /\ Len(req.frames) = 0 /\ req.since = 0 /\ req.size = 0
  BY <1>1, EmptySeq DEF CopyRequests
<1>6. CopyTypes
  <2>1. pc = "idle" /\ moved = FALSE /\ checkpoint = {}
    BY <1>1
  <2>2. MaxCommits \in Nat /\ NumPages \in Nat
    BY BoundsAssumption
  <2>3. /\ pc \in CopySteps /\ moved \in BOOLEAN /\ checkpoint \subseteq Copies!Pages
        /\ pc = "idle"
    BY <2>1 DEF CopySteps
  <2>4. /\ Len(commits) \in 1..MaxCommits + 1
        /\ Len(req.db) <= NumPages /\ Len(req.frames) <= req.size /\ req.since <= Len(commits)
    BY <1>3, <1>5, <2>2
  <2> QED
    BY <1>2, <1>3, <1>4, <1>5, <2>3, <2>4 DEF CopyTypes
<1>7. LogBase(wal, commits) = 1 /\ CommitOf(wal, commits, 0) = 1 /\ LogEnd(wal, 0)
  BY <1>3, <1>4 DEF LogBase, CommitOf, LogEnd
<1>8. LogSays(wal, commits)
  <2>1. \A p \in Copies!Pages : PageAfter(wal.frames, 0, p, commits[1][p], commits[1][p])
    BY DEF PageAfter
  <2>2. \A e \in 0..wal.end : e = 0
    BY <1>4
  <2> QED
    BY <1>3, <1>4, <1>7, <2>1, <2>2 DEF LogSays
<1>9. InTheLog
  <2>1. 0 \in 0..wal.end /\ LastEnd(wal, commits, 0)
    BY <1>3, <1>4, <1>7 DEF LastEnd
  <2>2. FromBase(wal, commits, dbFile, 0)
    BY <1>3, <1>7 DEF FromBase
  <2> QED
    BY <1>1, <2>1, <2>2 DEF InTheLog
<1> QED
  BY <1>1, <1>4, <1>6, <1>8, <1>9 DEF CopyInv, WritingOn, LogCopied, Copies!RestoresCommitted

(* The database and the current frames make the last committed state. *)
LEMMA CurrentIsLast ==
  ASSUME CopyInv
  PROVE  /\ Copies!Recovered(dbFile, wal.salt, Copies!Current) = commits[Len(commits)]
         /\ commits[Len(commits)] \in Database
<1> DEFINE C == Copies!Current
           R == Copies!Recovered(dbFile, wal.salt, C)
           L == Len(commits)
<1>0. /\ wal.end \in Nat /\ wal.salt \in Nat /\ L \in Nat /\ L >= 1 /\ Len(wal.frames) \in Nat
      /\ wal.end <= Len(wal.frames) /\ wal.frames \in Seq(LogFrame)
      /\ commits \in Seq(Database) /\ dbFile \in Database
  BY LenProperties DEF LogTypes, CopyInv, CopyTypes
<1>1. PICK u \in 0..wal.end : LastEnd(wal, commits, u) /\ FromBase(wal, commits, dbFile, u)
  BY DEF CopyInv, InTheLog
<1>2. C \in Seq(LogFrame) /\ Len(C) = wal.end /\ \A i \in 1..wal.end : C[i] = wal.frames[i]
  <2>1. \A i \in 1..wal.end : wal.frames[i] \in LogFrame
    BY <1>0, ElementOfSeq
  <2>2. C = SubSeq(wal.frames, 1, wal.end)
    BY DEF Copies!Current
  <2>3. C \in Seq(LogFrame) /\ Len(C) = (IF 1 <= wal.end THEN wal.end - 1 + 1 ELSE 0)
    BY <1>0, <2>1, <2>2, SubSeqProperties
  <2>4. \A i \in 1..wal.end-1+1 : C[i] = wal.frames[1+i-1]
    BY <1>0, <2>1, <2>2, SubSeqProperties
  <2> HIDE DEF C
  <2>5. \A i \in 1..wal.end : i \in 1..wal.end-1+1 /\ 1+i-1 = i
    BY <1>0
  <2>6. (IF 1 <= wal.end THEN wal.end - 1 + 1 ELSE 0) = wal.end
    BY <1>0
  <2> QED
    BY <2>3, <2>4, <2>5, <2>6
<1> HIDE DEF C, L
<1>3. \A i \in 1..wal.end : wal.frames[i].salt = wal.salt
  BY <1>0 DEF CopyInv, LogSays
<1>4. u = 0 \/ (u \in 1..wal.end /\ wal.frames[u].last)
  BY <1>0, <1>1 DEF LastEnd, LogEnd
<1>5. \A n \in 1..wal.end : wal.frames[n].last => n <= u
  BY <1>0, <1>1 DEF LastEnd
<1>6. DecidedBy(C, wal.salt, u)
  <2>1. \A i \in 1..u : C[i].salt = wal.salt
    BY <1>0, <1>2, <1>3
  <2> QED
    BY <1>0, <1>2, <1>4, <1>5, <2>1 DEF DecidedBy
<1>7. /\ R = [p \in Copies!Pages |-> R[p]]
      /\ \A p \in Copies!Pages : PageAfter(C, u, p, dbFile[p], R[p])
  BY <1>2, <1>6, RecoveredIs
<1>8. commits[L] \in Database
  <2>1. L \in 1..Len(commits)
    BY <1>0 DEF L
  <2> QED
    BY <1>0, <2>1, ElementOfSeq
<1> HIDE DEF R
<1>9. ASSUME NEW p \in Copies!Pages PROVE R[p] = commits[L][p]
  <2>1. PageAfter(wal.frames, u, p, dbFile[p], R[p])
    <3>1. u \in Nat /\ \A i \in 1..u : C[i] = wal.frames[i]
      BY <1>0, <1>2
    <3> QED
      BY <1>7, <3>1, PageAfterStays
  <2>2. PageAfter(wal.frames, u, p, commits[LogBase(wal, commits)][p], commits[L][p])
    BY <1>1 DEF LastEnd, L, CopyInv, LogSays
  <2>3. (\A i \in 1..u : wal.frames[i].page # p) => dbFile[p] = commits[LogBase(wal, commits)][p]
    BY <1>0, <1>1 DEF FromBase, Database
  <2>4. u \in 0..Len(wal.frames)
    BY <1>0
  <2> QED
    BY <1>0, <2>1, <2>2, <2>3, <2>4, OneVersion
<1>10. R = commits[L]
  BY <1>7, <1>8, <1>9 DEF Database
<1> QED
  BY <1>8, <1>10 DEF R, C, L

(* Where the log and the commits are as they were, or longer, what is in the log is. *)
LEMMA RestoresStays ==
  ASSUME CopyInv, UNCHANGED <<pc, req>>, moved => moved', commits' \in Seq(Database),
         Len(commits) <= Len(commits'), \A n \in 1..Len(commits) : commits'[n] = commits[n]
  PROVE  Copies!RestoresCommitted'
<1> SUFFICES ASSUME pc = "done", ~moved
             PROVE  \E n \in req.since..Len(commits') : Copies!Recovered(req.db, req.salt, req.frames) = commits'[n]
  BY DEF Copies!RestoresCommitted
<1>1. PICK n \in req.since..Len(commits) : Copies!Recovered(req.db, req.salt, req.frames) = commits[n]
  BY DEF CopyInv, Copies!RestoresCommitted
<1>2. n \in 1..Len(commits) /\ n \in req.since..Len(commits')
  <2>1. req.since \in Nat /\ req.since > 0
    BY DEF CopyInv, CopyTypes, CopyRequests
  <2>2. Len(commits) \in Nat /\ Len(commits') \in Nat
    BY LenProperties DEF CopyInv, CopyTypes
  <2> QED
    BY <1>1, <2>1, <2>2
<1> QED
  BY <1>1, <1>2

(* The frames of a transaction. *)
LEMMA FramesAre ==
  ASSUME NEW pages \in SUBSET Copies!Pages, pages # {}, NEW salt \in Nat, Len(commits) \in 1..MaxCommits
  PROVE  Copies!Frames(pages, salt) \in Seq(LogFrame) /\ WritingOn(Copies!Frames(pages, salt), salt)
<1> DEFINE N == Cardinality(pages)
           F == Copies!Frames(pages, salt)
           L == Len(commits)
<1>1. IsFiniteSet(pages) /\ pages \in SUBSET Nat /\ N \in Nat
  <2>1. IsFiniteSet(1..NumPages) /\ pages \subseteq 1..NumPages
    BY BoundsAssumption, FS_Interval DEF Copies!Pages
  <2>2. IsFiniteSet(pages)
    BY <2>1, FS_Subset
  <2> QED
    BY <2>1, <2>2, FS_CardinalityType
<1>2. \A i \in 1..N : Copies!Nth(pages, i) \in pages
  <2>1. \A S : Copies!Cardinality(S) = Cardinality(S)
    BY DEF Copies!Cardinality, Cardinality
  <2>2. \A P, k : Copies!UpTo(P, k) = UpTo(P, k)
    BY DEF Copies!UpTo, UpTo
  <2>3. \A P, n : Copies!Nth(P, n) = Nth(P, n)
    BY <2>1, <2>2 DEF Copies!Nth, Nth
  <2> QED
    BY <1>1, <2>3, NthIsOne
<1>3. F = [i \in 1..N |-> [page |-> Copies!Nth(pages, i), version |-> L, salt |-> salt, last |-> i = N]]
  <2>1. Copies!Cardinality(pages) = N
    BY DEF Copies!Cardinality, Cardinality
  <2> HIDE DEF N
  <2> QED
    BY <2>1 DEF Copies!Frames
<1> HIDE DEF N, L
<1>4. \A i \in 1..N : F[i] = [page |-> Copies!Nth(pages, i), version |-> L, salt |-> salt, last |-> i = N]
  BY <1>3
<1>5. DOMAIN F = 1..N /\ F = [i \in 1..N |-> F[i]]
  BY <1>3
<1>6. \A i \in 1..N : F[i] \in LogFrame
  <2> SUFFICES ASSUME NEW i \in 1..N PROVE F[i] \in LogFrame
    OBVIOUS
  <2> DEFINE b == i = N
             g == Copies!Nth(pages, i)
  <2>1. g \in Copies!Pages /\ L \in 1..MaxCommits /\ b \in BOOLEAN
    BY <1>2 DEF L
  <2>2. F[i] = [page |-> g, version |-> L, salt |-> salt, last |-> b]
    BY <1>4
  <2> HIDE DEF b, g, F
  <2>3. [page |-> g, version |-> L, salt |-> salt, last |-> b] \in LogFrame
    BY <2>1, Zenon DEF LogFrame
  <2> QED
    BY <2>2, <2>3
<1> HIDE DEF F
<1>7. F \in Seq(LogFrame) /\ Len(F) = N
  <2>1. F \in Seq(LogFrame)
    BY <1>1, <1>5, <1>6, SeqDef
  <2> QED
    BY <1>1, <1>5, <2>1, LenProperties
<1>8. \A i \in 1..N : F[i].salt = salt /\ F[i].version = L /\ (F[i].last <=> i = N)
  <2> SUFFICES ASSUME NEW i \in 1..N
               PROVE  F[i].salt = salt /\ F[i].version = L /\ (F[i].last <=> i = N)
    OBVIOUS
  <2> DEFINE b == i = N
             g == Copies!Nth(pages, i)
  <2>1. F[i] = [page |-> g, version |-> L, salt |-> salt, last |-> b]
    BY <1>4
  <2> HIDE DEF b, g
  <2>2. F[i].salt = salt /\ F[i].version = L /\ F[i].last = b
    BY <2>1
  <2> QED
    BY <2>2 DEF b
<1> QED
  BY <1>7, <1>8 DEF F, L, WritingOn

(* A transaction begins where the log ends, or starts it over. *)
LEMMA TransactionKeepsCopy ==
  ASSUME CopyInv, Copies!Transaction
  PROVE  CopyInv'
<1>0. /\ wal \in [salt : Nat, frames : Seq(LogFrame), end : Nat] /\ wal.end <= Len(wal.frames)
      /\ commits \in Seq(Database) /\ Len(commits) \in 1..MaxCommits + 1 /\ moved \in BOOLEAN
      /\ pc \in CopySteps
      /\ wal.salt \in Nat /\ wal.frames \in Seq(LogFrame) /\ Len(wal.frames) \in Nat
  BY LenProperties DEF CopyInv, CopyTypes, LogTypes
<1>1. PICK pages \in (SUBSET Copies!Pages) \ {{}}, over \in BOOLEAN :
        /\ over => Copies!BackFilled /\ wal.end > 0
        /\ wal' = IF over THEN [wal EXCEPT !.salt = wal.salt + 1, !.end = 0] ELSE wal
        /\ writing' = Copies!Frames(pages, IF over THEN wal.salt + 1 ELSE wal.salt)
        /\ moved' = (moved \/ (over /\ Copies!Copying))
  BY DEF Copies!Transaction
<1>2. Len(commits) <= MaxCommits /\ UNCHANGED <<dbFile, checkpoint, commits, pc, req>>
  BY DEF Copies!Transaction
<1>3. wal'.salt = (IF over THEN wal.salt + 1 ELSE wal.salt) /\ wal'.frames = wal.frames
      /\ wal'.salt \in Nat /\ wal'.end = (IF over THEN 0 ELSE wal.end) /\ LogTypes(wal')
  <2>1. CASE over
    <3>1. wal' = [wal EXCEPT !.salt = wal.salt + 1, !.end = 0] /\ wal.salt + 1 \in Nat
      BY <1>0, <1>1, <2>1
    <3>2. wal'.salt = wal.salt + 1 /\ wal'.frames = wal.frames /\ wal'.end = 0
      BY <1>0, <3>1
    <3>3. wal' \in [salt : Nat, frames : Seq(LogFrame), end : Nat]
      BY <1>0, <3>1
    <3> QED
      BY <1>0, <2>1, <3>2, <3>3 DEF LogTypes
  <2>2. CASE ~over
    BY <1>0, <1>1, <2>2 DEF LogTypes
  <2> QED
    BY <2>1, <2>2
<1>4. writing' \in Seq(LogFrame) /\ WritingOn(writing, wal.salt)'
  <2>1. writing' = Copies!Frames(pages, wal'.salt) /\ Len(commits) \in 1..MaxCommits
    BY <1>0, <1>1, <1>2, <1>3
  <2>2. pages \in SUBSET Copies!Pages /\ pages # {}
    OBVIOUS
  <2>3. PICK salt \in Nat : salt = wal'.salt
    BY <1>3
  <2>4. writing' = Copies!Frames(pages, salt)
    BY <2>1, <2>3
  <2>5. writing' \in Seq(LogFrame) /\ WritingOn(writing', salt)
    <3>1. Copies!Frames(pages, salt) \in Seq(LogFrame) /\ WritingOn(Copies!Frames(pages, salt), salt)
      BY <2>1, <2>2, FramesAre
    <3> QED
      BY <2>4, <3>1
  <2> QED
    BY <1>2, <2>3, <2>5 DEF WritingOn
<1>5. CopyTypes'
  BY <1>1, <1>2, <1>3, <1>4 DEF CopyInv, CopyTypes
<1>6. Copies!RestoresCommitted'
  BY <1>0, <1>1, <1>2, RestoresStays
<1>7. (LogSays(wal, commits) /\ InTheLog /\ LogCopied)'
  <2>1. CASE ~over
    <3>1. wal' = wal /\ commits' = commits /\ moved' = moved
      BY <1>0, <1>1, <1>2, <2>1
    <3> QED
      BY <1>2, <3>1 DEF CopyInv, InTheLog, LogCopied
  <2>2. CASE over
    <3>1. wal'.end = 0 /\ LogBase(wal', commits) = Len(commits) /\ LogEnd(wal', 0)
          /\ CommitOf(wal', commits, 0) = Len(commits)
      BY <1>3, <2>2 DEF LogBase, LogEnd, CommitOf
    <3>2. \A i \in 1..Len(wal.frames) : wal.frames[i].salt < wal'.salt
      <4>1. \A i \in 1..Len(wal.frames) : wal.frames[i].salt <= wal.salt /\ wal.frames[i].salt \in Nat
        <5>1. \A i \in 1..Len(wal.frames) : wal.frames[i] \in LogFrame
          BY <1>0, ElementOfSeq
        <5> QED
          BY <5>1 DEF CopyInv, LogSays, LogFrame
      <4> QED
        BY <1>0, <1>3, <2>2, <4>1
    <3>3. LogSays(wal', commits)
      <4>1. \A i \in 1..Len(wal'.frames) :
              wal'.frames[i].salt <= wal'.salt /\ (wal'.frames[i].salt = wal'.salt <=> i <= wal'.end)
        <5> SUFFICES ASSUME NEW i \in 1..Len(wal.frames)
                     PROVE  wal.frames[i].salt <= wal'.salt /\ wal.frames[i].salt # wal'.salt /\ ~(i <= 0)
          BY <1>3, <3>1
        <5>1. wal.frames[i] \in LogFrame /\ wal.frames[i].salt \in Nat
          <6>1. wal.frames[i] \in LogFrame
            BY <1>0, ElementOfSeq
          <6> QED
            BY <6>1 DEF LogFrame
        <5>2. i \in Nat /\ i >= 1
          OBVIOUS
        <5> QED
          BY <1>3, <3>2, <5>1, <5>2
      <4>2. \A e \in 0..wal'.end : e = 0
        BY <3>1
      <4>3. \A p \in Copies!Pages :
              PageAfter(wal'.frames, 0, p, commits[Len(commits)][p], commits[Len(commits)][p])
        BY DEF PageAfter
      <4> QED
        BY <1>0, <3>1, <4>1, <4>2, <4>3 DEF LogSays
    <3>4. dbFile = commits[Len(commits)]
      BY <1>1, <2>2, CurrentIsLast DEF Copies!BackFilled
    <3>5. LastEnd(wal', commits, 0) /\ FromBase(wal', commits, dbFile, 0)
      BY <3>1, <3>4 DEF LastEnd, FromBase
    <3>6. pc \in {"db", "stat", "wal"} => moved'
      BY <1>1, <2>2 DEF Copies!Copying
    <3>7. InTheLog'
      <4>1. 0 \in 0..wal'.end
        BY <3>1
      <4> QED
        BY <1>2, <3>5, <3>6, <4>1 DEF InTheLog
    <3> QED
      BY <1>2, <3>3, <3>6, <3>7 DEF LogCopied
  <2> QED
    BY <2>1, <2>2
<1> QED
  BY <1>4, <1>5, <1>6, <1>7 DEF CopyInv

(* A step that leaves the log and the commits alone, and copies nothing. *)
LEMMA LogLeft ==
  ASSUME CopyInv, UNCHANGED <<wal, commits, writing, pc, req, moved>>, CopyTypes',
         \A u \in 0..wal.end : LastEnd(wal, commits, u) /\ FromBase(wal, commits, dbFile, u) =>
           FromBase(wal, commits, dbFile', u)
  PROVE  CopyInv'
<1>1. LogSays(wal, commits)' /\ WritingOn(writing, wal.salt)' /\ LogCopied'
  BY DEF CopyInv, WritingOn, LogCopied
<1>2. InTheLog'
  BY DEF CopyInv, InTheLog
<1>3. Copies!RestoresCommitted'
  BY DEF CopyInv, Copies!RestoresCommitted
<1> QED
  BY <1>1, <1>2, <1>3 DEF CopyInv

(* A checkpoint begins. *)
LEMMA BeginCheckpointKeepsCopy ==
  ASSUME CopyInv, Copies!BeginCheckpoint
  PROVE  CopyInv'
<1>1. checkpoint' \subseteq Copies!Pages /\ UNCHANGED <<dbFile, wal, writing, commits, pc, req, moved>>
  BY DEF Copies!BeginCheckpoint
<1>2. CopyTypes'
  BY <1>1 DEF CopyInv, CopyTypes
<1> QED
  BY <1>1, <1>2, LogLeft

(* It copies what has been committed last. *)
LEMMA CheckpointPageKeepsCopy ==
  ASSUME CopyInv, Copies!CheckpointPage
  PROVE  CopyInv'
<1>1. PICK p \in checkpoint :
        /\ dbFile' = [dbFile EXCEPT ![p] = Copies!Recovered(dbFile, wal.salt, Copies!Current)[p]]
        /\ checkpoint' = checkpoint \ {p}
  BY DEF Copies!CheckpointPage
<1>2. UNCHANGED <<wal, writing, commits, pc, req, moved>>
  BY DEF Copies!CheckpointPage
<1> DEFINE v == commits[Len(commits)][p]
<1>3. dbFile' = [dbFile EXCEPT ![p] = v] /\ v \in 0..MaxCommits /\ p \in Copies!Pages
  BY <1>1, CurrentIsLast DEF Database, CopyInv, CopyTypes
<1>4. dbFile \in Database
  BY DEF CopyInv, CopyTypes
<1> HIDE DEF v
<1>5. dbFile' \in Database /\ dbFile'[p] = v /\ \A q \in Copies!Pages : q # p => dbFile'[q] = dbFile[q]
  BY <1>3, <1>4 DEF Database
<1>6. CopyTypes'
  BY <1>1, <1>2, <1>5 DEF CopyInv, CopyTypes
<1>7. ASSUME NEW u \in 0..wal.end, LastEnd(wal, commits, u), FromBase(wal, commits, dbFile, u)
      PROVE  FromBase(wal, commits, dbFile', u)
  <2> SUFFICES ASSUME NEW q \in Copies!Pages, \A i \in 1..u : wal.frames[i].page # q
               PROVE  dbFile'[q] = commits[LogBase(wal, commits)][q]
    BY DEF FromBase
  <2>1. CASE q # p
    BY <1>4, <1>5, <1>7, <2>1 DEF FromBase, Database
  <2>2. CASE q = p
    <3>1. PageAfter(wal.frames, u, q, commits[LogBase(wal, commits)][q], commits[CommitOf(wal, commits, u)][q])
      BY <1>7 DEF CopyInv, LogSays, LastEnd
    <3>2. commits[CommitOf(wal, commits, u)][q] = commits[LogBase(wal, commits)][q]
      BY <3>1 DEF PageAfter
    <3> QED
      BY <1>5, <1>7, <2>2, <3>2 DEF LastEnd, v
  <2> QED
    BY <2>1, <2>2
<1> QED
  BY <1>2, <1>6, <1>7, LogLeft

(* The backup begins with the database. *)
LEMMA BeginCopyKeepsCopy ==
  ASSUME CopyInv, Copies!BeginCopy
  PROVE  CopyInv'
<1>0. req' = [Copies!NoCopy EXCEPT !.since = Len(commits)] /\ Len(commits) \in Nat /\ Len(commits) > 0
  BY DEF Copies!BeginCopy, CopyInv, CopyTypes
<1>1. req' = [since |-> Len(commits), db |-> <<>>, salt |-> 0, size |-> 0, frames |-> <<>>]
  BY <1>0 DEF Copies!NoCopy
<1>2. /\ req' \in CopyRequests /\ Len(req'.db) = 0 /\ DOMAIN req'.db = {} /\ Len(req'.frames) = 0
      /\ req'.since = Len(commits) /\ req'.size = 0
  <2>1. <<>> \in Seq(0..MaxCommits) /\ <<>> \in Seq(LogFrame) /\ Len(<<>>) = 0 /\ DOMAIN <<>> = {}
    BY EmptySeq
  <2>2. req' \in CopyRequests
    <3>1. Len(commits) \in Nat /\ 0 \in Nat
      BY <1>0
    <3>2. [since |-> Len(commits), db |-> <<>>, salt |-> 0, size |-> 0, frames |-> <<>>] \in CopyRequests
      BY <2>1, <3>1, Zenon DEF CopyRequests
    <3> QED
      BY <1>1, <3>2
  <2>3. req'.db = <<>> /\ req'.frames = <<>> /\ req'.since = Len(commits) /\ req'.size = 0
    BY <1>1
  <2> QED
    BY <2>1, <2>2, <2>3
<1>3. pc' = "db" /\ UNCHANGED <<dbFile, wal, writing, checkpoint, commits, moved>>
  BY DEF Copies!BeginCopy, Copies!sqlite
<1>4. CopyTypes'
  BY <1>0, <1>2, <1>3, BoundsAssumption DEF CopyInv, CopyTypes, CopySteps
<1>5. InTheLog'
  BY <1>2, <1>3 DEF CopyInv, InTheLog, FromBase
<1> QED
  BY <1>3, <1>4, <1>5 DEF CopyInv, WritingOn, LogCopied, Copies!RestoresCommitted

(* A page is read from the database's file. *)
LEMMA CopyPageKeepsCopy ==
  ASSUME CopyInv, Copies!CopyPage
  PROVE  CopyInv'
<1> DEFINE N == Len(req.db)
<1>0. /\ req \in CopyRequests /\ req.db \in Seq(0..MaxCommits) /\ N \in Nat /\ N < NumPages /\ NumPages \in Nat
      /\ dbFile \in Database /\ pc = "db"
  BY BoundsAssumption, LenProperties DEF CopyInv, CopyTypes, CopyRequests, Copies!CopyPage
<1>1. /\ req' = [req EXCEPT !.db = Append(req.db, dbFile[N+1])]
      /\ pc' = (IF Len(req'.db) = NumPages THEN "stat" ELSE "db")
      /\ UNCHANGED <<dbFile, wal, writing, checkpoint, commits, moved>>
  BY DEF Copies!CopyPage, Copies!sqlite
<1>2. N+1 \in Copies!Pages /\ dbFile[N+1] \in 0..MaxCommits
  BY <1>0 DEF Copies!Pages, Database
<1> DEFINE more == Append(req.db, dbFile[N+1])
<1>3. /\ more \in Seq(0..MaxCommits) /\ Len(more) = N + 1 /\ more[N+1] = dbFile[N+1]
      /\ \A i \in 1..N : more[i] = req.db[i]
  BY <1>0, <1>2, AppendProperties
<1> HIDE DEF more, N
<1>4. /\ req' \in CopyRequests /\ req'.db = more
      /\ req'.since = req.since /\ req'.size = req.size /\ req'.frames = req.frames
  <2>1. req' = [req EXCEPT !.db = more]
    BY <1>1 DEF more
  <2> QED
    BY <1>0, <1>3, <2>1 DEF CopyRequests
<1>5. pc' \in {"db", "stat"} /\ (pc' = "db" => N + 1 < NumPages) /\ (pc' = "stat" => N + 1 = NumPages)
  BY <1>0, <1>1, <1>3, <1>4
<1>6. CopyTypes'
  BY <1>0, <1>1, <1>3, <1>4, <1>5 DEF CopyInv, CopyTypes, CopySteps
<1>7. InTheLog'
  <2>1. PICK u \in 0..wal.end :
          /\ LastEnd(wal, commits, u) /\ FromBase(wal, commits, dbFile, u)
          /\ ~moved => FromBase(wal, commits, req.db, u)
    BY <1>0 DEF CopyInv, InTheLog
  <2>2. ASSUME ~moved PROVE FromBase(wal, commits, more, u)
    <3>1. DOMAIN more = 1..N+1 /\ DOMAIN req.db = 1..N /\ DOMAIN dbFile = Copies!Pages
      BY <1>0, <1>3, LenProperties DEF N, Database
    <3> SUFFICES ASSUME NEW p \in Copies!Pages, p \in 1..N+1, \A i \in 1..u : wal.frames[i].page # p
                 PROVE  more[p] = commits[LogBase(wal, commits)][p]
      BY <3>1 DEF FromBase
    <3>2. CASE p = N + 1
      BY <1>3, <2>1, <3>1, <3>2 DEF FromBase
    <3>3. CASE p # N + 1
      <4>1. p \in 1..N
        BY <1>0, <3>3
      <4> QED
        BY <1>3, <2>1, <2>2, <3>1, <4>1 DEF FromBase
    <3> QED
      BY <3>2, <3>3
  <2> QED
    BY <1>1, <1>4, <2>1, <2>2 DEF InTheLog
<1> QED
  BY <1>1, <1>5, <1>6, <1>7 DEF CopyInv, WritingOn, LogCopied, Copies!RestoresCommitted

(* The whole database has been read, and what is committed by now has its frames in the
   part of the log that will be. *)
LEMMA CopyHeaderKeepsCopy ==
  ASSUME CopyInv, Copies!CopyHeader
  PROVE  CopyInv'
<1>0. /\ req \in CopyRequests /\ pc = "stat" /\ LogTypes(wal) /\ wal.salt \in Nat
      /\ Len(wal.frames) \in Nat /\ wal.end \in Nat /\ wal.end <= Len(wal.frames) /\ moved \in BOOLEAN
  BY LenProperties DEF CopyInv, CopyTypes, LogTypes, Copies!CopyHeader
<1> DEFINE size == Len(wal.frames)
<1>1. req' = [req EXCEPT !.salt = wal.salt, !.size = size] /\ pc' = "wal"
      /\ UNCHANGED <<dbFile, wal, writing, checkpoint, commits, moved>>
  BY DEF Copies!CopyHeader, Copies!sqlite
<1>2. size \in Nat
  BY <1>0
<1> HIDE DEF size
<1>3. /\ req' \in CopyRequests /\ req'.db = req.db /\ req'.since = req.since
      /\ req'.size = size /\ req'.salt = wal.salt /\ req'.frames = req.frames
  BY <1>0, <1>1, <1>2 DEF CopyRequests
<1>4. CopyTypes'
  BY <1>0, <1>1, <1>2, <1>3 DEF CopyInv, CopyTypes, CopySteps, size
<1>5. InTheLog'
  BY <1>1 DEF CopyInv, InTheLog
<1>6. LogCopied'
  <2> SUFFICES ASSUME ~moved
               PROVE  CopiedCurrent(wal, req') /\ \E u \in 0..wal.end : Copied(wal, commits, req', u)
    BY <1>0, <1>1 DEF LogCopied
  <2>1. PICK u \in 0..wal.end : LastEnd(wal, commits, u) /\ FromBase(wal, commits, req.db, u)
    BY <1>0 DEF CopyInv, InTheLog
  <2>2. 1..Len(req'.frames) = {}
    BY <1>0, <1>3 DEF CopyInv, CopyTypes
  <2>3. CopiedCurrent(wal, req')
    BY <1>3, <2>2 DEF CopiedCurrent
  <2>4. Copied(wal, commits, req', u)
    <3>1. u <= size /\ req.since <= Len(commits)
      BY <1>0 DEF size, CopyInv, CopyTypes
    <3> QED
      BY <1>3, <2>1, <2>2, <3>1 DEF Copied, LastEnd
  <2> QED
    BY <2>3, <2>4
<1> QED
  BY <1>1, <1>4, <1>5, <1>6 DEF CopyInv, WritingOn, Copies!RestoresCommitted

(* A frame is read from the log, or all are that there were. *)
LEMMA CopyFrameKeepsCopy ==
  ASSUME CopyInv, Copies!CopyFrame
  PROVE  CopyInv'
<1> DEFINE N == Len(req.frames)
<1>0. /\ req \in CopyRequests /\ pc = "wal" /\ req.frames \in Seq(LogFrame) /\ req.size \in Nat
      /\ N \in Nat /\ N <= req.size /\ req.size <= Len(wal.frames)
      /\ wal.salt \in Nat /\ wal.frames \in Seq(LogFrame) /\ Len(wal.frames) \in Nat
      /\ wal.end \in Nat /\ wal.end <= Len(wal.frames) /\ moved \in BOOLEAN /\ LogTypes(wal)
  BY LenProperties DEF CopyInv, CopyTypes, CopyRequests, LogTypes, Copies!CopyFrame
<1>1. UNCHANGED <<dbFile, wal, writing, checkpoint, commits, moved>>
  BY DEF Copies!CopyFrame, Copies!sqlite
<1>2. InTheLog'
  <2>1. pc' \in {"wal", "done", "failed"}
    BY <1>0 DEF Copies!CopyFrame
  <2> QED
    BY <1>1, <2>1 DEF CopyInv, InTheLog
<1>3. CASE N + 1 <= req.size
  <2> DEFINE f == wal.frames[N+1]
             more == Append(req.frames, f)
  <2>1. req' = [req EXCEPT !.frames = more] /\ UNCHANGED pc
    BY <1>3 DEF Copies!CopyFrame
  <2>2. f \in LogFrame /\ N + 1 \in 1..Len(wal.frames)
    <3>1. N + 1 \in 1..Len(wal.frames)
      BY <1>0, <1>3
    <3> QED
      BY <1>0, <3>1, ElementOfSeq
  <2> HIDE DEF f
  <2>3. more \in Seq(LogFrame) /\ Len(more) = N + 1 /\ more[N+1] = f /\ \A i \in 1..N : more[i] = req.frames[i]
    BY <1>0, <2>2, AppendProperties
  <2> HIDE DEF more, N
  <2>4. /\ req' \in CopyRequests /\ req'.frames = more
        /\ req'.since = req.since /\ req'.size = req.size /\ req'.db = req.db /\ req'.salt = req.salt
    BY <1>0, <2>1, <2>3 DEF CopyRequests
  <2>5. CopyTypes'
    BY <1>0, <1>1, <1>3, <2>1, <2>3, <2>4 DEF CopyInv, CopyTypes
  <2>6. ASSUME NEW i \in 1..Len(req'.frames)
        PROVE  (i \in 1..Len(req.frames) /\ req'.frames[i] = req.frames[i]) \/ (i = N + 1 /\ req'.frames[i] = f)
    BY <1>0, <2>3, <2>4 DEF N
  <2>7. LogCopied'
    <3> SUFFICES ASSUME ~moved
                 PROVE  CopiedCurrent(wal, req') /\ \E u \in 0..wal.end : Copied(wal, commits, req', u)
      BY <1>0, <1>1 DEF LogCopied
    <3>1. CopiedCurrent(wal, req)
      BY <1>0 DEF CopyInv, LogCopied
    <3>2. PICK u \in 0..wal.end : Copied(wal, commits, req, u)
      BY <1>0 DEF CopyInv, LogCopied
    <3>3. f.salt = wal.salt => N + 1 <= wal.end
      BY <2>2 DEF f, CopyInv, LogSays
    <3>4. CopiedCurrent(wal, req')
      BY <2>4, <2>6, <3>1, <3>3 DEF CopiedCurrent, f
    <3>5. Copied(wal, commits, req', u)
      BY <2>4, <2>6, <3>2 DEF Copied, f
    <3> QED
      BY <3>4, <3>5
  <2> QED
    BY <1>0, <1>1, <1>2, <2>1, <2>5, <2>7 DEF CopyInv, WritingOn, Copies!RestoresCommitted
<1>4. CASE ~(N + 1 <= req.size)
  <2>1. pc' \in {"done", "failed"} /\ UNCHANGED req
    BY <1>4 DEF Copies!CopyFrame
  <2>2. CopyTypes'
    BY <1>0, <1>1, <2>1 DEF CopyInv, CopyTypes, CopySteps
  <2>3. Copies!RestoresCommitted'
    <3> SUFFICES ASSUME ~moved
                 PROVE  \E n \in req.since..Len(commits) :
                          Copies!Recovered(req.db, req.salt, req.frames) = commits[n]
      BY <1>1, <2>1 DEF Copies!RestoresCommitted
    <3>1. CopiedCurrent(wal, req)
      BY <1>0 DEF CopyInv, LogCopied
    <3>2. PICK u \in 0..wal.end : Copied(wal, commits, req, u)
      BY <1>0 DEF CopyInv, LogCopied
    <3>3. Len(req.frames) = req.size
      BY <1>0, <1>4
    <3>4. req.since \in Nat /\ DOMAIN req.db = Copies!Pages
      BY <1>0, LenProperties DEF CopyInv, CopyTypes, CopyRequests, Copies!Pages
    <3>5. LogSays(wal, commits) /\ commits \in Seq(Database)
      BY DEF CopyInv, CopyTypes
    <3> QED
      BY <1>0, <3>1, <3>2, <3>3, <3>4, <3>5, CopyIsCommitted
  <2> QED
    BY <1>1, <1>2, <2>1, <2>2, <2>3 DEF CopyInv, WritingOn, LogCopied
<1> QED
  BY <1>3, <1>4

(* The log with one frame more. *)
LEMMA FrameWritten ==
  ASSUME CopyInv, Copies!WriteFrame
  PROVE  /\ LogTypes(wal') /\ wal'.salt = wal.salt /\ wal'.end = wal.end + 1
         /\ Len(wal'.frames) >= Len(wal.frames)
         /\ \A i \in 1..Len(wal'.frames) : i # wal.end + 1 =>
              i \in 1..Len(wal.frames) /\ wal'.frames[i] = wal.frames[i]
         /\ wal'.frames[wal.end+1] = writing[1] /\ Len(writing) >= 1
<1> DEFINE N == Len(wal.frames)
           E == wal.end
           f == Head(writing)
           put == Copies!Put(wal.frames, E + 1, f)
<1>0. /\ wal \in [salt : Nat, frames : Seq(LogFrame), end : Nat] /\ E \in Nat /\ N \in Nat /\ E <= N
      /\ wal.frames \in Seq(LogFrame) /\ writing \in Seq(LogFrame) /\ writing # <<>>
  BY LenProperties DEF CopyInv, CopyTypes, LogTypes, Copies!WriteFrame
<1>1. wal' = [wal EXCEPT !.frames = put, !.end = E + 1]
  BY DEF Copies!WriteFrame
<1>2. Len(writing) \in Nat /\ Len(writing) >= 1 /\ f = writing[1] /\ f \in LogFrame
  <2>1. Len(writing) \in Nat /\ Len(writing) # 0
    BY <1>0, LenProperties, EmptySeq
  <2>2. f = writing[1]
    BY <1>0, HeadTailProperties
  <2> HIDE DEF f
  <2>3. 1 \in 1..Len(writing)
    BY <2>1
  <2> QED
    BY <1>0, <2>1, <2>2, <2>3, ElementOfSeq
<1> HIDE DEF f
<1>3. /\ put \in Seq(LogFrame) /\ put[E+1] = f /\ Len(put) >= N
      /\ \A i \in 1..Len(put) : i # E + 1 => i \in 1..N /\ put[i] = wal.frames[i]
      /\ E + 1 <= Len(put)
  <2>1. CASE E + 1 > N
    <3>1. put = Append(wal.frames, f) /\ E = N
      BY <1>0, <2>1 DEF Copies!Put
    <3>0. wal.frames \in Seq(LogFrame) /\ f \in LogFrame
      BY <1>0, <1>2
    <3> HIDE DEF put, E
    <3>2. /\ put \in Seq(LogFrame) /\ Len(put) = N + 1 /\ put[N+1] = f
          /\ \A i \in 1..N : put[i] = wal.frames[i]
      BY <3>0, <3>1, AppendProperties
    <3> HIDE DEF N
    <3> QED
      BY <1>0, <3>1, <3>2
  <2>2. CASE E + 1 <= N
    <3>1. put = [wal.frames EXCEPT ![E+1] = f] /\ E + 1 \in 1..N
      BY <1>0, <2>2 DEF Copies!Put
    <3>2. put \in Seq(LogFrame) /\ Len(put) = N /\ put[E+1] = f /\ \A i \in 1..N : i # E+1 => put[i] = wal.frames[i]
      BY <1>0, <1>2, <3>1, ExceptSeq
    <3> HIDE DEF put, N, E
    <3> QED
      BY <1>0, <2>2, <3>2
  <2> QED
    BY <1>0, <2>1, <2>2
<1> HIDE DEF put
<1>4. wal'.frames = put /\ wal'.end = E + 1 /\ wal'.salt = wal.salt
      /\ wal' \in [salt : Nat, frames : Seq(LogFrame), end : Nat]
  <2> DEFINE e == E + 1
  <2>1. e \in Nat /\ put \in Seq(LogFrame) /\ wal \in [salt : Nat, frames : Seq(LogFrame), end : Nat]
    BY <1>0, <1>3
  <2>2. wal' = [wal EXCEPT !.frames = put, !.end = e]
    BY <1>1
  <2> HIDE DEF e
  <2>3. wal'.frames = put /\ wal'.end = e /\ wal'.salt = wal.salt
    BY <2>1, <2>2
  <2>4. wal' \in [salt : Nat, frames : Seq(LogFrame), end : Nat]
    BY <2>1, <2>2
  <2> QED
    BY <2>3, <2>4 DEF e
<1>5. LogTypes(wal')
  BY <1>3, <1>4 DEF LogTypes
<1> QED
  BY <1>2, <1>3, <1>4, <1>5

(* A frame is written, and the last one commits. *)
LEMMA WriteFrameKeepsCopy ==
  ASSUME CopyInv, Copies!WriteFrame
  PROVE  CopyInv'
<1> DEFINE E == wal.end + 1
           L == Len(commits)
           B == LogBase(wal, commits)
<1>0. /\ LogTypes(wal) /\ wal.frames \in Seq(LogFrame) /\ Len(wal.frames) \in Nat
      /\ wal.end \in Nat /\ wal.end <= Len(wal.frames) /\ wal.salt \in Nat
      /\ writing \in Seq(LogFrame) /\ writing # <<>> /\ commits \in Seq(Database) /\ L \in Nat /\ L >= 1
      /\ dbFile \in Database /\ moved \in BOOLEAN /\ L <= MaxCommits + 1 /\ MaxCommits \in Nat
  BY LenProperties, BoundsAssumption DEF CopyInv, CopyTypes, LogTypes, Copies!WriteFrame
<1>1. /\ LogTypes(wal') /\ wal'.salt = wal.salt /\ wal'.end = E /\ Len(wal'.frames) >= Len(wal.frames)
      /\ \A i \in 1..Len(wal'.frames) : i # E => i \in 1..Len(wal.frames) /\ wal'.frames[i] = wal.frames[i]
      /\ wal'.frames[E] = writing[1] /\ Len(writing) >= 1
  BY FrameWritten
<1>2. /\ writing' = Tail(writing) /\ UNCHANGED <<dbFile, checkpoint, pc, req, moved>>
      /\ writing' # <<>> => commits' = commits
      /\ writing' = <<>> =>
           commits' = Append(commits, Copies!Recovered(dbFile, wal'.salt, SubSeq(wal'.frames, 1, wal'.end)))
  BY DEF Copies!WriteFrame
<1>3. /\ writing' \in Seq(LogFrame) /\ Len(writing) \in Nat /\ Len(writing') = Len(writing) - 1
      /\ \A i \in 1..Len(writing') : writing'[i] = writing[i+1]
      /\ writing' = <<>> <=> Len(writing) = 1
  <2>1. /\ writing' \in Seq(LogFrame) /\ Len(writing') = Len(writing) - 1
        /\ \A i \in 1..Len(writing') : writing'[i] = writing[i+1]
    BY <1>0, <1>2, HeadTailProperties
  <2>2. Len(writing) \in Nat /\ (writing' = <<>> <=> Len(writing') = 0)
    BY <1>0, <2>1, LenProperties, EmptySeq
  <2> QED
    BY <2>1, <2>2
<1>4. /\ writing[1].salt = wal.salt /\ writing[1].version = L /\ (writing[1].last <=> writing' = <<>>)
      /\ writing[1] \in LogFrame
  <2>1. 1 \in 1..Len(writing)
    BY <1>1, <1>3
  <2> QED
    BY <1>0, <1>3, <2>1, ElementOfSeq DEF CopyInv, WritingOn
<1>5. wal'.frames \in Seq(LogFrame) /\ Len(wal'.frames) \in Nat /\ E \in Nat /\ E <= Len(wal'.frames) /\ E >= 1
  BY <1>0, <1>1, LenProperties DEF LogTypes
<1> DEFINE R == Copies!Recovered(dbFile, wal'.salt, SubSeq(wal'.frames, 1, wal'.end))
<1>6. PICK u \in 0..wal.end :
        /\ LastEnd(wal, commits, u) /\ FromBase(wal, commits, dbFile, u)
        /\ pc \in {"db", "stat"} /\ ~moved => FromBase(wal, commits, req.db, u)
  BY DEF CopyInv, InTheLog
<1>7. LogSays(wal, commits)
  BY DEF CopyInv
<1>8. \A i \in 1..wal.end : wal'.frames[i] = wal.frames[i] /\ i # E
  BY <1>0, <1>1, <1>5
<1>9. LogBase(wal', commits) = B /\ B \in 1..L /\ \A c : wal'.end # 0 => LogBase(wal', c) = LogBase(wal', commits)
  <2>1. wal'.end # 0 /\ LogBase(wal', commits) = wal'.frames[1].version
    BY <1>1, <1>5 DEF LogBase
  <2>2. CASE wal.end = 0
    <3>1. E = 1 /\ wal'.frames[1].version = L /\ B = L
      BY <1>1, <1>4, <2>2 DEF LogBase
    <3> QED
      BY <1>0, <2>1, <3>1 DEF LogBase
  <2>3. CASE wal.end # 0
    <3>1. 1 \in 1..wal.end /\ B = wal.frames[1].version
      BY <1>0, <2>3 DEF LogBase
    <3> QED
      BY <1>7, <1>8, <2>1, <3>1 DEF LogBase, LogSays
  <2> QED
    BY <2>2, <2>3
<1>10. L \in 1..MaxCommits
  BY <1>0, <1>4 DEF LogFrame
<1>11. ASSUME writing' = <<>>
       PROVE  R \in Database /\ \A p \in Copies!Pages : PageAfter(wal'.frames, E, p, dbFile[p], R[p])
  <2> DEFINE C == SubSeq(wal'.frames, 1, wal'.end)
  <2>1. C \in Seq(LogFrame) /\ Len(C) = E /\ \A i \in 1..E : C[i] = wal'.frames[i]
    <3>1. \A i \in 1..E : wal'.frames[i] \in LogFrame
      BY <1>5, ElementOfSeq
    <3> HIDE DEF E
    <3>2. PICK frames \in Seq(LogFrame) : frames = wal'.frames
      BY <1>5
    <3>7. C = SubSeq(frames, 1, E) /\ 1 \in 1..Len(frames)+1 /\ E \in 1-1..Len(frames)
      BY <1>1, <1>5, <3>2
    <3> HIDE DEF C
    <3>3. C \in Seq(LogFrame) /\ Len(C) = (IF 1 <= E THEN E - 1 + 1 ELSE 0)
      BY <3>1, <3>2, <3>7, SubSeqProperties
    <3>4. \A i \in 1..E-1+1 : C[i] = wal'.frames[1+i-1]
      BY <3>1, <3>2, <3>7, SubSeqProperties
    <3>5. \A i \in 1..E : i \in 1..E-1+1 /\ 1+i-1 = i
      BY <1>5
    <3>6. (IF 1 <= E THEN E - 1 + 1 ELSE 0) = E
      BY <1>5
    <3> QED
      BY <3>3, <3>4, <3>5, <3>6
  <2>2. \A i \in 1..E : wal'.frames[i].salt = wal.salt
    <3> SUFFICES ASSUME NEW i \in 1..E PROVE wal'.frames[i].salt = wal.salt
      OBVIOUS
    <3>1. CASE i = E
      BY <1>1, <1>4, <3>1
    <3>2. CASE i # E
      <4>1. i \in 1..wal.end /\ i \in 1..Len(wal.frames) /\ i <= wal.end
        BY <1>0, <3>2
      <4> QED
        BY <1>7, <1>8, <4>1 DEF LogSays
    <3> QED
      BY <3>1, <3>2
  <2> HIDE DEF C
  <2>3. DecidedBy(C, wal'.salt, E)
    <3>1. E \in 0..Len(C) /\ \A n \in 1..Len(C) : n <= E
      BY <1>5, <2>1
    <3>2. C[E].last
      BY <1>1, <1>4, <1>5, <1>11, <2>1
    <3>3. \A i \in 1..E : C[i].salt = wal'.salt
      BY <1>1, <2>1, <2>2
    <3> QED
      BY <3>1, <3>2, <3>3 DEF DecidedBy
  <2>4. PICK salt, frames : salt = wal'.salt /\ frames = C
    OBVIOUS
  <2>5. /\ R = [p \in Copies!Pages |-> R[p]]
        /\ \A p \in Copies!Pages : PageAfter(C, E, p, dbFile[p], R[p])
    <3>1. /\ Copies!Recovered(dbFile, salt, frames) = [p \in Copies!Pages |-> Copies!Recovered(dbFile, salt, frames)[p]]
          /\ \A p \in Copies!Pages : PageAfter(frames, E, p, dbFile[p], Copies!Recovered(dbFile, salt, frames)[p])
      BY <2>1, <2>3, <2>4, RecoveredIs
    <3> QED
      BY <2>4, <3>1 DEF C
  <2> HIDE DEF R
  <2>6. ASSUME NEW p \in Copies!Pages
        PROVE  PageAfter(wal'.frames, E, p, dbFile[p], R[p]) /\ R[p] \in 0..MaxCommits
    <3>1. PageAfter(C, E, p, dbFile[p], R[p])
      BY <2>5
    <3>2. PageAfter(wal'.frames, E, p, dbFile[p], R[p])
      BY <1>5, <2>1, <3>1, PageAfterStays
    <3>3. dbFile[p] \in 0..MaxCommits
      BY <1>0 DEF Database
    <3>4. \A i \in 1..E : C[i] \in LogFrame
      BY <2>1, ElementOfSeq
    <3>5. R[p] \in 0..MaxCommits
      BY <3>1, <3>3, <3>4 DEF PageAfter, LogFrame
    <3> QED
      BY <3>2, <3>5
  <2> QED
    BY <2>5, <2>6 DEF Database
<1> HIDE DEF R
<1>12. /\ commits' \in Seq(Database) /\ Len(commits') \in 1..MaxCommits+1 /\ L <= Len(commits')
       /\ \A n \in 1..L : commits'[n] = commits[n]
       /\ writing' # <<>> => Len(commits') = L
       /\ writing' = <<>> => Len(commits') = L + 1 /\ commits'[L+1] = R
  <2>1. CASE writing' # <<>>
    BY <1>0, <1>2, <1>10, <2>1
  <2>2. CASE writing' = <<>>
    <3>1. commits' = Append(commits, R) /\ R \in Database
      BY <1>2, <1>11, <2>2 DEF R
    <3>2. /\ commits' \in Seq(Database) /\ Len(commits') = L + 1 /\ commits'[L+1] = R
          /\ \A n \in 1..L : commits'[n] = commits[n]
      BY <1>0, <3>1, AppendProperties
    <3> HIDE DEF L
    <3> QED
      BY <1>0, <1>10, <2>2, <3>2
  <2> QED
    BY <2>1, <2>2
<1>13. wal'.end # 0 /\ LogBase(wal', commits') = B
  BY <1>1, <1>5, <1>9
<1>14. Longer(wal, commits, wal', commits')
  BY <1>0, <1>1, <1>8, <1>12, <1>13 DEF Longer
<1>15. \A e \in 0..wal.end :
         /\ LogEnd(wal', e) <=> LogEnd(wal, e)
         /\ CommitOf(wal', commits', e) = CommitOf(wal, commits, e)
         /\ \A db : FromBase(wal', commits', db, e) <=> FromBase(wal, commits, db, e)
         /\ \A r : Copied(wal, commits, r, e) => Copied(wal', commits', r, e)
  BY <1>0, <1>1, <1>7, <1>12, <1>14, LongerSays
<1>16. (LogEnd(wal', E) <=> writing' = <<>>) /\ CommitOf(wal', commits', E) = L + 1
  BY <1>1, <1>4, <1>5 DEF LogEnd, CommitOf
<1>17. \A e \in 0..wal'.end : e \in 0..wal.end \/ e = E
  BY <1>0, <1>1
<1> HIDE DEF E, L, B
<1>18. ASSUME NEW db, NEW e \in 0..wal.end, FromBase(wal, commits, db, e)
       PROVE  FromBase(wal', commits', db, E)
  <2>1. FromBase(wal', commits', db, e)
    BY <1>15, <1>18
  <2>2. \A i \in 1..e : i \in 1..E
    BY <1>0, <1>5 DEF E
  <2> QED
    BY <2>1, <2>2 DEF FromBase
<1>19. LogSays(wal', commits')
  <2>1. \A i \in 1..Len(wal'.frames) :
          wal'.frames[i].salt <= wal'.salt /\ (wal'.frames[i].salt = wal'.salt <=> i <= wal'.end)
    <3> SUFFICES ASSUME NEW i \in 1..Len(wal'.frames)
                 PROVE  wal'.frames[i].salt <= wal.salt /\ (wal'.frames[i].salt = wal.salt <=> i <= wal'.end)
      BY <1>1
    <3>1. CASE i = E
      BY <1>0, <1>1, <1>4, <1>5, <3>1
    <3>2. CASE i # E
      <4>1. i \in 1..Len(wal.frames) /\ wal'.frames[i] = wal.frames[i]
        BY <1>1, <3>2
      <4>2. wal.frames[i].salt <= wal.salt /\ (wal.frames[i].salt = wal.salt <=> i <= wal.end)
        BY <1>7, <4>1 DEF LogSays
      <4>3. i <= wal.end <=> i <= wal'.end
        BY <1>0, <1>1, <3>2, <4>1 DEF E
      <4> QED
        BY <4>1, <4>2, <4>3
    <3> QED
      BY <3>1, <3>2
  <2>2. LogBase(wal', commits') \in 1..Len(commits') /\ commits'[B] = commits[B]
    BY <1>0, <1>9, <1>12, <1>13
  <2>3. ASSUME NEW e \in 0..wal'.end, LogEnd(wal', e)
        PROVE  /\ CommitOf(wal', commits', e) \in 1..Len(commits')
               /\ \A p \in Copies!Pages :
                    PageAfter(wal'.frames, e, p, commits'[B][p], commits'[CommitOf(wal', commits', e)][p])
    <3>1. CASE e \in 0..wal.end
      <4> DEFINE n == CommitOf(wal, commits, e)
      <4>1. /\ LogEnd(wal, e) /\ CommitOf(wal', commits', e) = n /\ n \in 1..L
            /\ \A p \in Copies!Pages : PageAfter(wal.frames, e, p, commits[B][p], commits[n][p])
        BY <1>7, <1>15, <2>3, <3>1 DEF LogSays, B, L
      <4> HIDE DEF n
      <4>2. commits'[n] = commits[n] /\ n \in 1..Len(commits')
        BY <1>0, <1>12, <4>1
      <4>3. e \in Nat /\ \A i \in 1..e : wal.frames[i] = wal'.frames[i]
        BY <1>0, <1>8, <3>1
      <4>4. ASSUME NEW p \in Copies!Pages
            PROVE  PageAfter(wal'.frames, e, p, commits'[B][p], commits'[n][p])
        <5>1. PageAfter(wal.frames, e, p, commits'[B][p], commits'[n][p])
          BY <2>2, <4>1, <4>2
        <5> QED
          BY <4>3, <5>1, PageAfterStays
      <4> QED
        BY <4>1, <4>2, <4>4
    <3>2. CASE e = E
      <4>1. /\ writing' = <<>> /\ CommitOf(wal', commits', e) = L + 1
            /\ Len(commits') = L + 1 /\ commits'[L+1] = R
        BY <1>12, <1>16, <2>3, <3>2
      <4>2. ASSUME NEW p \in Copies!Pages
            PROVE  PageAfter(wal'.frames, e, p, commits'[B][p], R[p])
        <5>1. PageAfter(wal'.frames, E, p, dbFile[p], R[p])
          BY <1>11, <4>1
        <5>2. (\A i \in 1..E : wal'.frames[i].page # p) => dbFile[p] = commits'[B][p]
          <6>1. FromBase(wal', commits', dbFile, E) /\ DOMAIN dbFile = Copies!Pages
            BY <1>0, <1>6, <1>18 DEF Database
          <6> QED
            BY <1>13, <6>1 DEF FromBase
        <5> QED
          BY <3>2, <5>1, <5>2 DEF PageAfter
      <4>3. L + 1 \in 1..L+1
        BY <1>0
      <4> QED
        BY <4>1, <4>2, <4>3
    <3> QED
      BY <1>17, <3>1, <3>2
  <2>4. ASSUME NEW e \in 0..wal'.end, NEW f \in 0..wal'.end, LogEnd(wal', e), LogEnd(wal', f), e <= f
        PROVE  CommitOf(wal', commits', e) <= CommitOf(wal', commits', f)
    <3>1. CASE e \in 0..wal.end /\ f \in 0..wal.end
      <4>1. CommitOf(wal, commits, e) <= CommitOf(wal, commits, f)
        BY <1>7, <1>15, <2>4, <3>1 DEF LogSays
      <4> QED
        BY <1>15, <3>1, <4>1
    <3>2. CASE f = E
      <4>1. writing' = <<>> /\ Len(commits') = L + 1
        BY <1>12, <1>16, <2>4, <3>2
      <4>2. CommitOf(wal', commits', e) <= L + 1
        BY <1>0, <2>3, <2>4, <4>1
      <4> QED
        BY <1>16, <3>2, <4>2
    <3>3. CASE e = E /\ f \in 0..wal.end
      BY <1>0, <2>4, <3>3 DEF E
    <3> QED
      BY <1>17, <3>1, <3>2, <3>3
  <2> QED
    BY <1>13, <2>1, <2>2, <2>3, <2>4 DEF LogSays
<1>20. InTheLog'
  <2>1. CASE writing' = <<>>
    <3>1. E \in 0..wal'.end /\ E+1..wal'.end = {}
      BY <1>1, <1>5
    <3>2. LastEnd(wal', commits', E)
      BY <1>12, <1>16, <2>1, <3>1 DEF LastEnd
    <3>3. FromBase(wal', commits', dbFile, E) /\ (pc \in {"db", "stat"} /\ ~moved => FromBase(wal', commits', req.db, E))
      BY <1>6, <1>18
    <3> QED
      BY <1>2, <3>1, <3>2, <3>3 DEF InTheLog
  <2>2. CASE writing' # <<>>
    <3>1. u \in 0..wal'.end
      BY <1>0, <1>1 DEF E
    <3>2. LogEnd(wal', u) /\ CommitOf(wal', commits', u) = Len(commits')
      BY <1>6, <1>12, <1>15, <2>2 DEF LastEnd, L
    <3>3. \A i \in u+1..wal'.end : ~wal'.frames[i].last
      <4> SUFFICES ASSUME NEW i \in u+1..wal'.end PROVE ~wal'.frames[i].last
        OBVIOUS
      <4>1. CASE i = E
        BY <1>1, <1>4, <2>2, <4>1
      <4>2. CASE i # E
        <5>1. i \in u+1..wal.end /\ i \in 1..wal.end
          BY <1>0, <1>1, <4>2 DEF E
        <5> QED
          BY <1>6, <1>8, <5>1 DEF LastEnd
      <4> QED
        BY <4>1, <4>2
    <3>4. LastEnd(wal', commits', u)
      BY <3>2, <3>3 DEF LastEnd
    <3>5. FromBase(wal', commits', dbFile, u) /\ (pc \in {"db", "stat"} /\ ~moved => FromBase(wal', commits', req.db, u))
      BY <1>6, <1>15
    <3> QED
      BY <1>2, <3>1, <3>4, <3>5 DEF InTheLog
  <2> QED
    BY <2>1, <2>2
<1>21. LogCopied'
  <2> SUFFICES ASSUME pc = "wal", ~moved
               PROVE  CopiedCurrent(wal', req) /\ \E e \in 0..wal'.end : Copied(wal', commits', req, e)
    BY <1>2 DEF LogCopied
  <2>1. CopiedCurrent(wal, req)
    BY DEF CopyInv, LogCopied
  <2>2. PICK e \in 0..wal.end : Copied(wal, commits, req, e)
    BY DEF CopyInv, LogCopied
  <2>3. Copied(wal', commits', req, e) /\ e \in 0..wal'.end
    BY <1>0, <1>1, <1>15, <2>2 DEF E
  <2>4. CopiedCurrent(wal', req)
    <3> SUFFICES ASSUME NEW i \in 1..Len(req.frames), req.frames[i].salt = req.salt
                 PROVE  i <= wal'.end /\ req.frames[i] = wal'.frames[i]
      BY <1>1, <2>1 DEF CopiedCurrent
    <3>1. i <= wal.end /\ req.frames[i] = wal.frames[i]
      BY <2>1 DEF CopiedCurrent
    <3>2. i \in 1..wal.end /\ i <= wal'.end
      BY <1>0, <1>1, <3>1 DEF E
    <3> QED
      BY <1>8, <3>1, <3>2
  <2> QED
    BY <2>3, <2>4
<1>22. WritingOn(writing, wal.salt)'
  <2> SUFFICES ASSUME NEW i \in 1..Len(writing')
               PROVE  /\ writing'[i].salt = wal.salt /\ writing'[i].version = Len(commits')
                      /\ writing'[i].last <=> i = Len(writing')
    BY <1>1 DEF WritingOn
  <2>1. i + 1 \in 1..Len(writing) /\ writing'[i] = writing[i+1] /\ writing' # <<>>
    BY <1>3
  <2>2. Len(commits') = Len(commits)
    BY <1>12, <2>1 DEF L
  <2>3. i = Len(writing') <=> i + 1 = Len(writing)
    BY <1>3
  <2> QED
    BY <2>1, <2>2, <2>3 DEF CopyInv, WritingOn
<1>23. CopyTypes'
  <2>1. pc = "wal" => req.size <= Len(wal'.frames)
    BY <1>0, <1>1, <1>5 DEF CopyInv, CopyTypes, CopyRequests
  <2>2. req.since <= Len(commits')
    BY <1>0, <1>12 DEF CopyInv, CopyTypes, CopyRequests, L
  <2> QED
    BY <1>1, <1>2, <1>3, <1>12, <2>1, <2>2 DEF CopyInv, CopyTypes
<1>24. Copies!RestoresCommitted'
  BY <1>2, <1>12, RestoresStays DEF L
<1> QED
  BY <1>19, <1>20, <1>21, <1>22, <1>23, <1>24 DEF CopyInv

(* Every step of SQLite and of the backup. *)
LEMMA CopyNext == CopyInv /\ [Copies!Next]_Copies!liveVars => CopyInv'
<1>1. CopyInv /\ UNCHANGED Copies!liveVars => CopyInv'
  BY DEF Copies!liveVars, CopyInv, CopyTypes, WritingOn, InTheLog, LogCopied, Copies!RestoresCommitted
<1> QED
  BY <1>1, TransactionKeepsCopy, WriteFrameKeepsCopy, BeginCheckpointKeepsCopy,
     CheckpointPageKeepsCopy, BeginCopyKeepsCopy, CopyPageKeepsCopy, CopyHeaderKeepsCopy,
     CopyFrameKeepsCopy DEF Copies!Next

--------------------------------------------------------------------------------
(* The host: one component runs, and nothing else does. *)

(* What runs starts from its own initial states. *)
LEMMA RunsInit ==
  Init => /\ active = "network" => Network!Init
          /\ active = "tls" => TLS!Init
          /\ active = "users" => Users!Init
          /\ active = "backups" => Archives!Init
          /\ active = "firewall" => Rules!Init
          /\ active = "keys" => SSHKeys!Init
          /\ active = "crontab" => Cron!Init
          /\ active = "copy" => Copies!Init
  BY DEF Init

(* Every step of the host is one of what runs, or none of its. *)
LEMMA RunsNext ==
  [Next]_vars => /\ active' = active
                 /\ active = "network" => [Network!Next]_Network!networkVars
                 /\ active = "tls" => [TLS!Next]_TLS!tlsVars
                 /\ active = "users" => [Users!Next]_Users!userVars
                 /\ active = "backups" => [Archives!Next]_Archives!backupVars
                 /\ active = "firewall" => [Rules!Next]_Rules!firewallVars
                 /\ active = "keys" => [SSHKeys!Next]_SSHKeys!keyVars
                 /\ active = "crontab" => [Cron!Next]_Cron!cronVars
                 /\ active = "copy" => [Copies!Next]_Copies!liveVars
  BY DEF Next, vars, asked, networkState, tlsState, usersState, archivesState, rulesState,
         keysState, cronState, copyState, Network!networkVars, TLS!tlsVars, Users!userVars, Archives!backupVars,
         Rules!firewallVars, SSHKeys!keyVars, Cron!cronVars, Copies!liveVars

(* SetStatic, SetDHCP and SetDNS, in any number and any order of their steps:
   what the interface has is what a boot would give it, unless the connection
   is being brought up or the last attempt to has failed. *)
THEOREM AppliedIsStored == Spec => []LiveIsStored
<1> DEFINE I == active = "network" => Network!TypeOK /\ Network!LiveIsStored
<1>1. Init => I
  BY RunsInit, NetworkInit DEF Network!Init, Network!LiveIsStored
<1>2. I /\ [Next]_vars => I'
  BY RunsNext, NetworkType, NetworkLive
<1>3. I => LiveIsStored
  BY DEF LiveIsStored
<1> QED
  BY <1>1, <1>2, <1>3, PTL DEF Spec

(* EnsureTLSCertificate: however often the process is started, killed and
   started again, the pair that was served once stays, and only a start that
   was cut between the two files makes a later one fail. *)
THEOREM ServedPairStays == Spec => []PairKept
<1> DEFINE I == active = "tls" => PairInv
<1>1. Init => I
  BY RunsInit, PairInit
<1>2. I /\ [Next]_vars => I'
  BY RunsNext, PairNext
<1>3. I => PairKept
  BY DEF PairKept, PairInv
<1> QED
  BY <1>1, <1>2, <1>3, PTL DEF Spec

(* useradd, chpasswd, userdel and the SSH key handlers, all by name: what opens an
   account was asked for for this account and for no earlier one of its name, unless
   it was deleted under a request or its home was kept. *)
THEOREM AccountsOpenAsAsked == Spec => []OpensAsAsked
<1> DEFINE I == active = "users" => AccountsInv
<1>1. Init => I
  BY RunsInit, AccountsInit
<1>2. I /\ [Next]_vars => I'
  BY RunsNext, AccountsNext
<1>3. I => OpensAsAsked
  BY DEF OpensAsAsked, AccountsInv
<1> QED
  BY <1>1, <1>2, <1>3, PTL DEF Spec

(* handleBackupCreate and handleBackupDelete, in any number and cut anywhere: a row is
   inserted behind a whole archive and dropped behind its removal, so what is listed
   can be downloaded, and what is not listed was left by a crash, by an insertion that
   failed or in the second of a deletion. *)
THEOREM BackupsAgree == Spec => []ListedOnDisk
<1> DEFINE I == active = "backups" => ArchivesInv
<1>1. Init => I
  BY RunsInit, ArchivesInit
<1>2. I /\ [Next]_vars => I'
  BY RunsNext, ArchivesNext
<1>3. I => ListedOnDisk
  BY DEF ListedOnDisk, ArchivesInv
<1> QED
  BY <1>1, <1>2, <1>3, PTL DEF Spec

(* ufw allow, ufw deny and ufw delete by number: ufw has the rules that were added and
   not deleted, each once, and those that no page shows, unless a page older than the
   last change was gone by. *)
THEOREM RulesStayAsAsked == Spec => []RulesAsAsked
<1> DEFINE I == active = "firewall" => RulesInv
<1>1. Init => I
  BY RunsInit, RulesInit
<1>2. I /\ [Next]_vars => I'
  BY RunsNext, RulesNext
<1>3. I => RulesAsAsked
  BY RulesInvSays DEF RulesAsAsked
<1> QED
  BY <1>1, <1>2, <1>3, PTL DEF Spec

(* AddKey and DeleteKey: the user can log in with the keys that were added and not
   deleted, each on one line, unless requests overlapped, the file did not end in a
   newline when a key was appended, or a rewrite was cut. *)
THEOREM KeysStayAsAsked == Spec => []KeysAsAsked
<1> DEFINE I == active = "keys" => KeysInv
<1>1. Init => I
  BY RunsInit, KeysInit
<1>2. I /\ [Next]_vars => I'
  BY RunsNext, KeysNext
<1>3. I => KeysAsAsked
  BY DEF KeysAsAsked, KeysInv
<1> QED
  BY <1>1, <1>2, <1>3, PTL DEF Spec

(* Add and DeleteLine: of each entry the user's crontab has the lines that the panel
   found and those added, less those deleted, and every line of the text that the panel
   found and is no entry, in its order, unless a request wrote a text that was not made
   from the last one. *)
THEOREM CrontabStaysAsAsked == Spec => []CrontabAsAsked
<1> DEFINE I == active = "crontab" => CronInv
<1>1. Init => I
  BY RunsInit, CronInit
<1>2. I /\ [Next]_vars => I'
  BY RunsNext, CronNext
<1>3. I => CrontabAsAsked
  BY CronInvSays DEF CrontabAsAsked
<1> QED
  BY <1>1, <1>2, <1>3, PTL DEF Spec

(* backup.Create's walk while requests commit: what a backup restores is a state that
   was committed, and none from before it began, unless SQLite started its log over
   under the copy. *)
THEOREM BackupsRestoreCommitted == Spec => []RestoresCommitted
<1> DEFINE I == active = "copy" => CopyInv
<1>1. Init => I
  BY RunsInit, CopyInit
<1>2. I /\ [Next]_vars => I'
  BY RunsNext, CopyNext
<1>3. I => RestoresCommitted
  BY DEF RestoresCommitted, CopyInv
<1> QED
  BY <1>1, <1>2, <1>3, PTL DEF Spec

(* The types of each component follow from its invariant. *)
LEMMA HostTypes ==
  /\ CronInv => Cron!TypeOK
  /\ KeysInv => SSHKeys!TypeOK
  /\ ArchivesInv => Archives!TypeOK
  /\ AccountsInv => Users!TypeOK
  /\ CopyInv => Copies!TypeOK
<1>1. ASSUME CronInv PROVE Cron!TypeOK
  <2>1. \A b \in Handlers : pc[b] = "write" => req[b].read # <<>>
    BY <1>1, EmptySeq DEF CronInv, CronRequest
  <2> QED
    BY <1>1, <2>1 DEF CronInv, CronTypes, CronLine, Cron!TypeOK
<1>2. ASSUME KeysInv PROVE SSHKeys!TypeOK
  BY <1>2 DEF KeysInv, KeysTypes, KeyLine, SSHKeys!TypeOK
<1>3. ASSUME ArchivesInv PROVE Archives!TypeOK
  <2>1. ASSUME NEW r \in Handlers, pc[r] = "tar", req[r].path \notin erased
        PROVE  /\ disk[req[r].path] = [by |-> r, whole |-> FALSE]
               /\ \A i \in DOMAIN rows : rows[i] # req[r].path
    <3> DEFINE a == disk[req[r].path]
    <3>1. a \in [by : Handlers, whole : BOOLEAN] /\ a.by = r /\ ~a.whole
          /\ \A i \in DOMAIN rows : rows[i] # req[r].path
      BY <1>3, <2>1 DEF ArchivesInv, ArchiveTypes, Making
    <3> HIDE DEF a
    <3>2. a = [by |-> r, whole |-> FALSE]
      BY <3>1
    <3> QED
      BY <3>1, <3>2 DEF a
  <2>2. \A r \in Handlers : pc[r] \in {"idle", "open", "tar", "insert", "unlink", "drop"}
    BY <1>3 DEF ArchivesInv, ArchiveTypes, ArchiveSteps
  <2> QED
    BY <1>3, <2>1, <2>2 DEF ArchivesInv, ArchiveTypes, Archives!TypeOK
<1>4. ASSUME AccountsInv PROVE Users!TypeOK
  BY <1>4 DEF AccountsInv, AccountTypes, LeftBehind, Users!TypeOK
<1>5. ASSUME CopyInv PROVE Copies!TypeOK
  <2>1. wal.end \in 0..Len(wal.frames)
    BY <1>5, LenProperties DEF CopyInv, CopyTypes, LogTypes
  <2> QED
    BY <1>5, <2>1 DEF CopyInv, CopyTypes, CopySteps, Database, Copies!TypeOK
<1> QED
  BY <1>1, <1>2, <1>3, <1>4, <1>5

(* Every component's state has its types, whatever runs. *)
THEOREM HostIsTyped == Spec => []TypeOK
<1> DEFINE I == /\ active = "network" => Network!TypeOK /\ Network!LiveIsStored
                /\ active = "tls" => PairInv
                /\ active = "users" => AccountsInv
                /\ active = "backups" => ArchivesInv
                /\ active = "firewall" => RulesInv
                /\ active = "keys" => KeysInv
                /\ active = "crontab" => CronInv
                /\ active = "copy" => CopyInv
<1>1. Init => I
  <2>1. Network!Init => Network!LiveIsStored
    BY DEF Network!Init, Network!LiveIsStored
  <2> QED
    BY <2>1, RunsInit, NetworkInit, PairInit, AccountsInit, ArchivesInit, RulesInit, KeysInit,
       CronInit, CopyInit
<1>2. I /\ [Next]_vars => I'
  BY RunsNext, NetworkType, NetworkLive, PairNext, AccountsNext, ArchivesNext, RulesNext,
     KeysNext, CronNext, CopyNext
<1>3. I => TypeOK
  BY HostTypes DEF TypeOK, PairInv, RulesInv
<1> QED
  BY <1>1, <1>2, <1>3, PTL DEF Spec
================================================================================
