----------------------------- MODULE NetworkProfile -----------------------------
(***************************************************************************)
(* The NetworkManager connections of one interface                         *)
(* (internal/network/network.go, handlers_network.go).  A request asks     *)
(* nmcli which connection the interface has, changes what is stored of it  *)
(* and brings it up: three commands, all killed when the browser leaves,   *)
(* as it may when the address it talks to goes.                            *)
(***************************************************************************)
EXTENDS Naturals

CONSTANTS
  Handlers,      \* goroutines serving requests
  Connections,   \* profiles that fit the interface
  Addresses, Gateways, Servers   \* what the fields can be given

NoConnection == "--"

VARIABLES
  stored,      \* connection -> its profile, which a boot reads
  connection,  \* the interface's connection, or NoConnection
  live,        \* the settings the interface has
  pc, req,     \* requests in progress
  unapplied    \* history: connections whose last request ended in an error or not at all

networkVars == <<stored, connection, live, pc, req, unapplied>>

Profile(method, address, gateway, dns) ==
  [method |-> method, address |-> address, gateway |-> gateway, dns |-> dns]

Automatic == Profile("auto", "", "", "")

Profiles ==
  {p \in [method : {"auto", "manual"}, address : Addresses \cup {""},
          gateway : Gateways \cup {""}, dns : Servers \cup {""}] :
     IF p.method = "auto" THEN p.address = "" /\ p.gateway = "" ELSE p.address \in Addresses}

NoRequest == [kind |-> "none", conn |-> NoConnection, given |-> Automatic]

Requests ==
  [kind : {"none", "static", "dhcp", "dns"}, conn : Connections \cup {NoConnection}, given : Profiles]

(* A stored profile is automatic, with neither address nor gateway, or it has an
   address; a request in progress is about a connection. *)
TypeOK ==
  /\ stored \in [Connections -> Profiles] /\ live \in Profiles
  /\ connection \in Connections \cup {NoConnection}
  /\ pc \in [Handlers -> {"idle", "modify", "up"}] /\ req \in [Handlers -> Requests]
  /\ \A h \in Handlers :
       /\ pc[h] # "idle" => req[h].conn \in Connections /\ req[h].kind # "none"
       /\ req[h].kind = "static" => req[h].given.method = "manual"
  /\ unapplied \subseteq Connections

Init ==
  /\ stored \in [Connections -> {Automatic}]
  /\ connection \in Connections \cup {NoConnection} /\ live = Automatic
  /\ pc = [h \in Handlers |-> "idle"] /\ req = [h \in Handlers |-> NoRequest]
  /\ unapplied = {}

Become(h, step, record) == pc' = [pc EXCEPT ![h] = step] /\ req' = [req EXCEPT ![h] = record]
Reply(h) == Become(h, "idle", NoRequest)

(* connectionName; "no NetworkManager connection" ends the request. *)
ConnectionName(h, kind, given) ==
  /\ pc[h] = "idle" /\ connection # NoConnection
  /\ Become(h, "modify", [kind |-> kind, conn |-> connection, given |-> given])
  /\ UNCHANGED <<stored, connection, live, unapplied>>

BeginSetStatic(h) ==
  \E a \in Addresses, g \in Gateways \cup {""}, d \in Servers \cup {""} :
    ConnectionName(h, "static", Profile("manual", a, g, d))
BeginSetDHCP(h) == ConnectionName(h, "dhcp", Automatic)
BeginSetDNS(h) ==
  \E d \in Servers \cup {""} : ConnectionName(h, "dns", [Automatic EXCEPT !.dns = d])

(* A static address given without gateway or servers keeps those there are. *)
Modified(profile, r) ==
  LET Given(field) == IF r.given[field] # "" THEN r.given[field] ELSE profile[field]
  IN CASE r.kind = "static" -> Profile("manual", r.given.address, Given("gateway"), Given("dns"))
       [] r.kind = "dhcp" -> Automatic
       [] r.kind = "dns" -> [profile EXCEPT !.dns = r.given.dns]

(* Mutant: servers are stored and not applied. *)
ModifyOnly(h) ==
  /\ pc[h] = "modify"
  /\ stored' = [stored EXCEPT ![req[h].conn] = Modified(@, req[h])]
  /\ IF req[h].kind = "dns" THEN Reply(h) ELSE Become(h, "up", req[h])
  /\ UNCHANGED <<connection, live, unapplied>>

(* nmcli con mod *)
Modify(h) ==
  /\ pc[h] = "modify"
  /\ stored' = [stored EXCEPT ![req[h].conn] = Modified(@, req[h])]
  /\ Become(h, "up", req[h])
  /\ UNCHANGED <<connection, live, unapplied>>

Activated(c) == connection' = c /\ live' = stored[c] /\ unapplied' = unapplied \ {c}

(* reapply: nmcli con up *)
Up(h) ==
  /\ pc[h] = "up"
  /\ Activated(req[h].conn)
  /\ Reply(h)
  /\ UNCHANGED stored

(* nmcli refuses the profile, or is killed before it has asked for it. *)
ModifyFails(h) ==
  /\ pc[h] = "modify"
  /\ Reply(h)
  /\ UNCHANGED <<stored, connection, live, unapplied>>

(* It is killed behind the change, or what it brings up does not come up, in
   place of what the interface had or not, or does and nobody hears of it. *)
UpFails(h) ==
  /\ pc[h] = "up"
  /\ \/ UNCHANGED <<connection, live>>
     \/ connection' = NoConnection /\ UNCHANGED live
     \/ connection' = req[h].conn /\ live' = stored[req[h].conn]
  /\ unapplied' = unapplied \cup {req[h].conn}
  /\ Reply(h)
  /\ UNCHANGED stored

(* NetworkManager brings one up: a cable, another tool, a boot. *)
Activate(c) == Activated(c) /\ UNCHANGED <<stored, pc, req>>

(* The host boots, into what is stored. *)
Reboot ==
  /\ \E c \in Connections : Activated(c)
  /\ pc' = [h \in Handlers |-> "idle"] /\ req' = [h \in Handlers |-> NoRequest]
  /\ UNCHANGED stored

Next ==
  \/ \E h \in Handlers :
       \/ BeginSetStatic(h) \/ BeginSetDHCP(h) \/ BeginSetDNS(h)
       \/ Modify(h) \/ ModifyFails(h) \/ Up(h) \/ UpFails(h)
  \/ \E c \in Connections : Activate(c)
  \/ Reboot

Spec == Init /\ [][Next]_networkVars

(* "Changes apply immediately and persist": what the interface has is what a
   boot would give it, unless a request is bringing the connection up or the
   last one to try has answered with an error. *)
LiveIsStored ==
  \A c \in Connections :
    connection = c /\ c \notin unapplied /\ (\A h \in Handlers : pc[h] = "up" => req[h].conn # c)
      => live = stored[c]
==============================================================================
