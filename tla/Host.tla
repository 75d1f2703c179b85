--------------------------------- MODULE Host ---------------------------------
(***************************************************************************)
(* What the panel keeps on the host besides its database: a crontab, an    *)
(* authorized_keys, the backups and the copy of the database in one, the   *)
(* firewall's rules, the network's profiles, its own certificate, and the  *)
(* accounts.                                                               *)
(* They share no state in the program, so a behaviour is one of any one of *)
(* them, chosen at the start; the variables that go by the same name in    *)
(* two modules are the running one's.                                      *)
(***************************************************************************)
EXTENDS Naturals, Sequences

CONSTANTS
  Handlers,                                       \* goroutines, or browsers' pages
  Entries, MaxTable,                              \* Crontab
  Keys, MaxLines,                                 \* AuthorizedKeys
  BackupNames, MaxSecond, MaxRows,                \* Backups
  Specs, BothStacks,                              \* Firewall
  Connections, Addresses, Gateways, Servers,      \* NetworkProfile
  MaxPairs,                                       \* Bootstrap
  Names, Passwords, AccountKeys, MaxAccounts,     \* LinuxUsers
  NumPages, MaxCommits                            \* LiveCopy

ASSUME ConnectionsAssumption == "--" \notin Connections
ASSUME CommentAssumption == {"comment", "scrap"} \cap Keys = {}
ASSUME EntriesAssumption == {"", "comment", "malformed"} \cap Entries = {}
ASSUME BoundsAssumption ==
  /\ MaxTable \in Nat \ 0..2 /\ MaxLines \in Nat \ 0..2 /\ NumPages \in Nat \ {0}
  /\ MaxSecond \in Nat /\ MaxRows \in Nat /\ MaxPairs \in Nat
  /\ MaxAccounts \in Nat /\ MaxCommits \in Nat

VARIABLES
  active, pc, req, page, wanted, disturbed,
  table, original,                                    \* Crontab
  keysFile, joined,                                   \* AuthorizedKeys
  second, disk, rows, lastRow, orphans, erased,       \* Backups
  enabled, rules, old,                                \* Firewall
  stored, connection, live, unapplied,                \* NetworkProfile
  phase, cert, key, made, served, cutShort,           \* Bootstrap
  account, password, home, last, chosen, authorized, inherited,  \* LinuxUsers
  dbFile, wal, writing, checkpoint, commits, moved    \* LiveCopy

Cron == INSTANCE Crontab WITH Browsers <- Handlers
SSHKeys == INSTANCE AuthorizedKeys
Archives == INSTANCE Backups WITH Requests <- Handlers
Rules == INSTANCE Firewall WITH Browsers <- Handlers
Network == INSTANCE NetworkProfile
TLS == INSTANCE Bootstrap
Users == INSTANCE LinuxUsers WITH Keys <- AccountKeys
Copies == INSTANCE LiveCopy

cronState == <<table, original>>
keysState == <<keysFile, joined>>
archivesState == <<second, disk, rows, lastRow, orphans, erased>>
rulesState == <<enabled, rules, old>>
networkState == <<stored, connection, live, unapplied>>
tlsState == <<phase, cert, key, made, served, cutShort>>
usersState == <<account, password, home, last, chosen, authorized, inherited>>
copyState == <<dbFile, wal, writing, checkpoint, commits, moved>>
asked == <<wanted, disturbed>>

vars == <<active, pc, req, page, asked,
          cronState, keysState, archivesState,
          rulesState, networkState, tlsState, usersState, copyState>>

NoCron == table = 0 /\ original = 0
NoKeys == keysFile = 0 /\ joined = 0
NoArchives == second = 0 /\ disk = 0 /\ rows = 0 /\ lastRow = 0 /\ orphans = 0 /\ erased = 0
NoRules == enabled = 0 /\ rules = 0 /\ old = 0
NoNetwork == stored = 0 /\ connection = 0 /\ live = 0 /\ unapplied = 0
NoTLS == phase = 0 /\ cert = 0 /\ key = 0 /\ made = 0 /\ served = 0 /\ cutShort = 0
NoUsers ==
  /\ account = 0 /\ password = 0 /\ home = 0 /\ last = 0
  /\ chosen = 0 /\ authorized = 0 /\ inherited = 0
NoCopies ==
  /\ dbFile = 0 /\ wal = 0 /\ writing = 0 /\ checkpoint = 0 /\ commits = 0 /\ moved = 0
NoPage == page = 0
NotAsked == wanted = 0 /\ disturbed = 0
NoHandler == pc = 0 /\ req = 0

Init ==
  \/ /\ active = "crontab" /\ Cron!Init
     /\ NoKeys /\ NoArchives /\ NoRules /\ NoNetwork /\ NoTLS /\ NoUsers /\ NoCopies
  \/ /\ active = "keys" /\ SSHKeys!Init /\ NoPage
     /\ NoCron /\ NoArchives /\ NoRules /\ NoNetwork /\ NoTLS /\ NoUsers /\ NoCopies
  \/ /\ active = "backups" /\ Archives!Init /\ NoPage /\ NotAsked
     /\ NoCron /\ NoKeys /\ NoRules /\ NoNetwork /\ NoTLS /\ NoUsers /\ NoCopies
  \/ /\ active = "firewall" /\ Rules!Init /\ NoHandler
     /\ NoCron /\ NoKeys /\ NoArchives /\ NoNetwork /\ NoTLS /\ NoUsers /\ NoCopies
  \/ /\ active = "network" /\ Network!Init /\ NoPage /\ NotAsked
     /\ NoCron /\ NoKeys /\ NoArchives /\ NoRules /\ NoTLS /\ NoUsers /\ NoCopies
  \/ /\ active = "tls" /\ TLS!Init /\ NoHandler /\ NoPage /\ NotAsked
     /\ NoCron /\ NoKeys /\ NoArchives /\ NoRules /\ NoNetwork /\ NoUsers /\ NoCopies
  \/ /\ active = "users" /\ Users!Init /\ NoPage /\ wanted = 0
     /\ NoCron /\ NoKeys /\ NoArchives /\ NoRules /\ NoNetwork /\ NoTLS /\ NoCopies
  \/ /\ active = "copy" /\ Copies!Init /\ NoPage /\ NotAsked
     /\ NoCron /\ NoKeys /\ NoArchives /\ NoRules /\ NoNetwork /\ NoTLS /\ NoUsers

Next ==
  /\ UNCHANGED active
  /\ \/ /\ active = "crontab" /\ Cron!Next
        /\ UNCHANGED <<keysState, archivesState, rulesState, networkState, tlsState, usersState, copyState>>
     \/ /\ active = "keys" /\ SSHKeys!Next /\ UNCHANGED page
        /\ UNCHANGED <<cronState, archivesState, rulesState, networkState, tlsState, usersState, copyState>>
     \/ /\ active = "backups" /\ Archives!Next /\ UNCHANGED <<page, asked>>
        /\ UNCHANGED <<cronState, keysState, rulesState, networkState, tlsState, usersState, copyState>>
     \/ /\ active = "firewall" /\ Rules!Next /\ UNCHANGED <<pc, req>>
        /\ UNCHANGED <<cronState, keysState, archivesState, networkState, tlsState, usersState, copyState>>
     \/ /\ active = "network" /\ Network!Next /\ UNCHANGED <<page, asked>>
        /\ UNCHANGED <<cronState, keysState, archivesState, rulesState, tlsState, usersState, copyState>>
     \/ /\ active = "tls" /\ TLS!Next /\ UNCHANGED <<pc, req, page, asked>>
        /\ UNCHANGED <<cronState, keysState, archivesState, rulesState, networkState, usersState, copyState>>
     \/ /\ active = "users" /\ Users!Next /\ UNCHANGED <<page, wanted>>
        /\ UNCHANGED <<cronState, keysState, archivesState, rulesState, networkState, tlsState, copyState>>
     \/ /\ active = "copy" /\ Copies!Next /\ UNCHANGED <<page, asked>>
        /\ UNCHANGED <<cronState, keysState, archivesState, rulesState, networkState, tlsState, usersState>>

Spec == Init /\ [][Next]_vars

------------------------------------------------------------------------------
(* The properties, each of the component it is about. *)

(* Type correctness of whichever runs. *)
TypeOK ==
  /\ active = "crontab" => Cron!TypeOK
  /\ active = "keys" => SSHKeys!TypeOK
  /\ active = "backups" => Archives!TypeOK
  /\ active = "firewall" => Rules!TypeOK
  /\ active = "network" => Network!TypeOK
  /\ active = "tls" => TLS!TypeOK
  /\ active = "users" => Users!TypeOK
  /\ active = "copy" => Copies!TypeOK

(* The crontab has the entries that were asked for and every other line. *)
CrontabAsAsked == active = "crontab" => Cron!AsAsked

(* The user can log in with the keys that were added and not deleted. *)
KeysAsAsked == active = "keys" => SSHKeys!AuthorizedAsAsked

(* A listed backup has its archive, and an archive on disk is listed or being made. *)
ListedOnDisk == active = "backups" => Archives!ListedIsWhole /\ Archives!OnDiskIsListed

(* A backup's database is one that was committed. *)
RestoresCommitted == active = "copy" => Copies!RestoresCommitted

(* ufw has the rules that were asked for. *)
RulesAsAsked == active = "firewall" => Rules!RulesAsAsked

(* What the interface has is what a boot would give it. *)
LiveIsStored == active = "network" => Network!LiveIsStored

(* The certificate that was served once is served by every later start. *)
PairKept == active = "tls" => TLS!PairKept

(* What opens an account of the host was asked for for this account. *)
OpensAsAsked == active = "users" => Users!OpensAsAsked
==============================================================================
