# TLA+ models of webtermin

webtermin is one Go process that gives a Linux host a web panel: terminals,
files, users, cron, WireGuard, Docker and Compose, backups. It keeps its own
state in SQLite and changes the host's state with files and commands. Every
HTTP request is a goroutine; almost nothing is locked, so what two requests, a
background sweep, a crash or a departed browser do to each other is decided by
the order of single SQL statements, system calls and engine calls. Those are the
steps of these models. Paths below are relative to `src/`, and, where they do not
start with `docs/`, `cmd/` or `web/`, to `src/internal/`.

* [Inventory](#inventory)
* [Modules](#modules)
* [Runs](#runs)
* [Fairness](#fairness)
* [Proofs](#proofs)
* [Where the code and its documents disagree](#where-the-code-and-its-documents-disagree)
* [What is not modelled](#what-is-not-modelled)
* [Plan](#plan)

## Inventory

| Component | Code | State | Operations | Behaves badly when | Correct when |
|---|---|---|---|---|---|
| Accounts, roles, sessions, API tokens | `server/handlers_panel_users.go`, `handlers_auth.go`, `handlers_tokens.go`, `middleware.go`, `store/` | tables `users`, `sessions`, `api_tokens` | first-run set-up, sign-in, sign-out, OIDC provisioning, create, delete, set role, set password, issue and revoke tokens | a request uses what an earlier statement of it read | an admin is left, names are unique (proved), privileges are never made up, ids keep their meaning |
| Password login, lockout, 2FA | `auth/service.go`, `auth/totp.go`, `server/handlers_2fa.go`, `store/login_attempts.go`, `bgSweep` | `login_attempts`, `users.totp_secret`, `sessions` | login, enroll, verify, disable, sweep | logins overlap around a slow hash; enrolments overlap | the overshoot is bounded, a lockout ends, the active secret is verified, 2FA is not skipped |
| WireGuard peers | `wireguard/wireguard.go`, `server/handlers_wireguard.go` | live interface, `/etc/wireguard/<iface>.conf` | add, remove, reboot | the file is edited as text, by two requests; a write fails, or is cut | file and interface name the same peers, `[Interface]` survives |
| Browser terminal, container shell | `server/handlers_terminal.go`, `pty/pty.go`, `handleDockerExecWS` | WebSocket, pty, child process, three goroutines | open, type, print, ping, time out, leave, exit | goroutines wait for each other or write at once | nothing reads a closed pty, shells are reaped, closes are audited |
| Single sign-on | `auth/oidc.go`, `server/handlers_oidc.go` | one cookie per browser | start, callback | tabs and reloads overlap around the exchange; state and code come back apart | a session is opened on a state that this browser was sent out with, by a code used once |
| Compose stacks | `compose/`, `server/handlers_stacks.go`, `store/stacks.go` | table `stacks`, the engine's containers, networks, volumes | create, update, delete, start, stop | engine calls fail half-way, requests overlap | what runs is what is stored, dependencies start first, a deployment repairs what the last one left, a start or stop reaches every container that the engine is not just restarting |
| Cron jobs | `cron/cron.go`, `server/handlers_cron.go` | a user's crontab | list, add, delete by line | a read and a write are apart; line numbers get old | of each entry there are as many lines as were asked for, other lines stay |
| SSH keys | `users/linux.go` | `~/.ssh/authorized_keys` | add, delete | the last line is unterminated; rewrites are cut | keys are those asked for |
| File manager | `files/files.go`, `server/handlers_files.go` | a file, its temporary twin, their directory | save, upload, chmod, delete, mkdir | two saves share the temporary name; the disk fills; a temporary file is left | the file is one whole text and keeps its mode |
| Backups | `backup/backup.go`, `server/handlers_backup.go`, `store/backups.go` | archives on disk, table `backups` | create, delete | the archive fails, the insert fails, the process dies, names repeat within a second; the database is written while it is copied | listed archives are whole, files on disk are listed, the database in one was committed |
| Streams (logs, statistics, pulls, journal, metrics) | `server/handlers_docker.go`, `handlers_services.go`, `handlers_system.go`, `systemd/journal.go`, `docker/` | goroutines around a child or engine connection | open, copy, close | a source says nothing, or speaks for longer than the client's timeout | a stream ends with its reader and not before |
| Docker page | `server/handlers_docker.go`, `docker/` | the engine's | start, stop, pause, remove, prune; networks and volumes; restart policies | it works, or a container ends and is restarted, under a stack's request | the stack's next request repairs it |
| TLS bootstrap | `server/tls.go` | certificate and key files | generate, load | a crash between two files | the next start serves the same pair |
| Network profiles | `network/network.go`, `server/handlers_network.go` | NetworkManager's connections | static, DHCP, DNS | the last of three commands fails or is killed | what is stored is what runs |
| Firewall | `firewall/firewall.go`, `server/handlers_firewall.go` | ufw's rules | status, add, delete by number, toggle | rules are renumbered under a page | the rule that was shown goes, no other |
| Linux users | `users/linux.go`, `server/handlers_users.go` | the system's accounts and homes | create, delete, password | names and homes outlive accounts; the second of two commands fails | what opens an account was asked for for it |
| Packages, services, metrics, images | `packages/`, `systemd/`, `system/`, `docker/` | none of their own | one command or engine request each | - | - |
| Audit log | `audit/audit.go`, `store/audit.go` | table `audit_log` | one insert per event | a handler does not reach it | what ended is recorded |
| Configuration, start-up, shutdown | `config/config.go`, `cmd/webtermin/main.go`, `server/server.go` | read once | start, sweep, stop | requests are under way at the stop | each component survives being cut |
| Web interface, packaging | `web/`, `packaging/` | the browser's | one API call per click | - | - |

Components meet in four ways. Handlers call a package and then the store, one
statement at a time (`store.Store` sets foreign keys and `SetMaxOpenConns`, and no
handler opens a transaction). They share tables: `requireAuth` reads `sessions`,
`api_tokens` and `users` before every handler, and deleting a user cascades to
the other two. `bgSweep` runs beside all of them. And the host outside (Docker, wg,
crontab, the file system) keeps state that only the panel's own requests are
modelled to change. `PROJECT.json` lists the hazards of each at the line where
they bite, with the properties that would notice.

## Modules

A handler becomes one action per statement, system call or engine call, with
`pc[h]` saying where goroutine `h` is and `req[h]` what it has read so far: a
value read early and used late is in `req`, and the interleavings between are
TLC's to explore. A goroutine that has replied is `idle` and serves another
request. History variables (named so where they are declared) record what a
property needs to know about the past; no guard reads one.

**`Roles`, `AccountTable`, `PanelUsers`, `Panel`, `PanelUsersProofs`, `MCPanelUsers`.**
`AccountTable` is the abstract specification: a table of accounts whose rows are
added with a free name, removed, reassigned and rekeyed in one step, and whose last
admin can neither go nor be demoted. `PanelUsers` is the code: authentication by
session or token (`FindSession`, `FindToken`, `LoadCaller`), the role check, then
the handler, with `guardLastAdmin` as a statement of its own before the DELETE or UPDATE that relies
on it. Set-up, password login and OIDC sign-in are included as they create or use the same
rows. `AUTOINCREMENT`, the `UNIQUE` name and `ON DELETE CASCADE` of
`store/store.go` are in `CreateUser` and `DeleteUser`. A password is a model value;
hashing, cookies and token text are left out.

**`SignOn`.** `Panel` instantiates it beside `PanelUsers`, and `MCPanelUsers` is a small instance of `Panel`. Browsers with one state cookie each, the
states and codes of the addresses that the provider sends them back to, and any number of callbacks in progress. An address may
be opened again, or in another browser, and `Callback` takes its state and its code independently, as `handleOIDCCallback` does: the cookie vouches for the
state, and nothing (no nonce, no PKCE) ties the code to it. What the callback does once the code has been exchanged is
`PanelUsers`' (`OIDCFind` and on); here it is one step.

**`Login`, `LoginProofs`, `MCLogin`.** `Service.Login` from the count of recent
failures (`LoginCheck`) over the password and code (`LoginFind`) to the recorded
outcome; `Enroll`, `Verify` and `Disable` working on the account as `requireAuth`
read it; `bgSweep`'s two purges; a `Tick` that makes rows older. `attempts` is the table in the order of its insertion, and the bound is on the rows it holds at once,
so that a client can go on being recorded for ever as the sweep makes room. One account is
enough: addresses meet in the failure count whatever account they try. Ages stop
at `CapAge`, above every duration they are compared with. A code is valid for the
secret it is made of; the time window of TOTP is left out.

**`WireGuardConf`, `ConfFiles`, `ConfFilesProofs`, `MCWireGuardConf`.** The file is kept as the blocks that
`splitConfigBlocks` sees, because the interesting thing is what a section appended
to a text without a final newline becomes: part of the block before it.
`os.WriteFile` is two actions, since it truncates first. Either may fail, which the handlers
ignore, and the panel may stop between them; histories say of which peers an append or a rewriting was lost.

**`Terminal`, `Sockets`, `TerminalProofs`.** One terminal, its handler, the
pump from pty to socket and the pinger, each at its blocking call. Both kinds of
shell are in it: a container's has neither pings nor a deadline. What
gorilla/websocket and the kernel do is modelled as they are used: a write is refused after the
farewell has been read, two writes at once may panic, a read of a pty without output blocks.

**`Streams`**, which `Sockets` instantiates beside `Terminal`. One stream of any of five kinds: the handler
between its blocking read of the source and its write to the browser, the watcher that reads the socket, and the clock of the engine
client's timeout. The handler asks the watcher only between two items, which is the whole difficulty; metrics alone wait
for both. A pull reads its request's body before it answers the handshake, and has no watcher. It may end well, be cut, or fail (`PullFails`): its last event is then an error,
which the handler passes on like any other before it meets the end of the answer.

**`TopoSort`, `Stacks`, `DockerPage`, `StacksProofs`, `MCStacks`.** `Manager.Deploy` removes the old containers,
then creates and starts the services in the order of `TopoSort!Sorted`, and only
afterwards is the text stored. Each engine call is an action; `Stops` ends a request
anywhere, for a refused call, a cancelled context or a dead process. A compose text
is its dependency graph and the networks and volumes it declares. `TypeOK` has two halves: the tables (names of rows, and of
the containers of a stack, are distinct) and the requests (each knows what its step needs). `DockerPage` extends `Stacks` with what another operator does to the
same containers, networks and volumes from the Docker page, each request one engine call, and with what the engine does by itself: a container with a restart policy ends (`Crashes`),
is *restarting* for a while, and runs again or is given up (`Restarts`). `Listed` is what a start or a stop makes of such a container: a start asks for it, a stop passes over it.

**`FileWrites`, `FileWritesProofs`.** `ConfFiles` instantiates `FileWrites` beside `WireGuardConf`, and `MCWireGuardConf` is a small instance of both: the other way to rewrite a
file, by a temporary one and a rename. Names point to inodes, and a writer keeps its inode whatever the names do. The editor's
save and the upload take the same temporary name; chmod, deletion and mkdir come in between. A text is as many chunks as it is long.

**`Lines`, `LinesProofs`.** What a loop over lines or blocks that keeps some of them makes of a text: the lines with these numbers,
in order. `Crontab`, `AuthorizedKeys`, `WireGuardConf` and `LiveCopy` all speak of texts so; and since it is said without recursion, it can be proved about.

**`Crontab`, `AuthorizedKeys`, `Backups`, `LiveCopy`, `Firewall`, `NetworkProfile`,
`Bootstrap`, `LinuxUsers`, `Host`, `HostProofs`, `MCHost`.** Eight small
components of one shape - something on the host is read and written by steps that
overlap, fail or are cut - that share nothing. `Host` instantiates all
eight and picks the one that runs at the start (`active`), so that one run, of the small instance `MCHost`, checks
them. Its state space is the sum of theirs.

* `Crontab` and `AuthorizedKeys` keep the texts as lines and have one action per
  read, truncation and write; an entry may be added again, and `Copies` counts it; `Backups` adds the row that goes with an archive.
* `LiveCopy` is what an archive gets of the panel's own database: pages of `webtermin.db`, then the header and frames of its
  write-ahead log, while requests commit, and SQLite checkpoints the log and starts it over. `Recovered` is what opening the copy would give.
  SQLite is external and modelled by its file format.
* `Firewall` has one action per ufw command, which holds ufw's lock; what it adds is the page,
  a map from the numbers ufw gave to rules, that gets `old`. Where ufw puts a rule is modelled as it does it
  (IPv4 before IPv6, a rule of the same kind turned in place), since that is what renumbers.
* `NetworkProfile` has one action for each of the three nmcli calls of a request, each of which may fail or be killed
  with the browser's connection, and lets NetworkManager and boots activate connections in between.
* `Bootstrap` is `EnsureTLSCertificate` over any number of starts; each file is opened and
  then written, and the process may stop between any two steps.
* `LinuxUsers` numbers the accounts that bear a name one after the other, so that a password or a key
  meant for one can be told from what opens the next.

## Runs

| Run | Module | Question | Expected |
|---|---|---|---|
| `panelusers_remover` | `MCPanelUsers` | With one goroutine that deletes, demotes and creates and another that does everything but remove: is account management an implementation of `AccountTable`, with ids stable? Beside it: does single sign-on open sessions only on states that this browser was sent out with, each by a code of its own, and what loses a sign-on under way? | pass |
| `panelusers_tokens` | `MCPanelUsers` | While tokens are issued and revoked and roles and accounts change under them: does every credential have its account, is no privilege made up, and is an admin left while one goroutine removes? | pass |
| `panelusers_removers` | `MCPanelUsers` | With two goroutines that remove: is an admin left? | violated |
| `login_concurrent` | `MCLogin` | With logins, enrolments, verifications and disablings overlapping: is the active secret verified and 2FA not skipped, how far is the threshold overshot, does the sweep keep what it counts, does a lockout end while the client keeps trying? | pass |
| `login_required` | `MCLogin` | Does `require_2fa` make a user enroll? | violated |
| `wireguard_peers` | `MCWireGuardConf` | Through overlaps, failing writes, crashes and reboots: what exactly makes file and interface disagree, and is `[Interface]` ever lost? Beside it: is a saved file whole, with the mode it was given? | pass |
| `wireguard_merge` | `MCWireGuardConf` | One request after the other: does the file name the live peers? | violated |
| `terminal_talking` | `Sockets` | With a shell that prints: no read after close, no crash but by a ping, the shell reaped, the pump ended? Beside it: do streams end with their browser, and is a pull said to be done only when it is, or when it failed and that was said first? | pass |
| `terminal_silent` | `Sockets` | With a shell at its prompt: is the close audited? | violated |
| `streams_cut` | `Sockets` | Do statistics go on while the page is open? | violated |
| `stacks_deploy` | `MCStacks` | With the Docker page and restart policies beside the stacks: does the next deployment that gets to its end repair everything, do services start in order, does what is stored run, does a start or stop reach every container but those being restarted? | pass |
| `host_writes` | `MCHost` | Are crontab, keys, archives, the database in one, firewall rules, network profiles, certificate and accounts what was asked for, through overlaps, failures, crashes and restarts? | pass |

Bounds, and why they are enough:

* *Two goroutines* everywhere. Each hazard is a read and a write of one request
  with a write of another between them; a third request could only repeat the
  second's. Where the number matters (`FailuresBounded`) it is in the formula, and
  the theorem holds for any.
* `PanelUsers`: the run about identity has three names and `MaxUsers` = 3 ids, so that
  an account can go and another take its place under another name while a third one
  acts; everybody uses one session there. The run about credentials has two sessions,
  so that two callers are signed in at once and one may remove the other, two tokens,
  so that one may issue the next, and two accounts. The two split the kinds of
  request (`OneRemover`, `TokensAndRoles`) to stay small; the proofs do not.
* `Login_concurrent`: a threshold of one, so that the second of two overlapping logins
  overshoots; a lockout of 1 tick and a purge age of 1, which the assumption of the theorem `SweepKeepsLockout`, `Lockout <= PurgeAge`, allows and which is
  as tight as it can be; two secrets, so that one enrolment replaces another; three rows of attempts at once, which with these ages a lockout and
  its successor need. The bound is not what ends a lockout: with refusals recorded (the mutant `LoginCheckRecording`), a client that tries on is locked out for ever in this very run.
* `WireGuard_peers`: five sections, enough to add, remove, append into a block and
  remove again. The `CONSTRAINT NotDisturbed` stops at states in which a removal has overlapped
  another request or the file was cut short: all of `WireGuardConf`'s properties but `TypeOK` are claimed of the other ones only,
  and beyond it the file can be any mixture. `FinalNewline` covers both ways an administrator
  may have left the file. For `FileWrites`, three inodes: the file, the
  temporary one, and one still open without a name; texts of one and two chunks, so that a shorter save
  over a longer one shows; one mode beside the default.
* `SignOn`: two browsers, three states and two codes, so that a browser may have a second sign-on under way while the first comes back, and
  either can be given the other's address, or a code with a state of its own.
* `Terminal`: an idle limit of a few ticks and output of a few reads, so that a deadline can
  pass and a pump can both fall behind and catch up. `Streams`: a timeout of two ticks and two items, so that an error event can wait behind another.
* `Stacks_deploy`: one name, since stacks of different names share no container; one row id, since nothing but the row itself tells a stack that was deleted
  and created anew from the one before, and requests for an id that is not there change nothing (the proofs are for any number); three container identifiers for texts of at
  most two services, so that an old and a new container coexist; texts with a dependency, a
  missing dependency, a network, a volume, and a cycle. `SortIsTopological` of `MCStacks`
  has TLC evaluate `Topological` for all 4096 graphs of three services and a missing one.
* `Host_writes`: two entries in a crontab of four lines, so that one of them is there twice, and beside the other; two keys with five lines; one backup name in two seconds and three rows, so that a name repeats; one firewall rule that ufw makes twice and one that it does not, beside
  a routed one that pages leave out, so that an addition moves numbers in the middle; two connections, so that a request can work on one that the interface has left;
  four certificates, so that several starts in a row are cut; three accounts of one name, so that one is deleted and made again under a request, twice; a database of two pages and three transactions, so that the log is started over once and
  written to again.

Goroutines, inodes and the engine's identifiers are interchangeable in `Stacks_deploy`, `Host_writes` and `WireGuardConf_peers`, which check
invariants only, and there `SYMMETRY` is sound. `Host`, `Sockets`, `Panel` and `ConfFiles` put components that share nothing
beside each other: a behaviour is of one of them, and the other's variables keep a value that means nothing. `CHECK_DEADLOCK FALSE` is in the
configurations whose tables are bounded (rows inserted use up ids, and then
requests end), and in the terminal's, where a returned handler or a crashed process is the end.

The properties say what they excuse. `SurvivesUnlessDisturbed`, `RunsWhatIsStored`, `DeployConverges`,
`ActConverges`, `CrontabAsAsked`, `KeysAsAsked`, `FileWhole`, `ModeAsWanted`, `StateKept`, `RulesAsAsked` and `OpensAsAsked` do not hold
of all overlaps, nor `RestoresCommitted` when the log is started over under the copy, as the code locks nothing; what the runs show is that *nothing else*
breaks them - failures, crashes, refused calls, old temporary files - and, for stacks and saved
files, that one request that gets to its end alone puts everything right. `RestoresCommitted` in particular holds while pages are checkpointed under the copy:
their frames are in the log, which is copied after them.

## Fairness

Safety needs none. The liveness properties assume what the code's scheduling gives:

* `TimedSpec` (`LockoutEnds`): time passes, `WF(Tick)`. Nothing is assumed of the
  client or of the sweep, so the property covers one that tries on for ever.
* `UserSpec` (`EnrollmentForced`): a goroutine that can go on does, `WF(Step(h))`, and somebody
  who knows the password keeps trying to sign in, strongly, since the goroutine is not always idle.
  The counterexample is therefore not one of a user who gave up.
* `Spec` of `Terminal`: the Go scheduler runs every goroutine that is not blocked and time
  passes. Nothing makes the client leave, the shell print or exit. `SideSpec` of `Sockets` adds a shell
  that goes on printing, and, strongly, that writes to a connection whose peer has gone fail in the end,
  as the socket's buffer fills or its write deadline passes. Its
  liveness claims allow for a crash of the process by a concurrent write.
* `Fairness` of `Streams` (`StreamEnds`): its goroutines run, time passes, the client's timeout fires when it has passed, a talkative source
  goes on, and writes to a browser that has gone fail in the end. Nothing makes a quiet source speak: the property holds of quiet logs and statistics because of the timeout
  (its mutant takes that away), and leaves out the journal of a quiet service, which has none.

## Proofs

TLAPS proves the following for any sets of goroutines, names, addresses, keys, texts, browsers and inodes,
any durations and bounds, under nothing but the assumptions named in the modules and,
for two of them, `SerialRemovals`.

**`PanelUsersProofs`.** `NextStatement` reduces every action to one of eight SQL
statements with what the code has checked before it; the invariants are then proved
once per statement rather than once per handler.

* `TypeCorrect`, `OwnersExist`, `NamesUnique`: directly from the statements.
* `AccountsKeepIdentity` and `PrivilegeNeverMadeUp` speak of what a request read some steps ago and
  are not inductive. `Inv` adds `Remembers(h)`, what each request may rely on at each step
  (ids handed out, a role its caller once had, high enough for the handler), and `Ranked`, that no row or token outranks
  the history of its account. The key lemma is `StatementStable`: no statement hands
  out an old id again, changes a name, or lowers the history, so a request that does not
  move keeps remembering truly.
* `Atomic` (the code implements `AccountTable`) and `LastAdminKept` assume `SerialRemovals`, that at most one
  goroutine deletes and demotes. It is what the code lacks: `panelusers_removers` shows the theorem false
  without it. `SerialInv` adds `Guarded(h)`: a request at its DELETE or UPDATE still has
  another admin beside its target. `GuardPassed` shows that the count establishes it, `GuardStays` that no
  other request's statement undoes it.

**`LoginProofs`.** `TypeCorrect`; `FailuresStayBounded` from `LockoutInv`, which counts
recorded failures *and* the logins past the check, the latter being what a
failure is recorded out of; `SweepKeepsLockout`, under `Lockout <= PurgeAge`;
`ActiveIsVerified` and `SecondFactorHolds` from `FactorInv`, which ties `gated` to the state of the
secret.

**`TerminalProofs`.** `TypeCorrect` and `CloseIsSafe`: the pty is not closed under the pump. `ExecNeverPanics` (`PanicsOnlyWithPings`) adds
that a container shell's pings are over before they begin. `DoneIsDone` (`DoneIsWhole`): a browser that reads "done" of a pull has had everything the engine sent, and either the pull had ended
well, or it had failed and the browser had read the error before; never one that the timeout cut. It does *not* say that an image is there, which the code does not either. The invariant, `DoneInv`, adds that a handler
back in its read of a failed pull, with nothing left to read, has told the error to the browser if that is still there, and that "done" is its last word.
The first three are stated for `Terminal` alone and, as `BesideStreams`, for what the runs check.

**Sign-on**, in `PanelUsersProofs`: `SignOnReturns` (`RoundTrip`) and `SignOnKept` (`StateKept`). `RoundTrip` speaks of sessions, but what makes them right happens two
requests earlier, so the invariant follows a sign-on from its start: a browser's cookie is a state made for that browser and not yet disturbed, a callback in progress was let in by it
(its state was started in its browser, even when the cookie has changed since), and a code between its exchange and its session is used and belongs to one callback. That the code, too, comes from a
visit of this browser to the provider is not claimed, and is false: see [below](#where-the-code-and-its-documents-disagree).
`BesideSignOn`: a behaviour of the runs is one of `PanelUsers`, whose theorems hold of it.

**`LinesProofs`** has the lemmas on lines kept (`LinesKept`: each as often as before; `NthInOrder`: in order) and on two texts that keep the same
ones (`SameLines`, from `MovedInOrder`: numbers that move without passing each other keep their places). An induction over the loop would
be natural, and is out of the prover's reach; counting the numbers up to a line says the same.

**`HostProofs`** has an inductive invariant for each of the eight components, and `RunsInit` and `RunsNext` carry it to `Host`. `HostIsTyped` (`TypeOK`)
follows from all of them. The assumptions are that the bounds are numbers, that no connection is called `--` - how nmcli writes that there is none -
and that neither an entry nor a key is equal to a line that is none.

* `AppliedIsStored` (`LiveIsStored`) is inductive beside the types, because whoever changes a stored
  profile is at its `con up` from then on, or has failed.
* `ServedPairStays` (`PairKept`), from what a start may find: nothing, a whole pair, or what a
  cut start has left; and from this, that pairs are generated only while none has been served.
* `AccountsOpenAsAsked` (`OpensAsAsked`): `LeftBehind` says what a name has between two accounts (no password, and keys only in a home that was kept), and
  `SetForThisAccount` that a password being set was asked for for the account that has the name now.
* `BackupsAgree` (`ListedOnDisk`): while a request writes to a path nobody has removed, the archive is its own and no row names it (`Making`); a deletion
  is of a row whose id is never given to another, and drops it when the path counts as erased (`Deleting`).
* `RulesStayAsAsked` (`RulesAsAsked`): what is true of one list of rules and one page has to be said of the numbers of all (`FreshPages`); the lemmas
  on one item less and one more say which of them move. That a kind of rule is there once holds whatever happened.
* `KeysStayAsAsked` (`KeysAsAsked`): undisturbed, only one request is in progress, and the text it is about to write has the keys asked for but its own, each on one line
  (`KeysKnown`); the rest of the proof is about lines appended or kept.
* `CrontabStaysAsAsked` (`CrontabAsAsked`): undisturbed, the text a request will write is made from the installed one (`CronAlone`), so that an addition makes one line more
  of its entry, be that there already or not, and a deletion one less, by number even where two lines are the same (`Copies` of a text with a line appended or removed). Deleting *by number* is
  right as long as the line still is the entry, which is what the page and `disturbed` tell.
* `BackupsRestoreCommitted` (`RestoresCommitted`), for databases of any size. `LogSays` is what SQLite keeps of its log: the frames up to the end of each
  transaction make what was committed of what the log started from. `InTheLog` says why a checkpoint under the copy does no harm: a page of the database's file, or of the copy of it, that
  differs from what the log started from has a frame in the log. `LogCopied` says the same of what was copied: the copy began before some transaction all of whose frames it has or will have, so that
  what it restores is what that one committed, or a later one.

**`StacksProofs`.** All five properties of `stacks_deploy`, over `PageSpec`, that is with the Docker page beside the stacks: `TypeCorrect`, `StoredIsRun`
(`RunsWhatIsStored`), `DeploymentsConverge`, `ActsConverge`, `DependenciesStartFirst`. The properties speak of the end of a request; the invariant says what it has
achieved at each step. `Good(h)`: while `h` is alone on its stack, the containers are exactly those of the services it has been through, running and made from its text, and those still in
its plan are not yet there. `Seen(h)`: alone or not, what it has read is so as long as no container of the stack changes; this is what makes a
request that merely read, and then stopped or stored, harmless. `Alone` ties both to the history `contested`. A request of the Docker page makes the names it touches `contested` while a stack's request is on them, and `dirty` when a container goes,
and so does a container that crashes; this and `flapping` are all that the invariant excuses. The order of services comes from `SortedRight`: for
every text, `TopoSort!Topological`, that is, a cycle is found exactly where there is one, and without it `Sorted` gives every service once, behind those it depends on. Its loop invariant is `Waits`: the services
ordered or queued are those whose dependencies are all ordered, and `indeg` counts the others' missing ones, so that a queue that runs dry early leaves services of which each waits for
another. `Acted(h)` is what a start or a stop has achieved: the containers of its stack but for those on its list still, and those that were being restarted when it was made (`flapping`), are where
it takes them, and none is being restarted, so that the engine's restarting one later (`RestartsInv`) concerns only what is excused. The library's induction theorems being out of reach, the induction over the loop (and the existence of `Sorted`'s recursive function) goes by the least step that would
break it (`Least`, from the well-foundedness of `<`).

**`FileWritesProofs`.** `TypeCorrect`, `SavesAreAtomic` (`WholeUnlessOverlapped`) and `ModesAreKept` (`ModeAsWanted`), for texts of any lengths, from `ConstantsOK`, which TLC evaluates for the
instance of `MCWireGuardConf`. The file is only ever changed by a writer that has its inode open, and the invariant says when that is harmless: a writer that is alone is the only
busy one (`OneAlone`), what it has open is not the file and holds what it has written (`Draft`), and, if nothing else touched file or directory since it began, the mode to carry over (`Carried`).

**`ConfFilesProofs`.** `SavedWhole` (`FileWhole`) and `ModeStays` (`ModeAsWanted`) are these for `ConfFiles`. `ConfTyped`, `PeersSurvive` (`SurvivesUnlessDisturbed`) and `InterfaceStays`
(`InterfaceKept`) are of WireGuard's file, for any number of requests, keys and sections, without the run's bound and without its constraint. The invariant, `PeersInv`, has one part for each history: without
overlaps a removal is alone (`RemovalAlone`); uncut, too, the interface has the *first* section of a block, of the file or of the text about to be written, which no
peer's removal drops (`InterfaceFirst`); without merged blocks every block is one section; and without all three, file and interface
disagree about no peers but those of failed requests and of requests still at work (`Agreed`). The lemmas it rests on say what appending a section, dropping a peer's blocks and cutting a text off make of the peers it names.

Only model-checked are: all liveness (`LockoutEnds`, `ShellReaped`, `PumpEnds`, `StreamEnds`), out of the prover's reach. Every other invariant and action property of the passing runs is proved; of the violated
ones, `AdminsKept` is, where one goroutine removes.

## Where the code and its documents disagree

Five runs end in a counterexample that the code exhibits:

1. *The last admin* (`panelusers_removers`). `guardLastAdmin` "returns an error if
   removing/demoting target would leave the panel with zero admins", but counts in a statement of its own: two admins who
   delete or demote each other at once leave none.
2. *Forced enrolment* (`login_required`). "Force TOTP enrollment for every user": an
   account without a secret is asked for a code, which it cannot have, before the session that enrolment needs.
3. *Peers survive a reboot* (`wireguard_merge`). A removal leaves the file without a final newline; the next
   addition's section joins the block before it, and goes, or stays, with it.
4. *Closed terminals are audited* (`terminal_silent`). The handler waits for a pump
   that is blocked in a read of a silent shell; neither the audit row nor the deferred kill happens.
5. *Streams for minutes* (`streams_cut`). "WebSocket / SSE handlers may stream for minutes", but the engine's client gives every request, its
   body included, thirty seconds. The same timeout is all that ends the stream of a quiet log whose browser has gone.

The models also contain the following, without a run of their own:

* two first-run set-ups with different names both succeed (`docs/api.md:25`);
* a lockout longer than 24 h ends when the sweep forgets its failures (`server/server.go:107`);
* an enrolment that was begun and left blocks the next login (`server/handlers_2fa.go:16`);
* a removal of a WireGuard peer that overlaps another change loses one of them;
* the idle timeout of a terminal never passes while its page is open, as pongs reset the deadline it shares;
* a start cut between certificate and key leaves a panel that no later start brings up (`server/tls.go:26`);
* `con up` is run without the `--temporary` that its comment speaks of (`network/network.go:279`), and what did not come up stays stored;
* a static address given without gateway or servers keeps the old ones (`network/network.go:172`);
* deleting a firewall rule or a cron line by an old page deletes another one (`firewall/firewall.go:178`, `cron/cron.go:187`);
* a key added to a file without a final newline becomes the comment of the one before it (`users/linux.go:256`);
* a temporary file left by a crash gives its mode to the next save (`files/files.go:142`);
* the journal of a quiet service is not closed when its browser is, against "Detect client-side close" (`server/handlers_services.go:73`);
* starting a stack with a paused container fails, against "idempotent" (`compose/manager.go:127`), and pruning removes the network of a stack that is stopped, which then does not start;
* stopping a stack passes over a container that the engine is restarting just then, which comes back after the stop has succeeded, against "brings every container in the stack down" (`compose/manager.go:144`, `:151`);
* an entry that is added to a crontab again is there, and runs, twice (`cron/cron.go:157`);
* an image pull that failed tells its browser the error and then "done" (`server/handlers_docker.go:397`);
* a sign-on takes any code that the provider accepts with a state of its own browser, as nothing (no nonce, no PKCE) ties the two: "the callback can verify the round-trip"
  (`server/handlers_oidc.go:14`) is true of the state alone;
* a backup taken while SQLite starts its log over may mix transactions;
* a sign-on is refused when a callback of another tab is answered after it began (`server/handlers_oidc.go:52`);
* an account made by single sign-on is found by its name, not by the provider's `sub` as `docs/oidc-setup.md:88` and `server/handlers_oidc.go:68` say
  (`SignOn` leaves names out, `PanelUsers` lets the provider give any).

And some things were seen in reading that no model contains:

* an image pull reads its request from the handshake's body, which a browser leaves empty: the page, which sends it afterwards (`docs/api.md:120`), is always answered 400;
* the build's route is a POST (`server/routes.go:114`), which no WebSocket handshake is;
* installed packages are listed by `dpkg-query -W` (`packages/packages.go:185`), which also names those that were removed and left their configuration, against "the local equivalent of `apt list --installed`";
* an installation is killed with the browser's connection (`packages/packages.go:124`), and dpkg may then refuse to work until somebody runs `dpkg --configure -a`;
* a pull without a tag pulls every tag, against `docker/images.go:19`;
* setuid, setgid and sticky bits are accepted and dropped (`files/files.go:186`);
* a service may label itself `webtermin.stack` (`compose/compose.go:289`), and its container is then of another stack, or of none;
* bind sources such as `./html` are documented (`compose/compose.go:216`) and parsed, and refused when the container is created, after the old ones have gone;
* `server.Run` returns when `Shutdown` begins, so that the process ends without the five seconds that `server/server.go:82` gives its requests: a stop is a crash to them, which the models contain.

## What is not modelled

Data that no property tells apart: passwords, cookies, token and TOTP text, the bytes of
terminals and archives, the settings of services, schedules and commands of cron jobs, and
paths. Components that run one command or engine request per operation and keep no state (packages, services,
images, metrics), what the verification of an ID token checks, discovery at start-up, the audit log as a table, configuration, and the web
pages. The unescaping of nmcli's output, host names, which schedules, rules and addresses are accepted,
and system accounts are left out, as is what a service of a compose text becomes in the engine: a text that the engine refuses
is one of the calls that fail. An object `<stack>_<name>` of the engine is the pair of its parts, so that the network `app_net` of a stack `web` and `net` of a stack `web_app`,
which are one to the engine, are two in the model. A container is restarted only after it has run: `unless-stopped` and `always` over a restart of the engine or the host are left out. Archives of other directories than the panel's own are not modelled. A short append to WireGuard's file is taken for a failed one.

## Plan

In the order in which they were, or will be, written:

1. Done: the `PanelUsers` family with its refinement and proofs, and `SignOn` with proofs; `Login` with proofs;
   `WireGuardConf` with failing writes, `FileWrites` with modes, and `ConfFiles`, with proofs; `Terminal` and `Streams` with proofs; `TopoSort`, `Stacks` and `DockerPage` with proofs; the
   eight components of `Host` with proofs.
2. Model further: the labels and the `container_name` that a service may give itself in `ToSpec`; set-up and the database's migrations in `Bootstrap`;
   the `--temporary` that network.go speaks of as a run; the name a sign-on's account gets; dpkg's state, which outlives a package manager that is killed with the browser's connection.
3. Abstract specifications still worth stating: a bag of entries for `Crontab`, a set of keys for `AuthorizedKeys`, a register for `FileWrites`, each
   implemented by the detailed module when requests do not overlap.
4. Prove: those refinements; and of `FileWrites`, that a save that gets to its end alone restores whatever went before.
