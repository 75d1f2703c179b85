------------------------------- MODULE Backups -------------------------------
(***************************************************************************)
(* Backups (internal/backup/backup.go, handlers_backup.go,                 *)
(* store/backups.go): an archive in a directory and a row in a table, each *)
(* of which can be there without the other.                                *)
(*                                                                         *)
(* An archive is called <name>-<second>.tar.gz.                            *)
(***************************************************************************)
EXTENDS Naturals, Functions

CONSTANTS
  Requests,     \* goroutines serving requests
  BackupNames,
  MaxSecond,    \* bound: the clock
  MaxRows       \* bound: ids the table hands out

VARIABLES
  second,     \* the clock
  disk,       \* path -> [by, whole]: who wrote the archive, and whether to its end
  rows,       \* the backups table: id -> path
  lastRow,    \* its AUTOINCREMENT counter
  pc, req,    \* requests in progress
  orphans,    \* history: paths whose creation was cut or got no row
  erased      \* history: paths a deletion has removed

backupVars == <<second, disk, rows, lastRow, pc, req, orphans, erased>>
table == <<rows, lastRow>>

Path == BackupNames \X (0..MaxSecond)
NoRequest == [path |-> <<>>, row |-> 0]

(* Archives and rows have paths, and nobody else's archive is whole or has a row
   while a request still writes to the path, unless it was removed under it. *)
TypeOK ==
  /\ second \in 0..MaxSecond /\ lastRow \in 0..MaxRows
  /\ DOMAIN disk \subseteq Path
  /\ DOMAIN rows \subseteq 1..lastRow /\ \A i \in DOMAIN rows : rows[i] \in Path
  /\ \A r \in Requests :
       /\ pc[r] \in {"idle", "open", "tar", "insert", "unlink", "drop"}
       /\ pc[r] = "tar" /\ req[r].path \notin erased =>
            /\ disk[req[r].path] = [by |-> r, whole |-> FALSE]
            /\ \A i \in DOMAIN rows : rows[i] # req[r].path

Init ==
  /\ second = 0 /\ disk = <<>> /\ rows = <<>> /\ lastRow = 0
  /\ pc = [r \in Requests |-> "idle"] /\ req = [r \in Requests |-> NoRequest]
  /\ orphans = {} /\ erased = {}

Become(r, step, record) == pc' = [pc EXCEPT ![r] = step] /\ req' = [req EXCEPT ![r] = record]
Reply(r) == Become(r, "idle", NoRequest)

Tick ==
  /\ second < MaxSecond /\ second' = second + 1
  /\ UNCHANGED <<disk, table, pc, req, orphans, erased>>

------------------------------------------------------------------------------
(* handleBackupCreate *)

(* The path is made from the time. *)
BeginCreate(r) ==
  /\ pc[r] = "idle"
  /\ \E n \in BackupNames : Become(r, "open", [path |-> <<n, second>>, row |-> 0])
  /\ UNCHANGED <<second, disk, table, orphans, erased>>

On(p, record) == [q \in DOMAIN disk \cup {p} |-> IF q = p THEN record ELSE disk[q]]
Without(p) == Restrict(disk, DOMAIN disk \ {p})

(* O_EXCL: of two backups with one name in a second, the later is refused. *)
Open(r) ==
  /\ pc[r] = "open"
  /\ IF req[r].path \in DOMAIN disk
     THEN Reply(r) /\ UNCHANGED disk
     ELSE /\ disk' = On(req[r].path, [by |-> r, whole |-> FALSE])
          /\ Become(r, "tar", req[r])
  /\ UNCHANGED <<second, table, orphans, erased>>

(* The archive is closed; its file may have lost its name meanwhile. *)
Tar(r) ==
  /\ pc[r] = "tar"
  /\ LET p == req[r].path
     IN disk' = IF p \in DOMAIN disk /\ disk[p].by = r
                THEN [disk EXCEPT ![p].whole = TRUE] ELSE disk
  /\ Become(r, "insert", req[r])
  /\ UNCHANGED <<second, table, orphans, erased>>

(* Mutant: what was written so far stays. *)
TarFailsDirty(r) ==
  /\ pc[r] = "tar"
  /\ Reply(r)
  /\ UNCHANGED <<second, disk, table, orphans, erased>>

(* A file cannot be read, or has grown since its header was written, as the
   archive itself may; whatever has the path is removed. *)
TarFails(r) ==
  /\ pc[r] = "tar"
  /\ disk' = Without(req[r].path)
  /\ Reply(r)
  /\ UNCHANGED <<second, table, orphans, erased>>

Insert(r) ==
  /\ pc[r] = "insert" /\ lastRow < MaxRows
  /\ lastRow' = lastRow + 1
  /\ rows' = [i \in DOMAIN rows \cup {lastRow'} |-> IF i = lastRow' THEN req[r].path ELSE rows[i]]
  /\ Reply(r)
  /\ UNCHANGED <<second, disk, orphans, erased>>

(* The archive stays. *)
InsertFails(r) ==
  /\ pc[r] = "insert"
  /\ orphans' = orphans \cup {req[r].path}
  /\ Reply(r)
  /\ UNCHANGED <<second, disk, table, erased>>

------------------------------------------------------------------------------
(* handleBackupDelete *)

BeginDelete(r) ==
  /\ pc[r] = "idle"
  /\ \E i \in DOMAIN rows : Become(r, "unlink", [path |-> rows[i], row |-> i])
  /\ UNCHANGED <<second, disk, table, orphans, erased>>

(* An archive that is missing is fine; when it cannot be removed, the row stays
   for visibility. *)
Unlink(r) ==
  /\ pc[r] = "unlink"
  /\ \/ /\ disk' = Without(req[r].path)
        /\ erased' = erased \cup {req[r].path}
        /\ Become(r, "drop", req[r])
     \/ Reply(r) /\ UNCHANGED <<disk, erased>>
  /\ UNCHANGED <<second, table, orphans>>

(* The statement may fail; the row of a missing archive can be deleted again. *)
Drop(r) ==
  /\ pc[r] = "drop"
  /\ rows' \in {rows, Restrict(rows, DOMAIN rows \ {req[r].row})}
  /\ Reply(r)
  /\ UNCHANGED <<second, disk, lastRow, orphans, erased>>

(* The process dies. *)
Crash ==
  /\ orphans' = orphans \cup {req[r].path : r \in {r \in Requests : pc[r] \in {"tar", "insert"}}}
  /\ pc' = [r \in Requests |-> "idle"] /\ req' = [r \in Requests |-> NoRequest]
  /\ UNCHANGED <<second, disk, table, erased>>

Next ==
  \/ Tick \/ Crash
  \/ \E r \in Requests :
       \/ BeginCreate(r) \/ Open(r) \/ Tar(r) \/ TarFails(r) \/ Insert(r) \/ InsertFails(r)
       \/ BeginDelete(r) \/ Unlink(r) \/ Drop(r)

(* A backup that is listed can be downloaded whole, unless somebody has begun to
   delete it: its archive was written to its end before its row. *)
ListedIsWhole ==
  \A i \in DOMAIN rows : rows[i] \notin erased => rows[i] \in DOMAIN disk /\ disk[rows[i]].whole

(* "Failures clean up any partial file" and "if that fails the DB row stays for
   visibility": every archive in the directory is listed or being made, but for
   those left by a crash or a failed insertion, or made anew in the second they
   were deleted. *)
OnDiskIsListed ==
  \A p \in DOMAIN disk \ (orphans \cup erased) :
    \/ \E i \in DOMAIN rows : rows[i] = p
    \/ \E r \in Requests : pc[r] \in {"tar", "insert"} /\ req[r].path = p
==============================================================================
