------------------------------- MODULE LiveCopy -------------------------------
(***************************************************************************)
(* What a backup holds of the panel's own database (internal/backup,       *)
(* internal/store): webtermin.db and webtermin.db-wal, which filepath.Walk *)
(* reaches in this order, are copied while requests go on committing.      *)
(*                                                                         *)
(* SQLite in WAL mode appends the pages of a transaction to the log as     *)
(* frames, the last one marked; a checkpoint copies them to the database,  *)
(* and the next transaction then starts the log over with a new salt,      *)
(* leaving older frames behind its end.  A page is the commit it is of.    *)
(***************************************************************************)
EXTENDS Naturals, Sequences, Lines

CONSTANTS
  NumPages,     \* pages of the database
  MaxCommits    \* bound: transactions

Pages == 1..NumPages

VARIABLES
  dbFile,      \* page -> version
  wal,         \* [salt, frames, end]: the log's header, its frames, how many are current
  writing,     \* frames of the transaction in progress that are still to be written
  checkpoint,  \* pages a checkpoint has still to copy
  commits,     \* history: the committed states, first to last
  pc,          \* the backup: "idle", "db", "stat", "wal", "done" or "failed"
  req,         \* its copy: [since, db, salt, size, frames]
  moved        \* history: the log was started over under the copy

liveVars == <<dbFile, wal, writing, checkpoint, commits, pc, req, moved>>
sqlite == <<dbFile, wal, writing, checkpoint, commits>>

NoCopy == [since |-> 0, db |-> <<>>, salt |-> 0, size |-> 0, frames |-> <<>>]

(* The log holds its current frames, and the copy what it has got to. *)
TypeOK ==
  /\ dbFile \in [Pages -> 0..MaxCommits]
  /\ wal.end \in 0..Len(wal.frames)
  /\ checkpoint \subseteq Pages /\ Len(commits) \in 1..MaxCommits + 1
  /\ pc \in {"idle", "db", "stat", "wal", "done", "failed"}
  /\ Len(req.db) <= NumPages /\ Len(req.frames) <= req.size /\ req.since <= Len(commits)

Init ==
  /\ dbFile = [p \in Pages |-> 0]
  /\ wal = [salt |-> 0, frames |-> <<>>, end |-> 0]
  /\ writing = <<>> /\ checkpoint = {}
  /\ commits = <<dbFile>>
  /\ pc = "idle" /\ req = NoCopy /\ moved = FALSE

Copying == pc \in {"db", "stat", "wal"}

(* The pages after the frames up to the last one that ends a transaction; a frame
   of another salt ends the log. *)
Recovered(db, salt, frames) ==
  LET valid(n) == n <= Len(frames) /\ \A i \in 1..n : frames[i].salt = salt
      ends == {n \in 1..Len(frames) : valid(n) /\ frames[n].last}
      upto == IF ends = {} THEN 0 ELSE CHOOSE n \in ends : \A m \in ends : m <= n
      newest(p) == {i \in 1..upto : frames[i].page = p}
  IN [p \in Pages |-> IF newest(p) = {} THEN db[p]
                      ELSE frames[CHOOSE i \in newest(p) : \A j \in newest(p) : j <= i].version]

------------------------------------------------------------------------------
(* SQLite. *)

(* The frames a transaction will write to these pages. *)
Frames(pages, salt) ==
  [i \in 1..Cardinality(pages) |->
     [page |-> Nth(pages, i), version |-> Len(commits), salt |-> salt, last |-> i = Cardinality(pages)]]

Current == SubSeq(wal.frames, 1, wal.end)
BackFilled == Recovered(dbFile, wal.salt, Current) = dbFile

(* A transaction begins; a log that is all in the database is started over. *)
Transaction ==
  /\ writing = <<>> /\ checkpoint = {} /\ Len(commits) <= MaxCommits
  /\ \E pages \in (SUBSET Pages) \ {{}}, over \in BOOLEAN :
       /\ over => BackFilled /\ wal.end > 0
       /\ LET salt == IF over THEN wal.salt + 1 ELSE wal.salt
          IN /\ wal' = IF over THEN [wal EXCEPT !.salt = salt, !.end = 0] ELSE wal
             /\ writing' = Frames(pages, salt)
       /\ moved' = (moved \/ (over /\ Copying))
  /\ UNCHANGED <<dbFile, checkpoint, commits, pc, req>>

Put(frames, n, frame) == IF n > Len(frames) THEN Append(frames, frame) ELSE [frames EXCEPT ![n] = frame]

(* The last frame commits. *)
WriteFrame ==
  /\ writing # <<>>
  /\ wal' = [wal EXCEPT !.frames = Put(@, wal.end + 1, Head(writing)), !.end = @ + 1]
  /\ writing' = Tail(writing)
  /\ commits' = IF writing' # <<>> THEN commits
                ELSE Append(commits, Recovered(dbFile, wal'.salt, SubSeq(wal'.frames, 1, wal'.end)))
  /\ UNCHANGED <<dbFile, checkpoint, pc, req, moved>>

(* After a commit the log may be checkpointed, one page after the other. *)
BeginCheckpoint ==
  /\ writing = <<>> /\ checkpoint = {} /\ ~BackFilled
  /\ checkpoint' = {p \in Pages : Recovered(dbFile, wal.salt, Current)[p] # dbFile[p]}
  /\ UNCHANGED <<dbFile, wal, writing, commits, pc, req, moved>>

CheckpointPage ==
  /\ \E p \in checkpoint :
       /\ dbFile' = [dbFile EXCEPT ![p] = Recovered(dbFile, wal.salt, Current)[p]]
       /\ checkpoint' = checkpoint \ {p}
  /\ UNCHANGED <<wal, writing, commits, pc, req, moved>>

------------------------------------------------------------------------------
(* backup.Create's walk over data_dir. *)

BeginCopy ==
  /\ pc = "idle"
  /\ pc' = "db" /\ req' = [NoCopy EXCEPT !.since = Len(commits)]
  /\ UNCHANGED <<sqlite, moved>>

(* io.Copy reads one piece after the other. *)
CopyPage ==
  /\ pc = "db"
  /\ req' = [req EXCEPT !.db = Append(@, dbFile[Len(@) + 1])]
  /\ pc' = IF Len(req'.db) = NumPages THEN "stat" ELSE "db"
  /\ UNCHANGED <<sqlite, moved>>

(* Mutant: files of the database beside the database are left out. *)
SkipLog ==
  /\ pc = "stat"
  /\ pc' = "done"
  /\ UNCHANGED <<sqlite, req, moved>>

(* Lstat tells how much the archive will hold; the header is read. *)
CopyHeader ==
  /\ pc = "stat"
  /\ req' = [req EXCEPT !.salt = wal.salt, !.size = Len(wal.frames)]
  /\ pc' = "wal"
  /\ UNCHANGED <<sqlite, moved>>

(* Mutant: nothing holds the copy to the size in its header. *)
CopyOn ==
  /\ pc = "wal"
  /\ LET n == Len(req.frames) + 1
     IN IF n <= Len(wal.frames)
        THEN req' = [req EXCEPT !.frames = Append(@, wal.frames[n])] /\ UNCHANGED pc
        ELSE pc' = "done" /\ UNCHANGED req
  /\ UNCHANGED <<sqlite, moved>>

(* A log that has grown since is too long for its entry, and the backup fails. *)
CopyFrame ==
  /\ pc = "wal"
  /\ LET n == Len(req.frames) + 1
     IN IF n <= req.size
        THEN req' = [req EXCEPT !.frames = Append(@, wal.frames[n])] /\ UNCHANGED pc
        ELSE pc' = (IF Len(wal.frames) = req.size THEN "done" ELSE "failed") /\ UNCHANGED req
  /\ UNCHANGED <<sqlite, moved>>

Next ==
  \/ Transaction \/ WriteFrame \/ BeginCheckpoint \/ CheckpointPage
  \/ BeginCopy \/ CopyPage \/ CopyHeader \/ CopyFrame

(* A backup restores to a state that was committed, and to none from before it
   began, even if the database's pages change under the copy: their frames are in
   the log, which is copied last.  Unless the log is started over meanwhile: then
   it may have pages of several transactions, and nothing says so. *)
RestoresCommitted ==
  pc = "done" /\ ~moved =>
    \E n \in req.since..Len(commits) : Recovered(req.db, req.salt, req.frames) = commits[n]
==============================================================================
