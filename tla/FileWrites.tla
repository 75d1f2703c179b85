------------------------------ MODULE FileWrites ------------------------------
(***************************************************************************)
(* One file of the file manager (internal/files/files.go,                  *)
(* handlers_files.go): the editor's WriteText and an upload's Save write a *)
(* temporary file next to it, the same for everybody, and rename it;       *)
(* others change its mode, delete it, or its directory, and make that      *)
(* again.                                                                  *)
(*                                                                         *)
(* A text is as many chunks as it is long, each marked with the text it is *)
(* of.  A writer keeps the inode it opened whatever the names do.          *)
(***************************************************************************)
EXTENDS Naturals, Sequences

CONSTANTS
  Writers,    \* goroutines serving requests
  Inodes,     \* the file system's, free again when no name or writer has them
  Lengths,    \* text -> the number of its chunks, at least one
  Default,    \* the mode 0644
  Modes,      \* modes somebody may set
  NoInode     \* a name that is not there

Texts == DOMAIN Lengths
ConstantsOK == NoInode \notin Inodes /\ \A t \in Texts : Lengths[t] \in Nat \ {0}
Whole(t) == [i \in 1..Lengths[t] |-> t]
Nothing == [chunks |-> <<>>, mode |-> Default]

VARIABLES
  file, tmp,  \* the inodes of the two names
  dir,        \* the directory is there
  content,    \* inode -> its chunks and its mode
  pc, req,    \* saves in progress
  overlap,    \* history: saves overlapped, and none ran alone since
  wanted,     \* history: the mode last given to the file on purpose
  disturbed   \* history: a save met a temporary file, or another request on the file or
              \* its directory, and nothing has given the file a mode since

fileVars == <<file, tmp, dir, content, pc, req, overlap, wanted, disturbed>>
names == <<file, tmp, dir>>
history == <<overlap, wanted, disturbed>>

(* at is the chunk written last; history: alone, no other save was in progress;
   clean, nothing else was either. *)
NoRequest == [kind |-> "none", text |-> "none", mode |-> Default, inode |-> NoInode, at |-> 0,
              alone |-> TRUE, clean |-> TRUE]

Requests ==
  [kind : {"none", "text", "upload"}, text : Texts \cup {"none"}, mode : Modes \cup {Default},
   inode : Inodes \cup {NoInode}, at : Nat, alone : BOOLEAN, clean : BOOLEAN]

(* A writer that got so far has a file open, and has written no more than its text. *)
SaveOK(w) ==
  /\ pc[w] = "idle" => req[w] = NoRequest
  /\ pc[w] # "idle" => req[w].kind # "none" /\ req[w].text \in Texts
  /\ pc[w] = "stat" => req[w].kind = "text"
  /\ pc[w] \in {"stat", "open"} => req[w].inode = NoInode /\ req[w].at = 0
  /\ pc[w] \in {"write", "rename"} => req[w].inode \in Inodes
  /\ pc[w] = "write" => req[w].at < Lengths[req[w].text]
  /\ pc[w] = "rename" => req[w].at = Lengths[req[w].text]

(* The names are two files, and each save knows what its step needs. *)
TypeOK ==
  /\ file \in Inodes \cup {NoInode} /\ tmp \in Inodes \cup {NoInode}
  /\ file = tmp => file = NoInode
  /\ dir \in BOOLEAN /\ (dir \/ (file = NoInode /\ tmp = NoInode))
  /\ content \in [Inodes -> [chunks : Seq(Texts \cup {"hole"}), mode : Modes \cup {Default}]]
  /\ pc \in [Writers -> {"idle", "stat", "open", "write", "rename"}]
  /\ req \in [Writers -> Requests] /\ \A w \in Writers : SaveOK(w)
  /\ overlap \in BOOLEAN /\ wanted \in Modes \cup {Default} /\ disturbed \in BOOLEAN

Init ==
  /\ \E i \in Inodes, t \in Texts :
       /\ file = i
       /\ content = [j \in Inodes |-> IF j = i THEN [Nothing EXCEPT !.chunks = Whole(t)] ELSE Nothing]
  /\ tmp = NoInode /\ dir = TRUE
  /\ pc = [w \in Writers |-> "idle"] /\ req = [w \in Writers |-> NoRequest]
  /\ overlap = FALSE /\ wanted = Default /\ disturbed = FALSE

(* An inode is gone when neither a name nor a writer has it. *)
Live(inodes, writers) ==
  [i \in Inodes |-> IF i \in inodes \cup {req[w].inode : w \in writers} THEN content[i] ELSE Nothing]

Reply(w) == pc' = [pc EXCEPT ![w] = "idle"] /\ req' = [req EXCEPT ![w] = NoRequest]

Busy == {w \in Writers : pc[w] # "idle"}

(* History: whatever saves are in progress are not the only ones to touch the file. *)
Stained(saves) == [w \in Writers |-> IF w \in Busy THEN [saves[w] EXCEPT !.clean = FALSE] ELSE saves[w]]

Begin(w) ==
  /\ pc[w] = "idle"
  /\ \E kind \in {"text", "upload"}, t \in Texts :
       /\ req' = [v \in Writers |->
                    IF v = w THEN [NoRequest EXCEPT !.kind = kind, !.text = t,
                                                    !.alone = (Busy = {}), !.clean = (Busy = {})]
                    ELSE IF v \in Busy THEN [req[v] EXCEPT !.alone = FALSE, !.clean = FALSE]
                    ELSE req[v]]
       /\ pc' = [pc EXCEPT ![w] = IF kind = "text" THEN "stat" ELSE "open"]
  /\ overlap' = (overlap \/ Busy # {})
  /\ UNCHANGED <<names, content, wanted, disturbed>>

(* Mutant: every text is saved with the default mode. *)
StatNot(w) ==
  /\ pc[w] = "stat"
  /\ pc' = [pc EXCEPT ![w] = "open"]
  /\ UNCHANGED <<names, content, req, history>>

(* "Preserve mode if file already exists." *)
Stat(w) ==
  /\ pc[w] = "stat"
  /\ req' = [req EXCEPT ![w].mode = IF file = NoInode THEN Default ELSE content[file].mode]
  /\ pc' = [pc EXCEPT ![w] = "open"]
  /\ UNCHANGED <<names, content, history>>

Free == Inodes \ ({file, tmp} \cup {req[w].inode : w \in Writers})

(* Mutant: what an earlier save left in the temporary file stays. *)
OpenAsIs(w) ==
  /\ pc[w] = "open" /\ dir
  /\ \E i \in IF tmp = NoInode THEN Free ELSE {tmp} :
       /\ tmp' = i
       /\ content' = [content EXCEPT ![i] = IF i = tmp THEN @ ELSE Nothing]
       /\ req' = [req EXCEPT ![w].inode = i]
  /\ pc' = [pc EXCEPT ![w] = "write"]
  /\ UNCHANGED <<file, dir, history>>

(* O_CREATE|O_TRUNC: an existing file is emptied, and keeps its mode. *)
Open(w) ==
  /\ pc[w] = "open" /\ dir
  /\ \E i \in IF tmp = NoInode THEN Free ELSE {tmp} :
       /\ tmp' = i
       /\ content' = [content EXCEPT ![i] =
                        [chunks |-> <<>>, mode |-> IF i = tmp THEN @.mode ELSE req[w].mode]]
       /\ req' = [req EXCEPT ![w].inode = i, ![w].mode = Default,
                             ![w].clean = @ /\ tmp = NoInode]
  /\ pc' = [pc EXCEPT ![w] = "write"]
  /\ UNCHANGED <<file, dir, history>>

(* A chunk goes to the writer's own offset. *)
Put(chunks, at, t) ==
  [k \in 1..(IF at > Len(chunks) THEN at ELSE Len(chunks)) |->
     IF k = at THEN t ELSE IF k <= Len(chunks) THEN chunks[k] ELSE "hole"]

Write(w) ==
  /\ pc[w] = "write"
  /\ LET at == req[w].at + 1
         t == req[w].text
     IN /\ content' = [content EXCEPT ![req[w].inode].chunks = Put(@, at, t)]
        /\ req' = [req EXCEPT ![w].at = at]
        /\ pc' = [pc EXCEPT ![w] = IF at = Lengths[t] THEN "rename" ELSE "write"]
  /\ UNCHANGED <<names, history>>

(* History: the save that ends was alone on the file, or it was not. *)
Settle(w) ==
  /\ overlap' = (overlap /\ ~req[w].alone)
  /\ wanted' = IF req[w].kind = "upload" THEN Default ELSE wanted
  /\ disturbed' = (~req[w].clean \/ (disturbed /\ req[w].kind = "text"))

(* Whatever has the temporary name becomes the file. *)
Rename(w) ==
  /\ pc[w] = "rename" /\ tmp # NoInode
  /\ file' = tmp /\ tmp' = NoInode
  /\ Settle(w) /\ Reply(w)
  /\ content' = Live({tmp}, Writers \ {w})
  /\ UNCHANGED dir

(* The disk is full or the name has gone: Save removes the temporary name if it
   had opened it, WriteText leaves it. *)
Fail(w) ==
  /\ pc[w] # "idle"
  /\ LET left == IF req[w].kind = "upload" /\ pc[w] # "open" THEN NoInode ELSE tmp
     IN tmp' = left /\ content' = Live({file, left}, Writers \ {w})
  /\ Reply(w)
  /\ UNCHANGED <<file, dir, history>>

(* The process dies. *)
Crash ==
  /\ pc' = [w \in Writers |-> "idle"] /\ req' = [w \in Writers |-> NoRequest]
  /\ content' = Live({file, tmp}, {})
  /\ UNCHANGED <<names, history>>

Chmod ==
  /\ file # NoInode
  /\ \E mode \in Modes :
       content' = [content EXCEPT ![file].mode = mode] /\ wanted' = mode
  /\ disturbed' = FALSE /\ req' = Stained(req)
  /\ UNCHANGED <<names, pc, overlap>>

(* Delete of the file, or of the directory with all that is in it: one name after
   the other, then the directory itself. *)
Delete ==
  /\ \/ file # NoInode /\ file' = NoInode /\ wanted' = Default /\ disturbed' = FALSE
        /\ content' = Live({tmp}, Writers) /\ UNCHANGED <<tmp, dir>>
     \/ tmp # NoInode /\ tmp' = NoInode
        /\ content' = Live({file}, Writers) /\ UNCHANGED <<file, dir, wanted, disturbed>>
     \/ dir /\ file = NoInode /\ tmp = NoInode /\ dir' = FALSE
        /\ UNCHANGED <<file, tmp, content, wanted, disturbed>>
  /\ req' = Stained(req)
  /\ UNCHANGED <<pc, overlap>>

Mkdir ==
  /\ ~dir /\ dir' = TRUE
  /\ UNCHANGED <<file, tmp, content, pc, req, history>>

Next ==
  \/ \E w \in Writers : Begin(w) \/ Stat(w) \/ Open(w) \/ Write(w) \/ Rename(w) \/ Fail(w)
  \/ Crash \/ Chmod \/ Delete \/ Mkdir

Spec == Init /\ [][Next]_fileVars

(* The file is always one whole text that somebody saved, through full disks,
   failed copies and crashes, unless two saves of it overlapped and none has got
   to its end alone since. *)
WholeUnlessOverlapped ==
  file # NoInode /\ ~overlap => \E t \in Texts : content[file].chunks = Whole(t)

(* The file has the mode it was last given, by chmod, by an upload or by being
   made, however often it is edited: the editor saves another inode and has to
   carry the mode over.  It does not when it finds a temporary file that a failed
   save has left, or when another request is on the file at the same time. *)
ModeAsWanted == file # NoInode /\ ~disturbed => content[file].mode = wanted
==============================================================================
