------------------------------ MODULE ConfFiles ------------------------------
(***************************************************************************)
(* The two ways the panel writes files of its host: WireGuardConf's, which *)
(* is appended to and rewritten in place, and FileWrites', which is        *)
(* replaced by renaming.  They share no state, so a behaviour is of one or *)
(* of the other; content is NoInode where it is the first's.               *)
(***************************************************************************)
EXTENDS WireGuardConf

CONSTANTS
  Writers, Inodes, Lengths, Default, Modes, NoInode  \* FileWrites

VARIABLES file, tmp, dir, content, saving, save, overlapped, wanted, disturbed

Files == INSTANCE FileWrites WITH pc <- saving, req <- save, overlap <- overlapped

ASSUME FilesAssumption == Files!ConstantsOK

filesVars == <<file, tmp, dir, content, saving, save, overlapped, wanted, disturbed>>

NoFiles ==
  /\ file = NoInode /\ tmp = NoInode /\ dir = NoInode /\ content = NoInode
  /\ saving = NoInode /\ save = NoInode
  /\ overlapped = NoInode /\ wanted = NoInode /\ disturbed = NoInode

ConfSpec == Init /\ NoFiles /\ [][Next /\ UNCHANGED filesVars]_<<vars, filesVars>>
SideSpec ==
  /\ (Init /\ NoFiles) \/ (Init /\ conf.eol /\ Files!Init)
  /\ [][\/ Next /\ content = NoInode /\ UNCHANGED filesVars
        \/ content # NoInode /\ Files!Next /\ UNCHANGED vars]_<<vars, filesVars>>

(* The file is one whole text that somebody saved (files.WriteText, files.Save). *)
FileWhole == content # NoInode => Files!WholeUnlessOverlapped

(* The file has the mode that was last given to it (files.WriteText, files.Chmod). *)
ModeAsWanted == content # NoInode => Files!ModeAsWanted
==============================================================================
