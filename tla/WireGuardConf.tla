---------------------------- MODULE WireGuardConf ----------------------------
(***************************************************************************)
(* Adding and removing WireGuard peers (internal/wireguard/wireguard.go):  *)
(* the live interface, which `wg set` changes, and the wg-quick file that  *)
(* is to bring the same peers back after a reboot.                         *)
(*                                                                         *)
(* The file is what splitConfigBlocks makes of it: blocks separated by     *)
(* blank lines, each the sequence of its sections; a section is the        *)
(* [Interface] or the public key of a [Peer].  eol tells whether the text  *)
(* ends with a newline.  Nothing locks the file: each system call is an    *)
(* action, and os.WriteFile is two, since it truncates before it writes.   *)
(* Their errors are ignored, and the panel may stop between any two.       *)
(***************************************************************************)
EXTENDS Naturals, Sequences, FiniteSets, Lines

CONSTANTS
  Handlers, Kinds,   \* goroutines, and what each may serve
  Keys,              \* public keys of peers
  Interface,         \* the [Interface] section
  FinalNewline,      \* how the file may end at first: a subset of BOOLEAN
  Faults,            \* system calls may fail and the panel may crash
  MaxSections        \* bound: sections in the file

Kind == {"add", "remove"}

ASSUME KindsAssumption == Kinds \in [Handlers -> SUBSET Kind]
ASSUME InterfaceAssumption == Interface \notin Keys
ASSUME FileAssumption == FinalNewline \subseteq BOOLEAN
ASSUME BoundAssumption == Faults \in BOOLEAN /\ MaxSections \in Nat

VARIABLES
  live,      \* peers of the running interface
  conf,      \* the file: [blocks, eol]
  pc, req,   \* the requests in progress: [key, next], next the text to write
  merged,    \* history: a peer was appended to a block that was there before
  overlap,   \* history: a removal was in progress together with another request
  unsaved,   \* history: live peers whose section was not appended
  undropped, \* history: removed peers whose section was not dropped
  cut        \* history: the file was truncated and not written again

faults == <<unsaved, undropped, cut>>
vars == <<live, conf, pc, req, merged, overlap, unsaved, undropped, cut>>

Section == Keys \cup {Interface}
Empty == [blocks |-> <<>>, eol |-> FALSE]
NoRequest == [key |-> Interface, next |-> Empty]

Sections(text) == UNION {{text.blocks[i][j] : j \in DOMAIN text.blocks[i]} :
                           i \in DOMAIN text.blocks}
Peers(text) == Sections(text) \ {Interface}
Size(text) == Cardinality(UNION {{i} \X DOMAIN text.blocks[i] : i \in DOMAIN text.blocks})

IsText(text) ==
  /\ text.eol \in BOOLEAN
  /\ \A i \in DOMAIN text.blocks :
       /\ text.blocks[i] # <<>>
       /\ \A j \in DOMAIN text.blocks[i] : text.blocks[i][j] \in Section

(* The file is blocks of sections; every request in progress remembers a peer
   and a text to write. *)
TypeOK ==
  /\ live \subseteq Keys
  /\ IsText(conf)
  /\ pc \in [Handlers -> {"idle", "append", "read", "truncate", "write"}]
  /\ \A h \in Handlers : req[h].key \in Section /\ IsText(req[h].next)
  /\ merged \in BOOLEAN /\ overlap \in BOOLEAN
  /\ unsaved \subseteq Keys /\ undropped \subseteq Keys /\ cut \in BOOLEAN

(* An interface is set up, with no peers yet. *)
Init ==
  /\ live = {}
  /\ conf \in [blocks : {<<<<Interface>>>>}, eol : FinalNewline]
  /\ pc = [h \in Handlers |-> "idle"]
  /\ req = [h \in Handlers |-> NoRequest]
  /\ merged = FALSE /\ overlap = FALSE
  /\ unsaved = {} /\ undropped = {} /\ cut = FALSE

Become(h, step, record) == /\ pc' = [pc EXCEPT ![h] = step]
                           /\ req' = [req EXCEPT ![h] = record]
Reply(h) == Become(h, "idle", NoRequest)

(* History: what was in progress when a request began. *)
Begins(kind) ==
  overlap' = (overlap \/ \E g \in Handlers :
                           IF kind = "remove" THEN pc[g] # "idle"
                           ELSE pc[g] \in {"read", "truncate", "write"})

------------------------------------------------------------------------------
(* AddPeer. *)

(* The text with "\n[Peer]\n...\n" appended: the first newline ends an
   unfinished line, or makes the blank line that separates blocks. *)
Appended(text, key) ==
  IF text.eol \/ text.blocks = <<>>
  THEN [blocks |-> Append(text.blocks, <<key>>), eol |-> TRUE]
  ELSE [blocks |-> [text.blocks EXCEPT ![Len(text.blocks)] = Append(@, key)], eol |-> TRUE]

(* wg set <iface> peer <key> allowed-ips ... *)
AddLive(h) ==
  /\ pc[h] = "idle" /\ "add" \in Kinds[h]
  /\ Size(conf) + Cardinality({g \in Handlers : pc[g] = "append"}) < MaxSections
  /\ \E key \in Keys :
       /\ live' = live \cup {key}
       /\ Become(h, "append", [NoRequest EXCEPT !.key = key])
  /\ Begins("add")
  /\ UNCHANGED <<conf, merged, faults>>

(* One write to a file opened for appending. *)
AddConf(h) ==
  /\ pc[h] = "append"
  /\ conf' = Appended(conf, req[h].key)
  /\ merged' = (merged \/ (conf.blocks # <<>> /\ ~conf.eol))
  /\ unsaved' = unsaved \ {req[h].key}
  /\ Reply(h)
  /\ UNCHANGED <<live, overlap, undropped, cut>>

(* The file is not opened or not written; the request succeeds all the same. *)
AddConfFails(h) ==
  /\ Faults /\ pc[h] = "append"
  /\ unsaved' = unsaved \cup {req[h].key}
  /\ Reply(h)
  /\ UNCHANGED <<live, conf, merged, overlap, undropped, cut>>

------------------------------------------------------------------------------
(* RemovePeer. *)

(* A block belongs to the peer that its first section names. *)
IsPeerBlockFor(block, key) == block[1] = key

(* Mutant: only the first block of the peer is dropped. *)
DropMatchingOnce(text, key) ==
  IF \E i \in DOMAIN text.blocks : IsPeerBlockFor(text.blocks[i], key)
  THEN LET i == CHOOSE i \in DOMAIN text.blocks : IsPeerBlockFor(text.blocks[i], key)
       IN [blocks |-> SubSeq(text.blocks, 1, i - 1)
                      \o SubSeq(text.blocks, i + 1, Len(text.blocks)), eol |-> FALSE]
  ELSE [text EXCEPT !.eol = FALSE]

(* Mutant: the peer's lines go and an empty block stays. *)
DropLines(text, key) ==
  [blocks |-> [i \in DOMAIN text.blocks |->
                 SelectSeq(text.blocks[i], LAMBDA section : section # key)],
   eol |-> FALSE]

(* The text is trimmed, and joined again without a newline at its end. *)
DropPeerBlock(text, key) ==
  LET kept == {i \in DOMAIN text.blocks : ~IsPeerBlockFor(text.blocks[i], key)}
  IN [blocks |-> LinesAt(text.blocks, kept), eol |-> FALSE]

(* wg set <iface> peer <key> remove; removing no peer at all succeeds too. *)
RemoveLive(h) ==
  /\ pc[h] = "idle" /\ "remove" \in Kinds[h]
  /\ \E key \in Keys :
       /\ live' = live \ {key} /\ unsaved' = unsaved \ {key}
       /\ Become(h, "read", [NoRequest EXCEPT !.key = key])
  /\ Begins("remove")
  /\ UNCHANGED <<conf, merged, undropped, cut>>

(* ReadFile; nothing is written when nothing changes. *)
RemoveRead(h) ==
  /\ pc[h] = "read"
  /\ LET next == DropPeerBlock(conf, req[h].key)
     IN IF next = conf THEN Reply(h)
        ELSE Become(h, "truncate", [req[h] EXCEPT !.next = next])
  /\ UNCHANGED <<live, conf, merged, overlap, faults>>

(* os.WriteFile opens the file, and so truncates it. *)
RemoveTruncate(h) ==
  /\ pc[h] = "truncate"
  /\ conf' = Empty
  /\ Become(h, "write", req[h])
  /\ UNCHANGED <<live, merged, overlap, faults>>

(* The write starts at the beginning of the file, so what was appended since
   the truncation is overwritten. *)
RemoveWrite(h) ==
  /\ pc[h] = "write"
  /\ conf' = req[h].next
  /\ undropped' = undropped \ {req[h].key}
  /\ Reply(h)
  /\ UNCHANGED <<live, merged, overlap, unsaved, cut>>

(* Mutant: a file that cannot be opened is taken for an empty one. *)
RemoveFailsEmptied(h) ==
  /\ Faults /\ pc[h] \in {"read", "truncate", "write"}
  /\ conf' = Empty /\ undropped' = undropped \cup {req[h].key}
  /\ Reply(h)
  /\ UNCHANGED <<live, merged, overlap, unsaved, cut>>

(* The file is not read or not opened, which leaves it as it was, or a prefix
   of it is written; the request succeeds all the same. *)
RemoveFails(h) ==
  /\ Faults /\ pc[h] \in {"read", "truncate", "write"}
  /\ IF pc[h] = "write"
     THEN /\ \E n \in 0..Len(req[h].next.blocks) :
               conf' = [blocks |-> SubSeq(req[h].next.blocks, 1, n), eol |-> FALSE]
          /\ cut' = TRUE /\ UNCHANGED undropped
     ELSE undropped' = undropped \cup {req[h].key} /\ UNCHANGED <<conf, cut>>
  /\ Reply(h)
  /\ UNCHANGED <<live, merged, overlap, unsaved>>

------------------------------------------------------------------------------
AtRest == \A h \in Handlers : pc[h] = "idle"

(* wg-quick brings the interface up from the file. *)
Reboot ==
  /\ AtRest
  /\ live' = Peers(conf) /\ unsaved' = {} /\ undropped' = {}
  /\ UNCHANGED <<conf, pc, req, merged, overlap, cut>>

KeysAt(steps) == {req[h].key : h \in {g \in Handlers : pc[g] \in steps}}

(* The panel stops: the interface stays up and the requests are over. *)
Crash ==
  /\ Faults /\ ~AtRest
  /\ unsaved' = unsaved \cup KeysAt({"append"})
  /\ undropped' = undropped \cup KeysAt({"read", "truncate"})
  /\ cut' = (cut \/ KeysAt({"write"}) # {})
  /\ pc' = [h \in Handlers |-> "idle"] /\ req' = [h \in Handlers |-> NoRequest]
  /\ UNCHANGED <<live, conf, merged, overlap>>

Step(h) == \/ AddLive(h) \/ AddConf(h) \/ AddConfFails(h)
           \/ RemoveLive(h) \/ RemoveRead(h) \/ RemoveTruncate(h) \/ RemoveWrite(h)
           \/ RemoveFails(h)

Next == Reboot \/ Crash \/ \E h \in Handlers : Step(h)

Spec == Init /\ [][Next]_vars

------------------------------------------------------------------------------
(* Properties. *)

(* "Persists changes ... so they survive a reboot": between requests the file
   names the peers that are live. *)
SurvivesReboot == AtRest => Peers(conf) = live

(* Only so much makes the file and the interface disagree: a peer appended to a
   text without a final newline, a removal that overlaps another request, a file
   cut short, and of a failed or interrupted request the one peer it was for.
   Additions may overlap each other, and other peers are never touched. *)
SurvivesUnlessDisturbed ==
  AtRest /\ ~merged /\ ~overlap /\ ~cut =>
    /\ live \ Peers(conf) \subseteq unsaved
    /\ Peers(conf) \ live \subseteq undropped

(* Unless removals overlap other requests, or the write of one fails half-way,
   removing peers never loses the interface's own section, merged blocks or not. *)
InterfaceKept == AtRest /\ ~overlap /\ ~cut => Interface \in Sections(conf)
==============================================================================
