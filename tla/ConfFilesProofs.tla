---------------------------- MODULE ConfFilesProofs ----------------------------
(***************************************************************************)
(* What holds of the file that is appended to and rewritten in place, and  *)
(* of the one that is replaced by renaming, for any number of requests,    *)
(* keys and texts: an inductive invariant for each, and at the end what    *)
(* follows for ConfFiles, of which one runs.                               *)
(***************************************************************************)
EXTENDS ConfFiles, LinesProofs, FiniteSetTheorems, SequenceTheorems, TLAPS

--------------------------------------------------------------------------------
(* Texts: what is appended to one, dropped from one or cut off. *)

Block == Seq(Section) \ {<<>>}
Text == [blocks : Seq(Block), eol : BOOLEAN]

(* Every block is one section. *)
Single(text) == \A i \in DOMAIN text.blocks : Len(text.blocks[i]) = 1

(* The interface's section begins a block, and so no peer's removal drops it. *)
HasInterface(text) == \E i \in DOMAIN text.blocks : text.blocks[i][1] = Interface

(* A block has a first section. *)
LEMMA BlockIs ==
  ASSUME NEW block \in Block
  PROVE  /\ block \in Seq(Section) /\ block # <<>> /\ Len(block) \in Nat \ {0}
         /\ 1 \in DOMAIN block /\ DOMAIN block = 1..Len(block)
         /\ \A j \in DOMAIN block : block[j] \in Section
<1>1. block \in Seq(Section) /\ block # <<>>
  BY DEF Block
<1>2. Len(block) \in Nat /\ Len(block) # 0 /\ DOMAIN block = 1..Len(block)
  BY <1>1, LenProperties, EmptySeq
<1>3. \A j \in 1..Len(block) : block[j] \in Section
  BY <1>1, ElementOfSeq
<1> QED
  BY <1>1, <1>2, <1>3

(* A text is blocks, and has the form that the runs check. *)
LEMMA TextIs ==
  ASSUME NEW text \in Text
  PROVE  /\ text.blocks \in Seq(Block) /\ text.eol \in BOOLEAN /\ Len(text.blocks) \in Nat
         /\ DOMAIN text.blocks = 1..Len(text.blocks)
         /\ \A i \in DOMAIN text.blocks : text.blocks[i] \in Block
         /\ IsText(text)
<1>1. text.blocks \in Seq(Block) /\ text.eol \in BOOLEAN
  BY DEF Text
<1>2. Len(text.blocks) \in Nat /\ DOMAIN text.blocks = 1..Len(text.blocks)
  BY <1>1, LenProperties
<1>3. \A i \in DOMAIN text.blocks : text.blocks[i] \in Block
  BY <1>1, <1>2, ElementOfSeq
<1>4. IsText(text)
  BY <1>1, <1>3, BlockIs DEF IsText
<1> QED
  BY <1>1, <1>2, <1>3, <1>4

(* What a text of single sections says is the first section of each block. *)
LEMMA SingleSections ==
  ASSUME NEW text \in Text, Single(text)
  PROVE  Sections(text) = {text.blocks[i][1] : i \in DOMAIN text.blocks}
<1>1. ASSUME NEW i \in DOMAIN text.blocks
      PROVE  {text.blocks[i][j] : j \in DOMAIN text.blocks[i]} = {text.blocks[i][1]}
  <2>1. DOMAIN text.blocks[i] = 1..1
    BY TextIs, BlockIs DEF Single
  <2>2. \A j \in 1..1 : j = 1
    OBVIOUS
  <2> QED
    BY <2>1, <2>2
<1> DEFINE of(i) == {text.blocks[i][j] : j \in DOMAIN text.blocks[i]}
<1>2. Sections(text) = UNION {of(i) : i \in DOMAIN text.blocks}
  BY DEF Sections
<1>3. \A i \in DOMAIN text.blocks : of(i) = {text.blocks[i][1]}
  BY <1>1
<1> HIDE DEF of
<1>4. ASSUME NEW s \in Sections(text) PROVE s \in {text.blocks[i][1] : i \in DOMAIN text.blocks}
  <2>1. PICK i \in DOMAIN text.blocks : s \in of(i)
    BY <1>2
  <2> QED
    BY <1>3, <2>1
<1>5. ASSUME NEW i \in DOMAIN text.blocks PROVE text.blocks[i][1] \in Sections(text)
  BY <1>2, <1>3
<1> QED
  BY <1>4, <1>5

(* The empty file has no blocks, and a new one has the interface's. *)
LEMMA EmptyText ==
  /\ Empty \in Text /\ DOMAIN Empty.blocks = {} /\ Single(Empty)
  /\ NoRequest \in [key : Section, next : Text] /\ NoRequest.next = Empty
<1>1. <<>> \in Seq(Block) /\ DOMAIN <<>> = {}
  BY EmptySeq
<1>2. Empty = [blocks |-> <<>>, eol |-> FALSE] /\ Empty.blocks = <<>>
  BY DEF Empty
<1>3. Empty \in Text
  BY <1>1, <1>2 DEF Text
<1>4. DOMAIN Empty.blocks = {} /\ Single(Empty)
  BY <1>1, <1>2 DEF Single
<1>5. NoRequest \in [key : Section, next : Text] /\ NoRequest.next = Empty
  BY <1>3 DEF NoRequest, Section
<1> QED
  BY <1>3, <1>4, <1>5

(* One section makes a block. *)
LEMMA OneSection ==
  ASSUME NEW s \in Section
  PROVE  <<s>> \in Block /\ Len(<<s>>) = 1 /\ <<s>>[1] = s
<1>1. <<s>> \in Seq(Section) /\ Len(<<s>>) = 1 /\ <<s>>[1] = s
  OBVIOUS
<1>2. <<s>> # <<>>
  OBVIOUS
<1> QED
  BY <1>1, <1>2 DEF Block

(* A new interface's file. *)
LEMMA NewText ==
  ASSUME NEW text, text \in [blocks : {<<<<Interface>>>>}, eol : FinalNewline]
  PROVE  text \in Text /\ Single(text) /\ HasInterface(text) /\ Peers(text) = {}
<1> DEFINE b == <<Interface>>
<1>1. b \in Block /\ Len(b) = 1 /\ b[1] = Interface
  BY OneSection DEF Section
<1>2. text.blocks = <<b>> /\ text.eol \in BOOLEAN /\ text = [blocks |-> <<b>>, eol |-> text.eol]
  BY FileAssumption
<1> HIDE DEF b
<1>3. <<b>> \in Seq(Block) /\ Len(<<b>>) = 1 /\ <<b>>[1] = b /\ DOMAIN <<b>> = {1}
  BY <1>1
<1>4. text \in Text
  BY <1>2, <1>3 DEF Text
<1>5. Single(text) /\ HasInterface(text)
  BY <1>1, <1>2, <1>3 DEF Single, HasInterface
<1>6. Sections(text) = {Interface}
  BY <1>1, <1>2, <1>3, <1>4, <1>5, SingleSections
<1> QED
  BY <1>4, <1>5, <1>6 DEF Peers

(* A peer's section is appended: behind a blank line as a block of its own, or to the
   last block of a text that does not end its line. *)
LEMMA AppendedText ==
  ASSUME NEW text \in Text, NEW key \in Keys
  PROVE  /\ Appended(text, key) \in Text
         /\ HasInterface(text) => HasInterface(Appended(text, key))
         /\ Single(text) /\ (text.blocks = <<>> \/ text.eol) =>
              Single(Appended(text, key)) /\ Peers(Appended(text, key)) = Peers(text) \cup {key}
<1> DEFINE n == Len(text.blocks)
           A == Appended(text, key)
<1>1. /\ text.blocks \in Seq(Block) /\ text.eol \in BOOLEAN /\ n \in Nat /\ DOMAIN text.blocks = 1..n
      /\ \A i \in 1..n : text.blocks[i] \in Block
      /\ text.blocks = <<>> <=> n = 0
  BY TextIs, EmptySeq
<1>2. key \in Section /\ key # Interface
  BY InterfaceAssumption DEF Section
<1>3. CASE text.eol \/ text.blocks = <<>>
  <2> DEFINE b == <<key>>
             more == Append(text.blocks, b)
  <2>1. b \in Block /\ Len(b) = 1 /\ b[1] = key
    BY <1>2, OneSection
  <2>2. A = [blocks |-> more, eol |-> TRUE]
    BY <1>3 DEF Appended
  <2> HIDE DEF b, A
  <2>3. /\ more \in Seq(Block) /\ Len(more) = n + 1 /\ more[n+1] = b
        /\ \A i \in 1..n : more[i] = text.blocks[i]
    BY <1>1, <2>1, AppendProperties
  <2>4. DOMAIN more = 1..n+1
    BY <2>3, LenProperties
  <2> HIDE DEF more, n
  <2>5. A \in Text /\ A.blocks = more
    BY <2>2, <2>3 DEF Text
  <2>6. n + 1 \in 1..n+1 /\ \A i \in 1..n+1 : i \in 1..n \/ i = n + 1
    BY <1>1
  <2>7. \A i \in 1..n : i \in 1..n+1
    BY <1>1
  <2>8. HasInterface(text) => HasInterface(A)
    BY <1>1, <2>3, <2>4, <2>5, <2>7 DEF HasInterface
  <2>9. ASSUME Single(text) PROVE Single(A) /\ Peers(A) = Peers(text) \cup {key}
    <3>1. Single(A)
      BY <1>1, <2>1, <2>3, <2>4, <2>5, <2>6, <2>9 DEF Single
    <3>2. Sections(A) = {more[i][1] : i \in 1..n+1}
      BY <2>4, <2>5, <3>1, SingleSections
    <3>3. Sections(text) = {text.blocks[i][1] : i \in 1..n}
      BY <1>1, <2>9, SingleSections
    <3>4. ASSUME NEW s \in Sections(A) PROVE s \in Sections(text) \cup {key}
      <4>1. PICK i \in 1..n+1 : s = more[i][1]
        BY <3>2
      <4> QED
        BY <2>1, <2>3, <2>6, <3>3, <4>1
    <3>5. ASSUME NEW s \in Sections(text) \cup {key} PROVE s \in Sections(A)
      BY <2>1, <2>3, <2>6, <2>7, <3>2, <3>3
    <3>6. Sections(A) = Sections(text) \cup {key}
      BY <3>4, <3>5
    <3> QED
      BY <1>2, <3>1, <3>6 DEF Peers
  <2> QED
    BY <2>5, <2>8, <2>9 DEF A
<1>4. CASE ~(text.eol \/ text.blocks = <<>>)
  <2> DEFINE last == text.blocks[n]
             b == Append(last, key)
             more == [text.blocks EXCEPT ![n] = b]
  <2>1. n \in 1..n /\ last \in Block
    BY <1>1, <1>4
  <2>2. A = [blocks |-> more, eol |-> TRUE]
    BY <1>4 DEF Appended
  <2> HIDE DEF last
  <2>3. b \in Block /\ b[1] = last[1]
    <3>1. last \in Seq(Section) /\ Len(last) \in Nat \ {0}
      BY <2>1, BlockIs
    <3>2. b \in Seq(Section) /\ Len(b) = Len(last) + 1 /\ \A j \in 1..Len(last) : b[j] = last[j]
      BY <1>2, <3>1, AppendProperties
    <3>3. b # <<>>
      BY <3>1, <3>2, EmptySeq
    <3> QED
      BY <3>1, <3>2, <3>3 DEF Block
  <2> HIDE DEF b, A
  <2>4. /\ more \in Seq(Block) /\ Len(more) = n /\ more[n] = b
        /\ \A i \in 1..n : i # n => more[i] = text.blocks[i]
    BY <1>1, <2>1, <2>3, ExceptSeq
  <2>5. DOMAIN more = 1..n
    BY <2>4, LenProperties
  <2> HIDE DEF more, n
  <2>6. A \in Text /\ A.blocks = more
    BY <2>2, <2>4 DEF Text
  <2>7. \A i \in 1..n : more[i][1] = text.blocks[i][1]
    BY <2>3, <2>4 DEF last
  <2>8. HasInterface(text) => HasInterface(A)
    BY <1>1, <2>5, <2>6, <2>7 DEF HasInterface
  <2> QED
    BY <1>4, <2>6, <2>8 DEF A
<1> QED
  BY <1>3, <1>4

(* The blocks of a peer are dropped, and the others stay. *)
LEMMA DroppedText ==
  ASSUME NEW text \in Text, NEW key \in Keys
  PROVE  /\ DropPeerBlock(text, key) \in Text
         /\ HasInterface(text) => HasInterface(DropPeerBlock(text, key))
         /\ Single(text) => /\ Single(DropPeerBlock(text, key))
                            /\ Peers(DropPeerBlock(text, key)) = Peers(text) \ {key}
<1> DEFINE D == DropPeerBlock(text, key)
           kept == {i \in DOMAIN text.blocks : ~IsPeerBlockFor(text.blocks[i], key)}
           rest == LinesAt(text.blocks, kept)
<1>1. text.blocks \in Seq(Block) /\ \A i \in DOMAIN text.blocks : text.blocks[i] \in Block
  BY TextIs
<1>2. kept \in SUBSET (DOMAIN text.blocks) /\ \A i \in DOMAIN text.blocks : i \in kept <=> text.blocks[i][1] # key
  BY DEF IsPeerBlockFor
<1>3. D = [blocks |-> rest, eol |-> FALSE]
  BY DEF DropPeerBlock
<1> HIDE DEF D, kept
<1>4. /\ rest \in Seq(Block)
      /\ \A m \in DOMAIN rest : Nth(kept, m) \in kept /\ rest[m] = text.blocks[Nth(kept, m)]
      /\ \A k \in kept : \E m \in DOMAIN rest : rest[m] = text.blocks[k]
  BY <1>1, <1>2, LinesKept
<1> HIDE DEF rest
<1>5. D \in Text /\ D.blocks = rest
  BY <1>3, <1>4 DEF Text
<1>6. ASSUME HasInterface(text) PROVE HasInterface(D)
  <2>1. PICK i \in DOMAIN text.blocks : text.blocks[i][1] = Interface
    BY <1>6 DEF HasInterface
  <2>2. i \in kept
    BY <1>2, <2>1, InterfaceAssumption
  <2>3. PICK m \in DOMAIN rest : rest[m] = text.blocks[i]
    BY <1>4, <2>2
  <2> QED
    BY <1>5, <2>1, <2>3 DEF HasInterface
<1>7. ASSUME Single(text) PROVE Single(D) /\ Peers(D) = Peers(text) \ {key}
  <2>1. Single(D)
    BY <1>2, <1>4, <1>5, <1>7 DEF Single
  <2>2. Sections(D) = {rest[m][1] : m \in DOMAIN rest}
    BY <1>5, <2>1, SingleSections
  <2>3. Sections(text) = {text.blocks[i][1] : i \in DOMAIN text.blocks}
    BY <1>7, SingleSections
  <2>4. ASSUME NEW s \in Sections(D) PROVE s \in Sections(text) \ {key}
    <3>1. PICK m \in DOMAIN rest : s = rest[m][1]
      BY <2>2
    <3> QED
      BY <1>2, <1>4, <2>3, <3>1
  <2>5. ASSUME NEW s \in Sections(text) \ {key} PROVE s \in Sections(D)
    <3>1. PICK i \in DOMAIN text.blocks : s = text.blocks[i][1]
      BY <2>3
    <3>2. PICK m \in DOMAIN rest : rest[m] = text.blocks[i]
      BY <1>2, <1>4, <2>5, <3>1
    <3> QED
      BY <2>2, <3>1, <3>2
  <2>6. Sections(D) = Sections(text) \ {key}
    BY <2>4, <2>5
  <2> QED
    BY <2>1, <2>6 DEF Peers
<1> QED
  BY <1>5, <1>6, <1>7 DEF D

(* A text that was cut off between two blocks. *)
LEMMA CutText ==
  ASSUME NEW text \in Text, NEW n \in 0..Len(text.blocks)
  PROVE  LET cutOff == [blocks |-> SubSeq(text.blocks, 1, n), eol |-> FALSE]
         IN cutOff \in Text /\ (Single(text) => Single(cutOff))
<1> DEFINE b == SubSeq(text.blocks, 1, n)
           cutOff == [blocks |-> b, eol |-> FALSE]
<1>1. /\ text.blocks \in Seq(Block) /\ Len(text.blocks) \in Nat /\ DOMAIN text.blocks = 1..Len(text.blocks)
      /\ \A i \in 1..Len(text.blocks) : text.blocks[i] \in Block
  BY TextIs
<1>2. n \in Nat /\ n \in Int /\ \A i \in 1..n : i \in 1..Len(text.blocks)
  BY <1>1
<1>3. b \in Seq(Block) /\ Len(b) = (IF 1 <= n THEN n - 1 + 1 ELSE 0) /\ \A i \in 1..n-1+1 : b[i] = text.blocks[1+i-1]
  BY <1>1, <1>2, SubSeqProperties
<1>4. (IF 1 <= n THEN n - 1 + 1 ELSE 0) = n /\ n-1+1 = n /\ \A i \in 1..n : 1+i-1 = i
  BY <1>2
<1>5. DOMAIN b = 1..n /\ \A i \in 1..n : b[i] = text.blocks[i]
  BY <1>3, <1>4, LenProperties
<1> HIDE DEF b
<1>6. cutOff \in Text /\ cutOff.blocks = b
  BY <1>3 DEF Text
<1>7. Single(text) => Single(cutOff)
  BY <1>1, <1>2, <1>5, <1>6 DEF Single
<1> QED
  BY <1>6, <1>7 DEF b

--------------------------------------------------------------------------------
(* Peers: additions append, removals rewrite. *)

Steps == {"idle", "append", "read", "truncate", "write"}

Removing(h) == pc[h] \in {"read", "truncate", "write"}

PeerTypes ==
  /\ live \subseteq Keys /\ conf \in Text
  /\ pc \in [Handlers -> Steps] /\ req \in [Handlers -> [key : Section, next : Text]]
  /\ merged \in BOOLEAN /\ overlap \in BOOLEAN
  /\ unsaved \subseteq Keys /\ undropped \subseteq Keys /\ cut \in BOOLEAN
  /\ \A h \in Handlers : pc[h] # "idle" => req[h].key \in Keys

(* A removal is the only request in progress. *)
RemovalAlone == \A g, h \in Handlers : Removing(h) /\ pc[g] # "idle" => g = h

(* The interface has a block of the file, or of the text that is to replace it. *)
InterfaceFirst ==
  /\ (\A h \in Handlers : pc[h] # "write") => HasInterface(conf)
  /\ \A h \in Handlers : pc[h] \in {"truncate", "write"} => HasInterface(req[h].next)

(* A text and the interface disagree about no other peers than these. *)
Agree(text, adding, removing) ==
  /\ live \ Peers(text) \subseteq unsaved \cup adding
  /\ Peers(text) \ live \subseteq undropped \cup removing

(* What is being added is live, and what is being removed is not; the file lacks what
   is still to be appended and has what is still to be dropped; and the text that is
   to replace it has neither. *)
Agreed ==
  /\ \A h \in Handlers : pc[h] = "append" => req[h].key \in live
  /\ \A h \in Handlers : Removing(h) => req[h].key \notin live
  /\ (\A h \in Handlers : pc[h] # "write") =>
       Agree(conf, KeysAt({"append"}), KeysAt({"read", "truncate"}))
  /\ \A h \in Handlers : pc[h] \in {"truncate", "write"} =>
       req[h].key \notin Peers(req[h].next) /\ Agree(req[h].next, {}, {})

(* The inductive invariant.  Blocks that were merged are what makes a removal drop
   others' sections, so only without them do texts and interface agree; overlaps and
   cuts are what takes the interface's section. *)
PeersInv ==
  /\ PeerTypes
  /\ ~overlap => RemovalAlone
  /\ ~overlap /\ ~cut => InterfaceFirst
  /\ ~merged => Single(conf) /\ \A h \in Handlers : Single(req[h].next)
  /\ ~overlap /\ ~cut /\ ~merged => Agreed

(* It says what the runs check. *)
LEMMA PeersInvSays == PeersInv => TypeOK /\ InterfaceKept /\ SurvivesUnlessDisturbed
<1> SUFFICES ASSUME PeersInv PROVE TypeOK /\ InterfaceKept /\ SurvivesUnlessDisturbed
  OBVIOUS
<1>1. TypeOK
  <2>1. \A h \in Handlers : req[h].key \in Section /\ req[h].next \in Text
    BY DEF PeersInv, PeerTypes
  <2>2. IsText(conf) /\ \A h \in Handlers : IsText(req[h].next)
    BY <2>1, TextIs DEF PeersInv, PeerTypes
  <2> QED
    BY <2>1, <2>2 DEF PeersInv, PeerTypes, Steps, TypeOK
<1>2. InterfaceKept
  <2> SUFFICES ASSUME AtRest, ~overlap, ~cut PROVE Interface \in Sections(conf)
    BY DEF InterfaceKept
  <2>1. PICK i \in DOMAIN conf.blocks : conf.blocks[i][1] = Interface
    BY DEF PeersInv, InterfaceFirst, AtRest, HasInterface
  <2>2. 1 \in DOMAIN conf.blocks[i]
    BY TextIs, BlockIs DEF PeersInv, PeerTypes
  <2> DEFINE of == {conf.blocks[i][j] : j \in DOMAIN conf.blocks[i]}
  <2>3. Interface \in of
    BY <2>1, <2>2
  <2>4. of \subseteq Sections(conf)
    BY DEF Sections
  <2> QED
    BY <2>3, <2>4
<1>3. SurvivesUnlessDisturbed
  <2> SUFFICES ASSUME AtRest, ~merged, ~overlap, ~cut
               PROVE  live \ Peers(conf) \subseteq unsaved /\ Peers(conf) \ live \subseteq undropped
    BY DEF SurvivesUnlessDisturbed
  <2>1. Agree(conf, KeysAt({"append"}), KeysAt({"read", "truncate"}))
    BY DEF PeersInv, Agreed, AtRest
  <2>2. KeysAt({"append"}) = {} /\ KeysAt({"read", "truncate"}) = {}
    BY DEF KeysAt, AtRest
  <2> QED
    BY <2>1, <2>2 DEF Agree
<1> QED
  BY <1>1, <1>2, <1>3

(* An interface without peers. *)
LEMMA PeersInit == Init => PeersInv
<1> SUFFICES ASSUME Init PROVE PeersInv
  OBVIOUS
<1>1. conf \in Text /\ Single(conf) /\ HasInterface(conf) /\ Peers(conf) = {}
  BY NewText DEF Init
<1>2. \A h \in Handlers : pc[h] = "idle" /\ req[h] = NoRequest
  BY DEF Init
<1>3. /\ pc = [h \in Handlers |-> "idle"] /\ req = [h \in Handlers |-> NoRequest]
      /\ live = {} /\ merged = FALSE /\ overlap = FALSE /\ unsaved = {} /\ undropped = {} /\ cut = FALSE
  BY DEF Init
<1>4. PeerTypes
  <2>1. pc \in [Handlers -> Steps] /\ req \in [Handlers -> [key : Section, next : Text]]
    BY <1>3, EmptyText DEF Steps
  <2> QED
    BY <1>1, <1>2, <1>3, <2>1 DEF PeerTypes
<1>5. RemovalAlone /\ InterfaceFirst
  BY <1>1, <1>2 DEF RemovalAlone, Removing, InterfaceFirst
<1>6. Single(conf) /\ \A h \in Handlers : Single(req[h].next)
  BY <1>1, <1>2, EmptyText
<1>7. Agreed
  BY <1>1, <1>2, <1>3 DEF Agreed, Agree, Removing
<1> QED
  BY <1>4, <1>5, <1>6, <1>7 DEF PeersInv

(* One request goes on, the others stay where they are. *)
LEMMA PeersBecome ==
  ASSUME PeerTypes, NEW h \in Handlers, NEW step \in Steps, NEW r, r \in [key : Section, next : Text],
         Become(h, step, r)
  PROVE  /\ pc' \in [Handlers -> Steps] /\ req' \in [Handlers -> [key : Section, next : Text]]
         /\ pc'[h] = step /\ req'[h] = r
         /\ \A g \in Handlers : g # h => pc'[g] = pc[g] /\ req'[g] = req[g]
<1>1. pc' = [pc EXCEPT ![h] = step] /\ req' = [req EXCEPT ![h] = r]
  BY DEF Become
<1> QED
  BY <1>1 DEF PeerTypes

(* A peer is live before its section is appended. *)
LEMMA AddLiveKeepsPeers ==
  ASSUME PeersInv, NEW h \in Handlers, AddLive(h)
  PROVE  PeersInv'
<1>1. PICK key \in Keys : live' = live \cup {key} /\ Become(h, "append", [NoRequest EXCEPT !.key = key])
  BY DEF AddLive
<1> DEFINE r == [NoRequest EXCEPT !.key = key]
<1>2. /\ pc[h] = "idle" /\ UNCHANGED <<conf, merged, unsaved, undropped, cut>>
      /\ overlap' = (overlap \/ \E g \in Handlers : Removing(g))
  BY DEF AddLive, faults, Begins, Removing
<1>3. r \in [key : Section, next : Text] /\ r.key = key /\ r.next = Empty
  BY EmptyText DEF Section
<1> HIDE DEF r
<1>4. /\ pc' \in [Handlers -> Steps] /\ req' \in [Handlers -> [key : Section, next : Text]]
      /\ pc'[h] = "append" /\ req'[h] = r
      /\ \A g \in Handlers : g # h => pc'[g] = pc[g] /\ req'[g] = req[g]
  BY <1>1, <1>3, PeersBecome DEF r, PeersInv, Steps
<1>5. PeerTypes'
  BY <1>1, <1>2, <1>3, <1>4 DEF PeersInv, PeerTypes
<1>6. ~overlap' => ~overlap /\ \A g \in Handlers : ~Removing(g) /\ ~Removing(g)'
  BY <1>2, <1>4 DEF Removing
<1>7. ~overlap' => RemovalAlone'
  BY <1>6 DEF RemovalAlone
<1>8. ~overlap' /\ ~cut' => InterfaceFirst'
  BY <1>2, <1>6 DEF PeersInv, InterfaceFirst, Removing
<1>9. ~merged' => Single(conf') /\ \A g \in Handlers : Single(req'[g].next)
  BY <1>2, <1>3, <1>4, EmptyText DEF PeersInv
<1>10. ASSUME ~overlap', ~cut', ~merged' PROVE Agreed'
  <2>1. Agreed /\ \A g \in Handlers : ~Removing(g) /\ ~Removing(g)'
    BY <1>2, <1>6, <1>10 DEF PeersInv
  <2>2. Agree(conf, KeysAt({"append"}), KeysAt({"read", "truncate"})) /\ KeysAt({"read", "truncate"}) = {}
    BY <2>1 DEF Agreed, Removing, KeysAt
  <2>3. \A k \in KeysAt({"append"}) \cup {key} : k \in KeysAt({"append"})'
    BY <1>2, <1>3, <1>4 DEF KeysAt
  <2>4. /\ live' \ Peers(conf) \subseteq unsaved \cup KeysAt({"append"})'
        /\ Peers(conf) \ live' \subseteq undropped
    BY <1>1, <2>2, <2>3 DEF Agree
  <2>5. \A g \in Handlers : pc'[g] = "append" => req'[g].key \in live'
    BY <1>1, <1>3, <1>4, <2>1 DEF Agreed
  <2> QED
    BY <1>2, <2>1, <2>4, <2>5 DEF Agreed, Agree, Removing
<1> QED
  BY <1>5, <1>7, <1>8, <1>9, <1>10 DEF PeersInv

(* The section is appended. *)
LEMMA AddConfKeepsPeers ==
  ASSUME PeersInv, NEW h \in Handlers, AddConf(h)
  PROVE  PeersInv'
<1> DEFINE key == req[h].key
<1>1. /\ pc[h] = "append" /\ conf' = Appended(conf, key) /\ unsaved' = unsaved \ {key}
      /\ merged' = (merged \/ (conf.blocks # <<>> /\ ~conf.eol))
      /\ Become(h, "idle", NoRequest) /\ UNCHANGED <<live, overlap, undropped, cut>>
  BY DEF AddConf, Reply
<1>2. key \in Keys /\ conf \in Text
  BY <1>1 DEF PeersInv, PeerTypes
<1>3. /\ conf' \in Text /\ (HasInterface(conf) => HasInterface(conf'))
      /\ (~merged' => ~merged /\ (Single(conf) => Single(conf') /\ Peers(conf') = Peers(conf) \cup {key}))
  BY <1>1, <1>2, AppendedText
<1>4. /\ pc' \in [Handlers -> Steps] /\ req' \in [Handlers -> [key : Section, next : Text]]
      /\ pc'[h] = "idle" /\ req'[h] = NoRequest
      /\ \A g \in Handlers : g # h => pc'[g] = pc[g] /\ req'[g] = req[g]
  BY <1>1, EmptyText, PeersBecome DEF PeersInv, Steps
<1>5. PeerTypes'
  BY <1>1, <1>3, <1>4 DEF PeersInv, PeerTypes
<1>6. ~overlap => \A g \in Handlers : ~Removing(g) /\ ~Removing(g)'
  BY <1>1, <1>4 DEF PeersInv, RemovalAlone, Removing
<1>7. ~overlap' => RemovalAlone'
  BY <1>1, <1>6 DEF RemovalAlone
<1>8. ~overlap' /\ ~cut' => InterfaceFirst'
  BY <1>1, <1>3, <1>6 DEF PeersInv, InterfaceFirst, Removing
<1>9. ~merged' => Single(conf') /\ \A g \in Handlers : Single(req'[g].next)
  BY <1>3, <1>4, EmptyText DEF PeersInv
<1>10. ASSUME ~overlap', ~cut', ~merged' PROVE Agreed'
  <2>1. Agreed /\ Single(conf) /\ \A g \in Handlers : ~Removing(g) /\ ~Removing(g)'
    BY <1>1, <1>3, <1>6, <1>10 DEF PeersInv
  <2>2. Agree(conf, KeysAt({"append"}), KeysAt({"read", "truncate"})) /\ KeysAt({"read", "truncate"}) = {}
    BY <2>1 DEF Agreed, Removing, KeysAt
  <2>3. \A k \in KeysAt({"append"}) : k = key \/ k \in KeysAt({"append"})'
    BY <1>4 DEF KeysAt
  <2>4. key \in live
    BY <1>1, <2>1 DEF Agreed
  <2>5. Peers(conf') = Peers(conf) \cup {key}
    BY <1>3, <1>10, <2>1
  <2> HIDE DEF key
  <2>6. /\ live \ Peers(conf') \subseteq unsaved' \cup KeysAt({"append"})'
        /\ Peers(conf') \ live \subseteq undropped
    BY <1>1, <2>2, <2>3, <2>4, <2>5 DEF Agree
  <2>7. \A g \in Handlers : pc'[g] = "append" => req'[g].key \in live
    BY <1>4, <2>1 DEF Agreed
  <2> QED
    BY <1>1, <2>1, <2>6, <2>7 DEF Agreed, Agree, Removing
<1> QED
  BY <1>5, <1>7, <1>8, <1>9, <1>10 DEF PeersInv

(* The section is not appended, and the request succeeds. *)
LEMMA AddConfFailsKeepsPeers ==
  ASSUME PeersInv, NEW h \in Handlers, AddConfFails(h)
  PROVE  PeersInv'
<1> DEFINE key == req[h].key
<1>1. /\ pc[h] = "append" /\ unsaved' = unsaved \cup {key}
      /\ Become(h, "idle", NoRequest) /\ UNCHANGED <<live, conf, merged, overlap, undropped, cut>>
  BY DEF AddConfFails, Reply
<1>2. key \in Keys
  BY <1>1 DEF PeersInv, PeerTypes
<1>4. /\ pc' \in [Handlers -> Steps] /\ req' \in [Handlers -> [key : Section, next : Text]]
      /\ pc'[h] = "idle" /\ req'[h] = NoRequest
      /\ \A g \in Handlers : g # h => pc'[g] = pc[g] /\ req'[g] = req[g]
  BY <1>1, EmptyText, PeersBecome DEF PeersInv, Steps
<1>5. PeerTypes'
  BY <1>1, <1>2, <1>4 DEF PeersInv, PeerTypes
<1>6. ~overlap => \A g \in Handlers : ~Removing(g) /\ ~Removing(g)'
  BY <1>1, <1>4 DEF PeersInv, RemovalAlone, Removing
<1>7. ~overlap' => RemovalAlone'
  BY <1>1, <1>6 DEF RemovalAlone
<1>8. ~overlap' /\ ~cut' => InterfaceFirst'
  BY <1>1, <1>6 DEF PeersInv, InterfaceFirst, Removing
<1>9. ~merged' => Single(conf') /\ \A g \in Handlers : Single(req'[g].next)
  BY <1>1, <1>4, EmptyText DEF PeersInv
<1>10. ASSUME ~overlap', ~cut', ~merged' PROVE Agreed'
  <2>1. Agreed /\ \A g \in Handlers : ~Removing(g) /\ ~Removing(g)'
    BY <1>1, <1>6, <1>10 DEF PeersInv
  <2>2. Agree(conf, KeysAt({"append"}), KeysAt({"read", "truncate"})) /\ KeysAt({"read", "truncate"}) = {}
    BY <2>1 DEF Agreed, Removing, KeysAt
  <2>3. \A k \in KeysAt({"append"}) : k = key \/ k \in KeysAt({"append"})'
    BY <1>4 DEF KeysAt
  <2> HIDE DEF key
  <2>4. /\ live \ Peers(conf) \subseteq unsaved' \cup KeysAt({"append"})'
        /\ Peers(conf) \ live \subseteq undropped
    BY <1>1, <2>2, <2>3 DEF Agree
  <2>5. \A g \in Handlers : pc'[g] = "append" => req'[g].key \in live
    BY <1>4, <2>1 DEF Agreed
  <2> QED
    BY <1>1, <2>1, <2>4, <2>5 DEF Agreed, Agree, Removing
<1> QED
  BY <1>5, <1>7, <1>8, <1>9, <1>10 DEF PeersInv

(* A removal takes the peer from the interface. *)
LEMMA RemoveLiveKeepsPeers ==
  ASSUME PeersInv, NEW h \in Handlers, RemoveLive(h)
  PROVE  PeersInv'
<1>1. PICK key \in Keys : /\ live' = live \ {key} /\ unsaved' = unsaved \ {key}
                          /\ Become(h, "read", [NoRequest EXCEPT !.key = key])
  BY DEF RemoveLive
<1> DEFINE r == [NoRequest EXCEPT !.key = key]
<1>2. /\ pc[h] = "idle" /\ UNCHANGED <<conf, merged, undropped, cut>>
      /\ overlap' = (overlap \/ \E g \in Handlers : pc[g] # "idle")
  BY DEF RemoveLive, Begins
<1>3. r \in [key : Section, next : Text] /\ r.key = key /\ r.next = Empty
  BY EmptyText DEF Section
<1> HIDE DEF r
<1>4. /\ pc' \in [Handlers -> Steps] /\ req' \in [Handlers -> [key : Section, next : Text]]
      /\ pc'[h] = "read" /\ req'[h] = r
      /\ \A g \in Handlers : g # h => pc'[g] = pc[g] /\ req'[g] = req[g]
  BY <1>1, <1>3, PeersBecome DEF r, PeersInv, Steps
<1>5. PeerTypes'
  BY <1>1, <1>2, <1>3, <1>4 DEF PeersInv, PeerTypes
<1>6. ~overlap' => ~overlap /\ \A g \in Handlers : pc[g] = "idle" /\ (g # h => pc'[g] = "idle")
  BY <1>2, <1>4
<1>7. ~overlap' => RemovalAlone'
  BY <1>6 DEF RemovalAlone, Removing
<1>8. ~overlap' /\ ~cut' => InterfaceFirst'
  BY <1>2, <1>4, <1>6 DEF PeersInv, InterfaceFirst
<1>9. ~merged' => Single(conf') /\ \A g \in Handlers : Single(req'[g].next)
  BY <1>2, <1>3, <1>4, EmptyText DEF PeersInv
<1>10. ASSUME ~overlap', ~cut', ~merged' PROVE Agreed'
  <2>1. Agreed /\ \A g \in Handlers : pc[g] = "idle" /\ (g # h => pc'[g] = "idle")
    BY <1>2, <1>6, <1>10 DEF PeersInv
  <2>2. /\ Agree(conf, KeysAt({"append"}), KeysAt({"read", "truncate"}))
        /\ KeysAt({"append"}) = {} /\ KeysAt({"read", "truncate"}) = {}
    BY <2>1 DEF Agreed, KeysAt
  <2>3. key \in KeysAt({"read", "truncate"})'
    BY <1>3, <1>4 DEF KeysAt
  <2>4. /\ live' \ Peers(conf) \subseteq unsaved'
        /\ Peers(conf) \ live' \subseteq undropped \cup KeysAt({"read", "truncate"})'
    BY <1>1, <2>2, <2>3 DEF Agree
  <2>5. \A g \in Handlers : Removing(g)' => req'[g].key \notin live'
    BY <1>1, <1>3, <1>4, <2>1 DEF Removing
  <2>6. \A g \in Handlers : pc'[g] \notin {"append", "truncate", "write"}
    BY <1>4, <2>1
  <2> QED
    BY <1>2, <2>4, <2>5, <2>6 DEF Agreed, Agree
<1> QED
  BY <1>5, <1>7, <1>8, <1>9, <1>10 DEF PeersInv

(* The others wait while a removal is in progress that overlaps nothing. *)
LEMMA RemovesAlone ==
  ASSUME PeersInv, ~overlap, NEW h \in Handlers, Removing(h)
  PROVE  \A g \in Handlers : g # h => pc[g] = "idle"
BY DEF PeersInv, RemovalAlone

(* A removal reads the file: it is done when the file has no block of the peer. *)
LEMMA RemoveReadKeepsPeers ==
  ASSUME PeersInv, NEW h \in Handlers, RemoveRead(h)
  PROVE  PeersInv'
<1> DEFINE key == req[h].key
           next == DropPeerBlock(conf, key)
           r == [req[h] EXCEPT !.next = next]
<1>1. /\ pc[h] = "read" /\ Removing(h)
      /\ UNCHANGED <<live, conf, merged, overlap, unsaved, undropped, cut>>
      /\ (next = conf => Become(h, "idle", NoRequest))
      /\ (next # conf => Become(h, "truncate", r))
  BY DEF RemoveRead, Reply, faults, Removing
<1>2. key \in Keys /\ conf \in Text /\ req[h] \in [key : Section, next : Text]
  BY <1>1 DEF PeersInv, PeerTypes
<1>3. /\ next \in Text /\ (HasInterface(conf) => HasInterface(next))
      /\ (Single(conf) => Single(next) /\ Peers(next) = Peers(conf) \ {key})
  BY <1>2, DroppedText
<1> HIDE DEF next
<1>4. r \in [key : Section, next : Text] /\ r.key = key /\ r.next = next
  BY <1>2, <1>3
<1> HIDE DEF r
<1>5. ~overlap => \A g \in Handlers : g # h => pc[g] = "idle"
  BY <1>1, RemovesAlone
<1>6. CASE next = conf
  <2>1. /\ pc' \in [Handlers -> Steps] /\ req' \in [Handlers -> [key : Section, next : Text]]
        /\ pc'[h] = "idle" /\ req'[h] = NoRequest
        /\ \A g \in Handlers : g # h => pc'[g] = pc[g] /\ req'[g] = req[g]
    BY <1>1, <1>6, EmptyText, PeersBecome DEF PeersInv, Steps
  <2>2. PeerTypes'
    BY <1>1, <2>1 DEF PeersInv, PeerTypes
  <2>3. ~overlap => \A g \in Handlers : pc'[g] = "idle" /\ pc[g] # "write"
    BY <1>1, <1>5, <2>1
  <2>4. ~overlap' => RemovalAlone'
    BY <1>1, <2>3 DEF RemovalAlone, Removing
  <2>5. ~overlap' /\ ~cut' => InterfaceFirst'
    BY <1>1, <2>3 DEF PeersInv, InterfaceFirst
  <2>6. ~merged' => Single(conf') /\ \A g \in Handlers : Single(req'[g].next)
    BY <1>1, <2>1, EmptyText DEF PeersInv
  <2>7. ASSUME ~overlap', ~cut', ~merged' PROVE Agreed'
    <3>1. Agreed /\ Single(conf) /\ \A g \in Handlers : pc'[g] = "idle" /\ pc[g] # "write"
      BY <1>1, <2>3, <2>7 DEF PeersInv
    <3>2. Agree(conf, KeysAt({"append"}), KeysAt({"read", "truncate"}))
      BY <3>1 DEF Agreed
    <3>3. KeysAt({"append"}) = {}
      BY <1>1, <1>5, <2>7 DEF KeysAt
    <3>4. \A k \in KeysAt({"read", "truncate"}) : k = key
      BY <1>1, <1>5, <2>7 DEF KeysAt
    <3>5. key \notin Peers(conf)
      BY <1>3, <1>6, <3>1
    <3> HIDE DEF key
    <3>6. live \ Peers(conf) \subseteq unsaved /\ Peers(conf) \ live \subseteq undropped
      BY <3>2, <3>3, <3>4, <3>5 DEF Agree
    <3> QED
      BY <1>1, <3>1, <3>6 DEF Agreed, Agree, Removing
  <2> QED
    BY <2>2, <2>4, <2>5, <2>6, <2>7 DEF PeersInv
<1>7. CASE next # conf
  <2>1. /\ pc' \in [Handlers -> Steps] /\ req' \in [Handlers -> [key : Section, next : Text]]
        /\ pc'[h] = "truncate" /\ req'[h] = r
        /\ \A g \in Handlers : g # h => pc'[g] = pc[g] /\ req'[g] = req[g]
    BY <1>1, <1>4, <1>7, PeersBecome DEF PeersInv, Steps
  <2>2. PeerTypes'
    BY <1>1, <1>2, <1>4, <2>1 DEF PeersInv, PeerTypes
  <2>3. ~overlap => \A g \in Handlers : pc[g] # "write" /\ (g # h => pc[g] = "idle" /\ pc'[g] = "idle")
    BY <1>1, <1>5, <2>1
  <2>4. ~overlap' => RemovalAlone'
    BY <1>1, <2>3 DEF RemovalAlone, Removing
  <2>5. ~overlap' /\ ~cut' => InterfaceFirst'
    BY <1>1, <1>3, <1>4, <2>1, <2>3 DEF PeersInv, InterfaceFirst
  <2>6. ~merged' => Single(conf') /\ \A g \in Handlers : Single(req'[g].next)
    BY <1>1, <1>3, <1>4, <2>1 DEF PeersInv
  <2>7. ASSUME ~overlap', ~cut', ~merged' PROVE Agreed'
    <3>1. /\ Agreed /\ Single(conf)
          /\ \A g \in Handlers : pc[g] # "write" /\ (g # h => pc[g] = "idle" /\ pc'[g] = "idle")
      BY <1>1, <2>3, <2>7 DEF PeersInv
    <3>2. Agree(conf, KeysAt({"append"}), KeysAt({"read", "truncate"}))
      BY <3>1 DEF Agreed
    <3>3. KeysAt({"append"}) = {}
      BY <1>1, <3>1 DEF KeysAt
    <3>4. \A k \in KeysAt({"read", "truncate"}) : k = key
      BY <1>1, <3>1 DEF KeysAt
    <3>5. key \in KeysAt({"read", "truncate"})'
      BY <1>4, <2>1 DEF KeysAt
    <3>6. key \notin live
      BY <1>1, <3>1 DEF Agreed
    <3>7. Peers(next) = Peers(conf) \ {key}
      BY <1>3, <3>1
    <3> HIDE DEF key
    <3>8. Agree(next, {}, {}) /\ key \notin Peers(next)
      BY <3>2, <3>3, <3>4, <3>6, <3>7 DEF Agree
    <3>9. /\ live \ Peers(conf) \subseteq unsaved
          /\ Peers(conf) \ live \subseteq undropped \cup KeysAt({"read", "truncate"})'
      BY <3>2, <3>3, <3>4, <3>5 DEF Agree
    <3>10. \A g \in Handlers : pc'[g] # "append" /\ pc'[g] # "write" /\ (pc'[g] # "idle" => g = h)
      BY <2>1, <3>1
    <3>11. \A g \in Handlers : Removing(g)' => req'[g].key \notin live'
      BY <1>1, <1>4, <2>1, <3>6, <3>10 DEF Removing
    <3>12. Agree(conf, KeysAt({"append"}), KeysAt({"read", "truncate"}))'
      BY <1>1, <3>9 DEF Agree
    <3>13. \A g \in Handlers : pc'[g] \in {"truncate", "write"} =>
             req'[g].key \notin Peers(req'[g].next) /\ Agree(req[g].next, {}, {})'
      BY <1>1, <1>4, <2>1, <3>8, <3>10 DEF Agree
    <3> QED
      BY <3>10, <3>11, <3>12, <3>13 DEF Agreed
  <2> QED
    BY <2>2, <2>4, <2>5, <2>6, <2>7 DEF PeersInv
<1> QED
  BY <1>6, <1>7

(* The file is truncated. *)
LEMMA RemoveTruncateKeepsPeers ==
  ASSUME PeersInv, NEW h \in Handlers, RemoveTruncate(h)
  PROVE  PeersInv'
<1>1. /\ pc[h] = "truncate" /\ Removing(h) /\ conf' = Empty /\ Become(h, "write", req[h])
      /\ UNCHANGED <<live, merged, overlap, unsaved, undropped, cut>>
  BY DEF RemoveTruncate, faults, Removing
<1>2. conf' \in Text /\ Single(conf')
  BY <1>1, EmptyText
<1>3. /\ pc' \in [Handlers -> Steps] /\ req' \in [Handlers -> [key : Section, next : Text]]
      /\ pc'[h] = "write" /\ req'[h] = req[h]
      /\ \A g \in Handlers : g # h => pc'[g] = pc[g] /\ req'[g] = req[g]
  <2>1. req[h] \in [key : Section, next : Text] /\ "write" \in Steps
    BY DEF PeersInv, PeerTypes, Steps
  <2> QED
    BY <1>1, <2>1, PeersBecome DEF PeersInv
<1>4. PeerTypes'
  BY <1>1, <1>2, <1>3 DEF PeersInv, PeerTypes
<1>5. ~overlap => \A g \in Handlers : g # h => pc[g] = "idle" /\ pc'[g] = "idle"
  BY <1>1, <1>3, RemovesAlone
<1>6. ~overlap' => RemovalAlone'
  BY <1>1, <1>5 DEF RemovalAlone, Removing
<1>7. ~overlap' /\ ~cut' => InterfaceFirst'
  BY <1>1, <1>3, <1>5 DEF PeersInv, InterfaceFirst
<1>8. ~merged' => Single(conf') /\ \A g \in Handlers : Single(req'[g].next)
  BY <1>1, <1>2, <1>3 DEF PeersInv
<1>9. ASSUME ~overlap', ~cut', ~merged' PROVE Agreed'
  <2>1. Agreed /\ \A g \in Handlers : pc'[g] # "idle" => g = h
    BY <1>1, <1>5, <1>9 DEF PeersInv
  <2>2. req[h].key \notin live /\ req[h].key \notin Peers(req[h].next) /\ Agree(req[h].next, {}, {})
    BY <1>1, <2>1 DEF Agreed
  <2>3. Agree(req[h].next, {}, {})'
    BY <1>1, <1>3, <2>2 DEF Agree
  <2>4. pc'[h] = "write" /\ req'[h] = req[h] /\ live' = live
    BY <1>1, <1>3
  <2> QED
    BY <2>1, <2>2, <2>3, <2>4 DEF Agreed, Removing
<1> QED
  BY <1>4, <1>6, <1>7, <1>8, <1>9 DEF PeersInv

(* The text is written that was computed from the file. *)
LEMMA RemoveWriteKeepsPeers ==
  ASSUME PeersInv, NEW h \in Handlers, RemoveWrite(h)
  PROVE  PeersInv'
<1> DEFINE key == req[h].key
<1>1. /\ pc[h] = "write" /\ Removing(h) /\ conf' = req[h].next /\ undropped' = undropped \ {key}
      /\ Become(h, "idle", NoRequest) /\ UNCHANGED <<live, merged, overlap, unsaved, cut>>
  BY DEF RemoveWrite, Reply, Removing
<1>2. conf' \in Text /\ key \in Keys
  BY <1>1 DEF PeersInv, PeerTypes
<1>3. /\ pc' \in [Handlers -> Steps] /\ req' \in [Handlers -> [key : Section, next : Text]]
      /\ pc'[h] = "idle" /\ req'[h] = NoRequest
      /\ \A g \in Handlers : g # h => pc'[g] = pc[g] /\ req'[g] = req[g]
  BY <1>1, EmptyText, PeersBecome DEF PeersInv, Steps
<1>4. PeerTypes'
  BY <1>1, <1>2, <1>3 DEF PeersInv, PeerTypes
<1>5. ~overlap => \A g \in Handlers : pc'[g] = "idle"
  BY <1>1, <1>3, RemovesAlone
<1>6. ~overlap' => RemovalAlone'
  BY <1>1, <1>5 DEF RemovalAlone, Removing
<1>7. ~overlap' /\ ~cut' => InterfaceFirst'
  BY <1>1, <1>5 DEF PeersInv, InterfaceFirst
<1>8. ~merged' => Single(conf') /\ \A g \in Handlers : Single(req'[g].next)
  BY <1>1, <1>3, EmptyText DEF PeersInv
<1>9. ASSUME ~overlap', ~cut', ~merged' PROVE Agreed'
  <2>1. Agreed /\ \A g \in Handlers : pc'[g] = "idle"
    BY <1>1, <1>5, <1>9 DEF PeersInv
  <2>2. key \notin Peers(conf') /\ Agree(conf', {}, {})
    BY <1>1, <2>1 DEF Agreed
  <2> HIDE DEF key
  <2>3. live' \ Peers(conf') \subseteq unsaved' /\ Peers(conf') \ live' \subseteq undropped'
    BY <1>1, <2>2 DEF Agree
  <2> QED
    BY <2>1, <2>3 DEF Agreed, Agree, Removing
<1> QED
  BY <1>4, <1>6, <1>7, <1>8, <1>9 DEF PeersInv

(* A removal leaves the file as it was, or cut off. *)
LEMMA RemoveFailsKeepsPeers ==
  ASSUME PeersInv, NEW h \in Handlers, RemoveFails(h)
  PROVE  PeersInv'
<1> DEFINE key == req[h].key
<1>1. Removing(h) /\ Become(h, "idle", NoRequest) /\ UNCHANGED <<live, merged, overlap, unsaved>>
  BY DEF RemoveFails, Reply, Removing
<1>2. /\ pc' \in [Handlers -> Steps] /\ req' \in [Handlers -> [key : Section, next : Text]]
      /\ pc'[h] = "idle" /\ req'[h] = NoRequest
      /\ \A g \in Handlers : g # h => pc'[g] = pc[g] /\ req'[g] = req[g]
  BY <1>1, EmptyText, PeersBecome DEF PeersInv, Steps
<1>3. ~overlap => \A g \in Handlers : pc'[g] = "idle" /\ (g # h => pc[g] = "idle")
  BY <1>1, <1>2, RemovesAlone
<1>4. ~overlap' => RemovalAlone'
  BY <1>1, <1>3 DEF RemovalAlone, Removing
<1>5. CASE pc[h] = "write"
  <2>1. /\ undropped' = undropped /\ cut' = TRUE
        /\ \E n \in 0..Len(req[h].next.blocks) :
             conf' = [blocks |-> SubSeq(req[h].next.blocks, 1, n), eol |-> FALSE]
    BY <1>5 DEF RemoveFails
  <2>2. req[h].next \in Text
    BY DEF PeersInv, PeerTypes
  <2>3. conf' \in Text /\ (Single(req[h].next) => Single(conf'))
    BY <2>1, <2>2, CutText
  <2>4. PeerTypes'
    BY <1>1, <1>2, <2>1, <2>3 DEF PeersInv, PeerTypes
  <2>5. ~merged' => Single(conf') /\ \A g \in Handlers : Single(req'[g].next)
    BY <1>1, <1>2, <2>3, EmptyText DEF PeersInv
  <2> QED
    BY <1>4, <2>1, <2>4, <2>5 DEF PeersInv
<1>6. CASE pc[h] # "write"
  <2>1. undropped' = undropped \cup {key} /\ UNCHANGED <<conf, cut>>
    BY <1>6 DEF RemoveFails
  <2>2. key \in Keys
    BY <1>1 DEF PeersInv, PeerTypes, Removing
  <2>3. PeerTypes'
    BY <1>1, <1>2, <2>1, <2>2 DEF PeersInv, PeerTypes
  <2>4. ~overlap' /\ ~cut' => InterfaceFirst'
    BY <1>1, <1>3, <1>6, <2>1 DEF PeersInv, InterfaceFirst
  <2>5. ~merged' => Single(conf') /\ \A g \in Handlers : Single(req'[g].next)
    BY <1>1, <1>2, <2>1, EmptyText DEF PeersInv
  <2>6. ASSUME ~overlap', ~cut', ~merged' PROVE Agreed'
    <3>1. Agreed /\ \A g \in Handlers : pc'[g] = "idle" /\ pc[g] # "write" /\ (g # h => pc[g] = "idle")
      BY <1>1, <1>3, <1>6, <2>1, <2>6 DEF PeersInv
    <3>2. Agree(conf, KeysAt({"append"}), KeysAt({"read", "truncate"}))
      BY <3>1 DEF Agreed
    <3>3. KeysAt({"append"}) = {} /\ \A k \in KeysAt({"read", "truncate"}) : k = key
      BY <1>1, <3>1 DEF KeysAt, Removing
    <3> HIDE DEF key
    <3>4. live' \ Peers(conf') \subseteq unsaved' /\ Peers(conf') \ live' \subseteq undropped'
      BY <1>1, <2>1, <3>2, <3>3 DEF Agree
    <3> QED
      BY <3>1, <3>4 DEF Agreed, Agree, Removing
  <2> QED
    BY <1>4, <2>3, <2>4, <2>5, <2>6 DEF PeersInv
<1> QED
  BY <1>5, <1>6

(* The interface is brought up from the file. *)
LEMMA RebootKeepsPeers ==
  ASSUME PeersInv, Reboot
  PROVE  PeersInv'
<1>1. /\ AtRest /\ live' = Peers(conf) /\ unsaved' = {} /\ undropped' = {}
      /\ UNCHANGED <<conf, pc, req, merged, overlap, cut>>
  BY DEF Reboot
<1>2. Peers(conf) \subseteq Keys
  <2> SUFFICES ASSUME NEW s \in Peers(conf) PROVE s \in Keys
    OBVIOUS
  <2> DEFINE of(i) == {conf.blocks[i][j] : j \in DOMAIN conf.blocks[i]}
  <2>1. PICK i \in DOMAIN conf.blocks : s \in of(i)
    BY DEF Peers, Sections
  <2>2. conf.blocks[i] \in Block
    BY TextIs DEF PeersInv, PeerTypes
  <2>3. s \in Section /\ s # Interface
    BY <2>1, <2>2, BlockIs DEF Peers
  <2> QED
    BY <2>3 DEF Section
<1>3. PeerTypes'
  BY <1>1, <1>2 DEF PeersInv, PeerTypes
<1>4. Agreed'
  BY <1>1 DEF Agreed, Agree, AtRest, Removing
<1> QED
  BY <1>1, <1>3, <1>4 DEF PeersInv, RemovalAlone, Removing, InterfaceFirst

(* The panel stops: what was to be appended or dropped is not. *)
LEMMA CrashKeepsPeers ==
  ASSUME PeersInv, Crash
  PROVE  PeersInv'
<1>1. /\ unsaved' = unsaved \cup KeysAt({"append"}) /\ undropped' = undropped \cup KeysAt({"read", "truncate"})
      /\ cut' = (cut \/ KeysAt({"write"}) # {})
      /\ pc' = [h \in Handlers |-> "idle"] /\ req' = [h \in Handlers |-> NoRequest]
      /\ UNCHANGED <<live, conf, merged, overlap>>
  BY DEF Crash
<1>2. pc' \in [Handlers -> Steps] /\ req' \in [Handlers -> [key : Section, next : Text]]
  BY <1>1, EmptyText DEF Steps
<1>3. \A h \in Handlers : pc'[h] = "idle" /\ req'[h] = NoRequest
  BY <1>1
<1>4. KeysAt({"append"}) \subseteq Keys /\ KeysAt({"read", "truncate"}) \subseteq Keys
  BY DEF PeersInv, PeerTypes, KeysAt
<1>5. PeerTypes'
  BY <1>1, <1>2, <1>3, <1>4 DEF PeersInv, PeerTypes
<1>6. ~cut' => ~cut /\ \A h \in Handlers : pc[h] # "write"
  BY <1>1 DEF KeysAt
<1>7. RemovalAlone'
  BY <1>3 DEF RemovalAlone, Removing
<1>8. ~overlap' /\ ~cut' => InterfaceFirst'
  BY <1>1, <1>3, <1>6 DEF PeersInv, InterfaceFirst
<1>9. ~merged' => Single(conf') /\ \A h \in Handlers : Single(req'[h].next)
  BY <1>1, <1>3, EmptyText DEF PeersInv
<1>10. ASSUME ~overlap', ~cut', ~merged' PROVE Agreed'
  <2>1. Agree(conf, KeysAt({"append"}), KeysAt({"read", "truncate"}))
    BY <1>1, <1>6, <1>10 DEF PeersInv, Agreed
  <2>2. live' \ Peers(conf') \subseteq unsaved' /\ Peers(conf') \ live' \subseteq undropped'
    BY <1>1, <2>1 DEF Agree
  <2> QED
    BY <1>3, <2>2 DEF Agreed, Agree, Removing
<1> QED
  BY <1>5, <1>7, <1>8, <1>9, <1>10 DEF PeersInv

(* Every step keeps it. *)
LEMMA PeersNext == PeersInv /\ [Next]_vars => PeersInv'
<1> SUFFICES ASSUME PeersInv, [Next]_vars PROVE PeersInv'
  OBVIOUS
<1>1. CASE Reboot
  BY <1>1, RebootKeepsPeers
<1>2. CASE Crash
  BY <1>2, CrashKeepsPeers
<1>3. ASSUME NEW h \in Handlers, Step(h) PROVE PeersInv'
  BY <1>3, AddLiveKeepsPeers, AddConfKeepsPeers, AddConfFailsKeepsPeers, RemoveLiveKeepsPeers,
     RemoveReadKeepsPeers, RemoveTruncateKeepsPeers, RemoveWriteKeepsPeers, RemoveFailsKeepsPeers
     DEF Step
<1>4. CASE UNCHANGED vars
  BY <1>4 DEF vars, PeersInv, PeerTypes, RemovalAlone, InterfaceFirst, Agreed, Agree, KeysAt,
       Removing
<1> QED
  BY <1>1, <1>2, <1>3, <1>4 DEF Next

--------------------------------------------------------------------------------
(* Saves: what FileWritesProofs has of them is of ConfFiles' variables here. *)

Saves == INSTANCE FileWritesProofs WITH pc <- saving, req <- save, overlap <- overlapped

SavesInv == content # NoInode => Saves!IInv

(* They begin as they do there. *)
LEMMA SavesInit == ASSUME Files!Init PROVE Saves!IInv
<1>1. Saves!ConstantsOK
  BY FilesAssumption DEF Files!ConstantsOK, Saves!ConstantsOK, Files!Texts, Saves!Texts
<1>2. Saves!Init
  BY DEF Files!Init, Saves!Init, Files!Texts, Saves!Texts, Files!Nothing, Saves!Nothing,
         Files!Whole, Saves!Whole, Files!NoRequest, Saves!NoRequest
<1> QED
  BY <1>1, <1>2, Saves!InitInv

(* The same inodes stay, and the same saves are stained. *)
LEMMA SameInodes ==
  /\ \A inodes, writers : Files!Live(inodes, writers) = Saves!Live(inodes, writers)
  /\ \A saves : Files!Stained(saves) = Saves!Stained(saves)
<1>1. ASSUME NEW inodes, NEW writers
      PROVE  Files!Live(inodes, writers) = Saves!Live(inodes, writers)
  BY Zenon DEF Files!Live, Saves!Live, Files!Nothing, Saves!Nothing
<1>2. ASSUME NEW saves PROVE Files!Stained(saves) = Saves!Stained(saves)
  BY Zenon DEF Files!Stained, Saves!Stained, Files!Busy, Saves!Busy
<1> QED
  BY <1>1, <1>2

(* Every step of a save is a step of one there. *)
LEMMA SaveSteps ==
  ASSUME NEW w \in Writers
  PROVE  /\ Files!Begin(w) => Saves!Begin(w)
         /\ Files!Stat(w) => Saves!Stat(w)
         /\ Files!Open(w) => Saves!Open(w)
         /\ Files!Write(w) => Saves!Write(w)
         /\ Files!Rename(w) => Saves!Rename(w)
         /\ Files!Fail(w) => Saves!Fail(w)
<1>1. Files!Begin(w) => Saves!Begin(w)
  BY DEF Files!Begin, Saves!Begin, Files!NoRequest, Saves!NoRequest, Files!Busy, Saves!Busy, Files!names, Saves!names, Files!Texts, Saves!Texts
<1>2. Files!Stat(w) => Saves!Stat(w)
  BY DEF Files!Stat, Saves!Stat, Files!names, Saves!names, Files!history, Saves!history
<1>3. Files!Open(w) => Saves!Open(w)
  BY DEF Files!Open, Saves!Open, Files!Free, Saves!Free, Files!history, Saves!history
<1>4. Files!Write(w) => Saves!Write(w)
  BY DEF Files!Write, Saves!Write, Files!Put, Saves!Put, Files!names, Saves!names, Files!history, Saves!history
<1>5. Files!Rename(w) => Saves!Rename(w)
  BY SameInodes DEF Files!Rename, Saves!Rename, Files!Settle, Saves!Settle, Files!Reply, Saves!Reply, Files!NoRequest, Saves!NoRequest
<1>6. Files!Fail(w) => Saves!Fail(w)
  BY SameInodes DEF Files!Fail, Saves!Fail, Files!Reply, Saves!Reply, Files!NoRequest, Saves!NoRequest, Files!history, Saves!history
<1> QED
  BY <1>1, <1>2, <1>3, <1>4, <1>5, <1>6

(* And so is every other request. *)
LEMMA OtherSteps ==
  /\ Files!Crash => Saves!Crash
  /\ Files!Chmod => Saves!Chmod
  /\ Files!Delete => Saves!Delete
  /\ Files!Mkdir => Saves!Mkdir
<1>1. Files!Crash => Saves!Crash
  BY SameInodes DEF Files!Crash, Saves!Crash, Files!NoRequest, Saves!NoRequest, Files!names, Saves!names, Files!history, Saves!history
<1>2. Files!Chmod => Saves!Chmod
  BY DEF Files!Chmod, Saves!Chmod, Files!Stained, Saves!Stained, Files!Busy, Saves!Busy, Files!names, Saves!names
<1>3. Files!Delete => Saves!Delete
  BY SameInodes DEF Files!Delete, Saves!Delete
<1>4. Files!Mkdir => Saves!Mkdir
  BY DEF Files!Mkdir, Saves!Mkdir, Files!history, Saves!history
<1> QED
  BY <1>1, <1>2, <1>3, <1>4

(* And so they go on. *)
LEMMA SavesNext == ASSUME Saves!IInv, Files!Next PROVE Saves!IInv'
<1>1. Saves!ConstantsOK
  BY FilesAssumption DEF Files!ConstantsOK, Saves!ConstantsOK, Files!Texts, Saves!Texts
<1>2. ASSUME NEW w \in Writers,
             Files!Begin(w) \/ Files!Stat(w) \/ Files!Open(w) \/ Files!Write(w) \/ Files!Rename(w) \/ Files!Fail(w)
      PROVE  Saves!IInv'
  BY <1>1, <1>2, SaveSteps, Saves!BeginInv, Saves!StatInv, Saves!OpenInv, Saves!WriteInv,
     Saves!RenameInv, Saves!FailInv
<1>3. CASE Files!Crash \/ Files!Chmod \/ Files!Delete \/ Files!Mkdir
  BY <1>1, <1>3, OtherSteps, Saves!CrashInv, Saves!ChmodInv, Saves!DeleteInv, Saves!MkdirInv
<1> QED
  BY <1>2, <1>3 DEF Files!Next

(* Where there are no saves there are none of their variables, and saves go on. *)
LEMMA SavesInvNext ==
  ASSUME SavesInv, \/ content = NoInode /\ UNCHANGED filesVars
                   \/ content # NoInode /\ Files!Next
                   \/ UNCHANGED filesVars
  PROVE  SavesInv'
<1>1. CASE content # NoInode /\ Files!Next
  BY <1>1, SavesNext DEF SavesInv
<1>2. CASE UNCHANGED filesVars
  <2>1. /\ file' = file /\ tmp' = tmp /\ dir' = dir /\ content' = content /\ saving' = saving
        /\ save' = save /\ overlapped' = overlapped /\ wanted' = wanted /\ disturbed' = disturbed
    BY <1>2 DEF filesVars
  <2>2. Saves!IInv => Saves!IInv'
    BY <2>1 DEF Saves!IInv, Saves!TypeOK, Saves!OneAlone, Saves!NoneWanted, Saves!Draft, Saves!Carried,
         Saves!WholeUnlessOverlapped, Saves!ModeAsWanted, Saves!SaveOK, Saves!Busy
  <2> QED
    BY <2>1, <2>2 DEF SavesInv
<1> QED
  BY <1>1, <1>2

--------------------------------------------------------------------------------
(* What holds of every behaviour. *)

(* Both invariants hold of each: whichever of the two files it is about, the other does
   not change. *)
LEMMA Invariance == SideSpec => [](PeersInv /\ SavesInv)
<1>1. (Init /\ NoFiles) \/ (Init /\ conf.eol /\ Files!Init) => PeersInv /\ SavesInv
  <2>1. NoFiles => SavesInv
    BY DEF NoFiles, SavesInv
  <2>2. Files!Init => SavesInv
    BY SavesInit DEF SavesInv
  <2> QED
    BY <2>1, <2>2, PeersInit
<1>2. ASSUME PeersInv /\ SavesInv,
             [\/ Next /\ content = NoInode /\ UNCHANGED filesVars
              \/ content # NoInode /\ Files!Next /\ UNCHANGED vars]_<<vars, filesVars>>
      PROVE  (PeersInv /\ SavesInv)'
  <2>1. PeersInv'
    BY <1>2, PeersNext
  <2>2. SavesInv'
    BY <1>2, SavesInvNext
  <2> QED
    BY <2>1, <2>2
<1> QED
  BY <1>1, <1>2, PTL DEF SideSpec

(* The file is blocks of sections whatever overlaps, fails or crashes, and the text a
   removal is about to write is, too. *)
THEOREM ConfTyped == SideSpec => []TypeOK
<1>1. PeersInv => TypeOK
  BY PeersInvSays
<1> QED
  BY <1>1, Invariance, PTL

(* After a reboot the interface has the peers it had, save those whose own section was
   not appended or not dropped: unless blocks were merged, a removal overlapped another
   request or the file was cut off (wireguard.AddPeer, RemovePeer). *)
THEOREM PeersSurvive == SideSpec => []SurvivesUnlessDisturbed
<1>1. PeersInv => SurvivesUnlessDisturbed
  BY PeersInvSays
<1> QED
  BY <1>1, Invariance, PTL

(* However many peers are removed, from merged blocks too, the [Interface] section stays
   (wireguard.dropPeerBlock). *)
THEOREM InterfaceStays == SideSpec => []InterfaceKept
<1>1. PeersInv => InterfaceKept
  BY PeersInvSays
<1> QED
  BY <1>1, Invariance, PTL

(* The file manager's file is whole, as the runs of ConfFiles check it (files.WriteText,
   files.Save). *)
THEOREM SavedWhole == SideSpec => []FileWhole
<1>1. SavesInv => FileWhole
  BY DEF SavesInv, FileWhole, Saves!IInv, Saves!WholeUnlessOverlapped, Files!WholeUnlessOverlapped,
         Saves!Texts, Files!Texts, Saves!Whole, Files!Whole
<1> QED
  BY <1>1, Invariance, PTL

(* And has the mode it was last given (files.WriteText, files.Chmod). *)
THEOREM ModeStays == SideSpec => []ModeAsWanted
<1>1. SavesInv => ModeAsWanted
  BY DEF SavesInv, ModeAsWanted, Saves!IInv, Saves!ModeAsWanted, Files!ModeAsWanted
<1> QED
  BY <1>1, Invariance, PTL
================================================================================
