--------------------------- MODULE FileWritesProofs ---------------------------
(* What holds of a file that is replaced by renaming, for any texts, modes and
   writers. *)
EXTENDS FileWrites, TLAPS

(* A writer that is alone is the only one, and one that is clean is alone; and only
   writers that are alone leave a file that no saves overlapped on. *)
OneAlone ==
  \A w \in Writers :
    pc[w] # "idle" =>
      /\ req[w].clean => req[w].alone
      /\ req[w].alone => Busy = {w}
      /\ ~overlap => req[w].alone

(* So many chunks of a text. *)
Start(t, n) == [k \in 1..n |-> t]

(* What such a writer has open is not the file, nor is the temporary name another's,
   and it holds what has been written of the text. *)
Draft(w) ==
  LET i == req[w].inode
  IN pc[w] \in {"write", "rename"} /\ req[w].alone =>
       /\ i # file /\ tmp \in {i, NoInode}
       /\ content[i].chunks = Start(req[w].text, req[w].at)

(* The mode of a save that nothing else touches: an upload's is the default one, a
   text's the one the file should have, if it has it. *)
Carried(w) ==
  LET mode == IF pc[w] = "open" THEN req[w].mode ELSE content[req[w].inode].mode
      is == IF req[w].kind = "upload" THEN mode = Default ELSE disturbed \/ mode = wanted
  IN pc[w] \in {"open", "write", "rename"} /\ req[w].clean =>
       is /\ (pc[w] # "open" => tmp = req[w].inode)

(* Without the file there is no mode to keep. *)
NoneWanted == file = NoInode => wanted = Default

IInv ==
  /\ TypeOK /\ OneAlone /\ NoneWanted
  /\ \A w \in Writers : Draft(w) /\ Carried(w)
  /\ WholeUnlessOverlapped /\ ModeAsWanted
-------------------------------------------------------------------------------
Inode == [chunks : Seq(Texts \cup {"hole"}), mode : Modes \cup {Default}]

(* Inodes that a name or a writer keeps are as they were. *)
LEMMA LiveKeeps ==
  ASSUME TypeOK, NEW inodes, NEW writers, content' = Live(inodes, writers)
  PROVE  /\ content' \in [Inodes -> Inode]
         /\ \A i \in Inodes \cap inodes : content'[i] = content[i]
         /\ \A w \in writers : req[w].inode \in Inodes =>
              content'[req[w].inode] = content[req[w].inode]
<1>1. Nothing \in Inode /\ content \in [Inodes -> Inode]
  BY DEF Nothing, TypeOK, Inode
<1>2. \A i \in Inodes : content'[i] \in {content[i], Nothing}
  BY DEF Live
<1> QED
  BY <1>1, <1>2 DEF Live

(* A writer between requests has one of them, too. *)
LEMMA NoRequestType == NoRequest \in Requests
BY DEF NoRequest, Requests

(* Beside a busy writer no other is alone, or clean. *)
LEMMA NotAlone ==
  ASSUME OneAlone, NEW w \in Writers, NEW u \in Writers, u # w, pc[w] # "idle", pc[u] # "idle"
  PROVE  ~req[u].alone /\ ~req[u].clean /\ overlap
BY DEF OneAlone, Busy

(* A text that is saved, and the default mode. *)
LEMMA InitInv == ASSUME ConstantsOK, Init PROVE IInv
<1>1. PICK i \in Inodes, t \in Texts :
        /\ file = i
        /\ content = [j \in Inodes |-> IF j = i THEN [Nothing EXCEPT !.chunks = Whole(t)] ELSE Nothing]
  BY DEF Init
<1>2. /\ Whole(t) \in Seq(Texts \cup {"hole"}) /\ Nothing \in Inode
      /\ [Nothing EXCEPT !.chunks = Whole(t)] \in Inode
  BY DEF Whole, ConstantsOK, Nothing, Inode
<1>3. content \in [Inodes -> Inode] /\ content[i].chunks = Whole(t) /\ content[i].mode = Default
  BY <1>1, <1>2 DEF Nothing
<1>4. pc = [w \in Writers |-> "idle"] /\ req = [w \in Writers |-> NoRequest]
  BY DEF Init
<1>5. TypeOK
  <2>1. \A w \in Writers : SaveOK(w)
    BY <1>4 DEF SaveOK
  <2>2. req \in [Writers -> Requests]
    BY <1>4, NoRequestType
  <2> QED
    BY <1>1, <1>3, <1>4, <2>1, <2>2 DEF Init, TypeOK, Inode, ConstantsOK
<1>6. OneAlone /\ NoneWanted /\ \A w \in Writers : Draft(w) /\ Carried(w)
  BY <1>1, <1>4 DEF Init, OneAlone, NoneWanted, Draft, Carried, ConstantsOK
<1>7. WholeUnlessOverlapped /\ ModeAsWanted
  BY <1>1, <1>3 DEF Init, WholeUnlessOverlapped, ModeAsWanted
<1> QED
  BY <1>5, <1>6, <1>7 DEF IInv

(* A save that begins is alone when nobody is busy, and then nobody else is alone. *)
LEMMA BeginInv == ASSUME ConstantsOK, IInv, NEW w \in Writers, Begin(w) PROVE IInv'
<1>1. PICK kind \in {"text", "upload"}, t \in Texts :
        /\ req' = [v \in Writers |->
                     IF v = w THEN [NoRequest EXCEPT !.kind = kind, !.text = t,
                                                     !.alone = (Busy = {}), !.clean = (Busy = {})]
                     ELSE IF v \in Busy THEN [req[v] EXCEPT !.alone = FALSE, !.clean = FALSE]
                     ELSE req[v]]
        /\ pc' = [pc EXCEPT ![w] = IF kind = "text" THEN "stat" ELSE "open"]
  BY DEF Begin
<1>2. pc[w] = "idle" /\ overlap' = (overlap \/ Busy # {}) /\ UNCHANGED <<names, content, wanted, disturbed>>
  BY DEF Begin
<1>3. /\ req'[w] \in Requests /\ req'[w].kind = kind /\ req'[w].text = t /\ req'[w].mode = Default
      /\ req'[w].inode = NoInode /\ req'[w].at = 0
      /\ req'[w].alone = (Busy = {}) /\ req'[w].clean = (Busy = {})
  BY <1>1 DEF NoRequest, Requests
<1>4. ASSUME NEW v \in Writers, v # w
      PROVE  /\ pc'[v] = pc[v] /\ req'[v] \in Requests
             /\ pc[v] = "idle" => req'[v] = req[v]
             /\ pc[v] # "idle" => ~req'[v].alone /\ ~req'[v].clean
             /\ req'[v].kind = req[v].kind /\ req'[v].text = req[v].text
             /\ req'[v].inode = req[v].inode /\ req'[v].at = req[v].at
  <2>1. pc'[v] = pc[v] /\ req[v] \in Requests
    BY <1>1, <1>4 DEF IInv, TypeOK
  <2>2. CASE pc[v] = "idle"
    BY <1>1, <1>4, <2>1, <2>2 DEF Busy
  <2>3. CASE pc[v] # "idle"
    <3>1. req'[v] = [req[v] EXCEPT !.alone = FALSE, !.clean = FALSE]
      BY <1>1, <1>4, <2>3 DEF Busy
    <3> QED
      BY <2>1, <2>3, <3>1 DEF Requests
  <2> QED
    BY <2>2, <2>3
<1>5. TypeOK'
  <2>1. req' \in [Writers -> Requests] /\ pc' \in [Writers -> {"idle", "stat", "open", "write", "rename"}]
    BY <1>1, <1>3, <1>4 DEF IInv, TypeOK
  <2>2. overlap' \in BOOLEAN
    BY <1>2
  <2>3. pc'[w] = IF kind = "text" THEN "stat" ELSE "open"
    BY <1>1 DEF IInv, TypeOK
  <2>4. SaveOK(w)'
    BY <1>2, <1>3, <2>3 DEF SaveOK
  <2>5. \A v \in Writers : v # w => SaveOK(v)'
    BY <1>4 DEF IInv, TypeOK, SaveOK
  <2> QED
    BY <1>2, <2>1, <2>2, <2>4, <2>5 DEF IInv, TypeOK, names
<1>6. Busy' = Busy \cup {w} /\ w \notin Busy
  BY <1>1, <1>2 DEF Busy, IInv, TypeOK
<1>7. OneAlone'
  BY <1>2, <1>3, <1>4, <1>6 DEF IInv, OneAlone, Busy
<1>8. \A v \in Writers : Draft(v)' /\ Carried(v)'
  <2>1. pc'[w] \in {"stat", "open"} /\ (pc'[w] = "open" => kind = "upload")
    BY <1>1 DEF IInv, TypeOK
  <2>2. Draft(w)' /\ Carried(w)'
    BY <1>3, <2>1 DEF Draft, Carried
  <2> QED
    BY <1>4, <2>2 DEF Draft, Carried
<1>9. NoneWanted' /\ WholeUnlessOverlapped' /\ ModeAsWanted'
  BY <1>2 DEF IInv, NoneWanted, WholeUnlessOverlapped, ModeAsWanted, names
<1> QED
  BY <1>5, <1>7, <1>8, <1>9 DEF IInv

(* The mode that is carried over is the one the file should have. *)
LEMMA StatInv == ASSUME ConstantsOK, IInv, NEW w \in Writers, Stat(w) PROVE IInv'
<1> DEFINE mode == IF file = NoInode THEN Default ELSE content[file].mode
<1>1. /\ pc[w] = "stat" /\ pc' = [pc EXCEPT ![w] = "open"]
      /\ req' = [req EXCEPT ![w].mode = mode]
      /\ UNCHANGED <<names, content, history>>
  BY DEF Stat
<1>2. mode \in Modes \cup {Default} /\ (disturbed \/ mode = wanted)
  BY DEF IInv, TypeOK, NoneWanted, ModeAsWanted
<1> HIDE DEF mode
<1>3. /\ req'[w] \in Requests /\ req'[w].kind = "text" /\ req'[w].mode = mode
      /\ req'[w] = [req[w] EXCEPT !.mode = mode] /\ pc'[w] = "open"
      /\ \A v \in Writers : v # w => req'[v] = req[v] /\ pc'[v] = pc[v]
  <2>1. req'[w] = [req[w] EXCEPT !.mode = mode] /\ pc'[w] = "open" /\ req[w] \in Requests
    BY <1>1 DEF IInv, TypeOK
  <2>2. req[w].kind = "text"
    BY <1>1 DEF IInv, TypeOK, SaveOK
  <2>3. req'[w] \in Requests /\ req'[w].kind = "text" /\ req'[w].mode = mode
    BY <1>2, <2>1, <2>2 DEF Requests
  <2> QED
    BY <1>1, <2>1, <2>3 DEF IInv, TypeOK
<1>4. /\ req'[w].text = req[w].text /\ req'[w].inode = req[w].inode /\ req'[w].at = req[w].at
      /\ req'[w].alone = req[w].alone /\ req'[w].clean = req[w].clean
  BY <1>1, <1>3 DEF IInv, TypeOK, Requests
<1>5. TypeOK'
  <2>1. req' \in [Writers -> Requests] /\ pc' \in [Writers -> {"idle", "stat", "open", "write", "rename"}]
    BY <1>1, <1>3 DEF IInv, TypeOK
  <2>2. \A v \in Writers : SaveOK(v)'
    BY <1>1, <1>3, <1>4 DEF IInv, TypeOK, SaveOK
  <2> QED
    BY <1>1, <2>1, <2>2 DEF IInv, TypeOK, names, history
<1>6. Busy' = Busy
  BY <1>1, <1>3 DEF Busy, IInv, TypeOK
<1>7. OneAlone'
  BY <1>1, <1>3, <1>4, <1>6 DEF IInv, OneAlone, history
<1>8. \A v \in Writers : Draft(v)' /\ Carried(v)'
  <2>1. Draft(w)' /\ Carried(w)'
    BY <1>1, <1>2, <1>3 DEF Draft, Carried, history
  <2> QED
    BY <1>1, <1>3, <2>1 DEF IInv, Draft, Carried, names, history
<1>9. NoneWanted' /\ WholeUnlessOverlapped' /\ ModeAsWanted'
  BY <1>1 DEF IInv, NoneWanted, WholeUnlessOverlapped, ModeAsWanted, names, history
<1> QED
  BY <1>5, <1>7, <1>8, <1>9 DEF IInv

(* The temporary file is emptied, or made with the mode that was carried over; it is
   not the file. *)
LEMMA OpenInv == ASSUME ConstantsOK, IInv, NEW w \in Writers, Open(w) PROVE IInv'
<1> DEFINE record(i) == [chunks |-> <<>>, mode |-> IF i = tmp THEN content[i].mode ELSE req[w].mode]
           r(i) == [req[w] EXCEPT !.inode = i, !.mode = Default, !.clean = @ /\ tmp = NoInode]
<1>1. PICK i \in IF tmp = NoInode THEN Free ELSE {tmp} :
        /\ tmp' = i /\ content' = [content EXCEPT ![i] = record(i)]
        /\ req' = [req EXCEPT ![w].inode = i, ![w].mode = Default, ![w].clean = @ /\ tmp = NoInode]
  BY DEF Open
<1>2. pc[w] = "open" /\ dir /\ pc' = [pc EXCEPT ![w] = "write"] /\ UNCHANGED <<file, dir, history>>
  BY DEF Open
<1>3. i \in Inodes /\ i # file /\ i # NoInode /\ (tmp # NoInode => i = tmp)
  <2>1. CASE tmp = NoInode
    BY <1>1, <2>1 DEF Free, ConstantsOK
  <2>2. CASE tmp # NoInode
    BY <1>1, <2>2 DEF IInv, TypeOK
  <2> QED
    BY <2>1, <2>2
<1>4. /\ req[w] \in Requests /\ req[w].text \in Texts /\ req[w].at = 0 /\ req[w].inode = NoInode
      /\ req[w].kind # "none"
  BY <1>2 DEF IInv, TypeOK, SaveOK
<1>5. record(i) \in Inode /\ record(i).chunks = <<>>
      /\ record(i).mode = IF i = tmp THEN content[i].mode ELSE req[w].mode
  <2>1. content[i] \in Inode /\ req[w].mode \in Modes \cup {Default}
    BY <1>3, <1>4 DEF IInv, TypeOK, Inode, Requests
  <2> QED
    BY <2>1 DEF Inode
<1> HIDE DEF record
<1>6. /\ content' \in [Inodes -> Inode] /\ content'[i] = record(i)
      /\ \A j \in Inodes : j # i => content'[j] = content[j]
  <2>1. content \in [Inodes -> Inode]
    BY DEF IInv, TypeOK, Inode
  <2> QED
    BY <1>1, <1>3, <1>5, <2>1
<1>7. /\ req' = [req EXCEPT ![w] = r(i)] /\ req'[w] = r(i) /\ pc'[w] = "write"
      /\ \A v \in Writers : v # w => req'[v] = req[v] /\ pc'[v] = pc[v]
  BY <1>1, <1>2 DEF IInv, TypeOK
<1>8. /\ r(i) \in Requests /\ r(i).inode = i /\ r(i).mode = Default /\ r(i).at = 0
      /\ r(i).kind = req[w].kind /\ r(i).text = req[w].text /\ r(i).alone = req[w].alone
      /\ r(i).clean = (req[w].clean /\ tmp = NoInode)
  BY <1>3, <1>4 DEF Requests
<1> HIDE DEF r
<1>9. TypeOK'
  <2>1. req' \in [Writers -> Requests] /\ pc' \in [Writers -> {"idle", "stat", "open", "write", "rename"}]
    BY <1>2, <1>7, <1>8 DEF IInv, TypeOK
  <2>2. Lengths[req[w].text] \in Nat \ {0}
    BY <1>4 DEF ConstantsOK
  <2>3. SaveOK(w)'
    BY <1>3, <1>4, <1>7, <1>8, <2>2 DEF SaveOK
  <2>4. \A v \in Writers : v # w => SaveOK(v)'
    BY <1>7 DEF IInv, TypeOK, SaveOK
  <2>5. tmp' = i /\ tmp' # file' /\ dir' = TRUE
    BY <1>1, <1>2, <1>3 DEF IInv, TypeOK
  <2> QED
    BY <1>2, <1>3, <1>6, <2>1, <2>3, <2>4, <2>5 DEF IInv, TypeOK, history, Inode
<1>10. OneAlone' /\ Busy' = Busy
  <2>1. Busy' = Busy
    BY <1>2, <1>7 DEF Busy, IInv, TypeOK
  <2> QED
    BY <1>2, <1>7, <1>8, <2>1 DEF IInv, OneAlone, history
<1>11. ASSUME NEW v \in Writers PROVE Draft(v)' /\ Carried(v)'
  <2>1. CASE v # w /\ pc[v] # "idle"
    BY <1>2, <1>7, <2>1, NotAlone DEF IInv, Draft, Carried
  <2>2. CASE v # w /\ pc[v] = "idle"
    BY <1>7, <2>2 DEF Draft, Carried
  <2>3. CASE v = w
    <3>1. /\ req'[w].inode = i /\ req'[w].at = 0 /\ content'[i].chunks = <<>> /\ file' = file
          /\ content'[i].mode = IF i = tmp THEN content[i].mode ELSE req[w].mode
          /\ req'[w].kind = req[w].kind /\ req'[w].clean = (req[w].clean /\ tmp = NoInode)
          /\ disturbed' = disturbed /\ wanted' = wanted
      BY <1>2, <1>5, <1>6, <1>7, <1>8 DEF history
    <3>2. <<>> = Start(req'[w].text, 0)
      BY DEF Start
    <3>3. Draft(w)'
      BY <1>1, <1>3, <3>1, <3>2 DEF Draft
    <3>4. Carried(w)
      BY DEF IInv
    <3>5. Carried(w)'
      BY <1>1, <1>2, <1>3, <1>7, <3>1, <3>4 DEF Carried
    <3> QED
      BY <2>3, <3>3, <3>5
  <2> QED
    BY <2>1, <2>2, <2>3
<1>12. NoneWanted' /\ WholeUnlessOverlapped' /\ ModeAsWanted'
  <2>1. file # NoInode => content'[file] = content[file]
    BY <1>3, <1>6 DEF IInv, TypeOK
  <2> QED
    BY <1>2, <2>1 DEF IInv, NoneWanted, WholeUnlessOverlapped, ModeAsWanted, history
<1> QED
  BY <1>9, <1>10, <1>11, <1>12 DEF IInv

(* A chunk put where the text is. *)
LEMMA PutAppends ==
  ASSUME NEW chunks \in Seq(Texts \cup {"hole"}), NEW at \in Nat, NEW t \in Texts
  PROVE  /\ Put(chunks, at + 1, t) \in Seq(Texts \cup {"hole"})
         /\ chunks = Start(t, at) => Put(chunks, at + 1, t) = Start(t, at + 1)
<1> DEFINE n == IF at + 1 > Len(chunks) THEN at + 1 ELSE Len(chunks)
<1>1. n \in Nat /\ Len(chunks) \in Nat /\ DOMAIN chunks = 1..Len(chunks)
  OBVIOUS
<1>2. Put(chunks, at + 1, t) \in [1..n -> Texts \cup {"hole"}]
  BY <1>1 DEF Put
<1>3. Put(chunks, at + 1, t) \in Seq(Texts \cup {"hole"})
  BY <1>1, <1>2
<1>4. ASSUME chunks = Start(t, at) PROVE Put(chunks, at + 1, t) = Start(t, at + 1)
  <2>1. Len(chunks) = at
    BY <1>1, <1>4 DEF Start
  <2> QED
    BY <1>4, <2>1 DEF Put, Start
<1> QED
  BY <1>3, <1>4

(* A writer that is alone appends to its draft, which is not the file; one that is
   not may write to anything, but then saves overlapped. *)
LEMMA WriteInv == ASSUME ConstantsOK, IInv, NEW w \in Writers, Write(w) PROVE IInv'
<1> DEFINE at == req[w].at + 1
           i == req[w].inode
           t == req[w].text
           record == [content[i] EXCEPT !.chunks = Put(@, at, t)]
<1>1. /\ pc[w] = "write" /\ UNCHANGED <<names, history>>
      /\ content' = [content EXCEPT ![i].chunks = Put(@, at, t)]
      /\ req' = [req EXCEPT ![w].at = at]
      /\ pc' = [pc EXCEPT ![w] = IF at = Lengths[t] THEN "rename" ELSE "write"]
  BY DEF Write
<1>2. /\ i \in Inodes /\ t \in Texts /\ req[w].at \in Nat /\ req[w].at < Lengths[t]
      /\ Lengths[t] \in Nat \ {0} /\ req[w] \in Requests /\ content[i] \in Inode
      /\ req[w].kind # "none"
  BY <1>1 DEF IInv, TypeOK, SaveOK, Requests, ConstantsOK, Inode
<1>3. /\ record \in Inode /\ record.mode = content[i].mode /\ record.chunks = Put(content[i].chunks, at, t)
      /\ content[i].chunks = Start(t, req[w].at) => record.chunks = Start(t, at)
  <2> DEFINE c == content[i].chunks
  <2>1. c \in Seq(Texts \cup {"hole"}) /\ content[i].mode \in Modes \cup {Default}
    BY <1>2 DEF Inode
  <2>2. content[i] = [chunks |-> c, mode |-> content[i].mode]
    BY <1>2 DEF Inode
  <2> HIDE DEF c
  <2>3. /\ Put(c, req[w].at + 1, t) \in Seq(Texts \cup {"hole"})
        /\ c = Start(t, req[w].at) => Put(c, req[w].at + 1, t) = Start(t, req[w].at + 1)
    BY <1>2, <2>1, PutAppends
  <2>4. record = [chunks |-> Put(c, req[w].at + 1, t), mode |-> content[i].mode]
    BY <2>2 DEF c
  <2> QED
    BY <2>1, <2>3, <2>4 DEF Inode, c
<1>4. /\ content' \in [Inodes -> Inode] /\ content'[i] = record
      /\ \A j \in Inodes : j # i => content'[j] = content[j]
  <2>1. content \in [Inodes -> Inode]
    BY DEF IInv, TypeOK, Inode
  <2>2. content' = [content EXCEPT ![i] = record]
    BY <1>1
  <2> QED
    BY <1>2, <1>3, <2>1, <2>2
<1>5. /\ req'[w] = [req[w] EXCEPT !.at = at]
      /\ pc'[w] = IF at = Lengths[t] THEN "rename" ELSE "write"
      /\ \A v \in Writers : v # w => req'[v] = req[v] /\ pc'[v] = pc[v]
  BY <1>1 DEF IInv, TypeOK
<1>6. /\ req'[w] \in Requests /\ req'[w].at = at /\ req'[w].inode = i /\ req'[w].text = t
      /\ req'[w].kind = req[w].kind /\ req'[w].alone = req[w].alone /\ req'[w].clean = req[w].clean
  BY <1>2, <1>5 DEF Requests
<1> HIDE DEF record
<1>7. TypeOK'
  <2>1. req' \in [Writers -> Requests] /\ pc' \in [Writers -> {"idle", "stat", "open", "write", "rename"}]
    BY <1>1, <1>5, <1>6 DEF IInv, TypeOK
  <2>2. SaveOK(w)'
    BY <1>2, <1>5, <1>6 DEF SaveOK
  <2>3. \A v \in Writers : v # w => SaveOK(v)'
    BY <1>5 DEF IInv, TypeOK, SaveOK
  <2> QED
    BY <1>1, <1>4, <2>1, <2>2, <2>3 DEF IInv, TypeOK, names, history, Inode
<1>8. OneAlone'
  <2>1. Busy' = Busy
    BY <1>1, <1>5 DEF Busy, IInv, TypeOK
  <2> QED
    BY <1>1, <1>5, <1>6, <2>1 DEF IInv, OneAlone, history
<1>9. ASSUME NEW v \in Writers PROVE Draft(v)' /\ Carried(v)'
  <2>1. CASE v # w /\ pc[v] # "idle"
    BY <1>1, <1>5, <2>1, NotAlone DEF IInv, Draft, Carried
  <2>2. CASE v # w /\ pc[v] = "idle"
    BY <1>5, <2>2 DEF Draft, Carried
  <2>3. CASE v = w
    <3>1. Draft(w) /\ Carried(w)
      BY DEF IInv
    <3>2. Draft(w)'
      BY <1>1, <1>3, <1>4, <1>6, <3>1 DEF Draft, names
    <3>3. Carried(w)'
      BY <1>1, <1>3, <1>4, <1>5, <1>6, <3>1 DEF Carried, names, history
    <3> QED
      BY <2>3, <3>2, <3>3
  <2> QED
    BY <2>1, <2>2, <2>3
<1>10. NoneWanted' /\ ModeAsWanted'
  <2>1. file # NoInode => content'[file].mode = content[file].mode
    BY <1>3, <1>4 DEF IInv, TypeOK
  <2> QED
    BY <1>1, <2>1 DEF IInv, NoneWanted, ModeAsWanted, names, history
<1>11. WholeUnlessOverlapped'
  <2>1. ~overlap => i # file
    BY <1>1 DEF IInv, OneAlone, Draft
  <2>2. file # NoInode /\ ~overlap => content'[file] = content[file]
    BY <1>4, <2>1 DEF IInv, TypeOK
  <2> QED
    BY <1>1, <2>2 DEF IInv, WholeUnlessOverlapped, names, history
<1> QED
  BY <1>7, <1>8, <1>9, <1>10, <1>11 DEF IInv

(* A request that ends leaves no save behind, and those that go on are not alone. *)
LEMMA Ends ==
  ASSUME IInv, NEW w \in Writers, pc[w] # "idle", Reply(w)
  PROVE  /\ req' \in [Writers -> Requests] /\ pc' \in [Writers -> {"idle", "stat", "open", "write", "rename"}]
         /\ \A v \in Writers : v # w => req'[v] = req[v] /\ pc'[v] = pc[v]
         /\ \A v \in Writers : SaveOK(v)' /\ Draft(v)' /\ Carried(v)'
         /\ overlap' \/ (~overlap' /\ overlap /\ Busy = {w}) \/ (~overlap' /\ ~overlap) => OneAlone'
<1>1. /\ pc'[w] = "idle" /\ req'[w] = NoRequest
      /\ \A v \in Writers : v # w => req'[v] = req[v] /\ pc'[v] = pc[v]
  BY DEF IInv, TypeOK, Reply
<1>2. req' \in [Writers -> Requests] /\ pc' \in [Writers -> {"idle", "stat", "open", "write", "rename"}]
  BY NoRequestType DEF IInv, TypeOK, Reply
<1>3. ASSUME NEW v \in Writers PROVE SaveOK(v)' /\ Draft(v)' /\ Carried(v)'
  <2>1. CASE v = w
    BY <1>1, <2>1 DEF SaveOK, Draft, Carried
  <2>2. CASE v # w /\ pc[v] = "idle"
    BY <1>1, <2>2 DEF IInv, TypeOK, SaveOK, Draft, Carried
  <2>3. CASE v # w /\ pc[v] # "idle"
    <3>1. SaveOK(v)'
      BY <1>1, <2>3 DEF IInv, TypeOK, SaveOK
    <3> QED
      BY <1>1, <2>3, <3>1, NotAlone DEF IInv, Draft, Carried
  <2> QED
    BY <2>1, <2>2, <2>3
<1>4. ASSUME overlap' \/ (~overlap' /\ overlap /\ Busy = {w}) \/ (~overlap' /\ ~overlap)
      PROVE  OneAlone'
  <2>1. ASSUME NEW v \in Writers, pc'[v] # "idle"
        PROVE  v # w /\ pc[v] # "idle" /\ ~req'[v].alone /\ ~req'[v].clean /\ overlap /\ Busy # {w}
    BY <1>1, <2>1, NotAlone DEF IInv, Busy
  <2> QED
    BY <1>4, <2>1 DEF OneAlone
<1> QED
  BY <1>1, <1>2, <1>3, <1>4

(* Whatever has the temporary name becomes the file: the draft of the one that renames
   when it is alone. *)
LEMMA RenameInv == ASSUME ConstantsOK, IInv, NEW w \in Writers, Rename(w) PROVE IInv'
<1>1. /\ pc[w] = "rename" /\ tmp # NoInode /\ file' = tmp /\ tmp' = NoInode /\ dir' = dir
      /\ Settle(w) /\ Reply(w) /\ content' = Live({tmp}, Writers \ {w})
  BY DEF Rename
<1>2. tmp \in Inodes /\ content' \in [Inodes -> Inode] /\ content'[file'] = content[tmp]
  <2>1. tmp \in Inodes
    BY <1>1 DEF IInv, TypeOK
  <2> QED
    BY <1>1, <2>1, LiveKeeps DEF IInv
<1>3. /\ overlap' = (overlap /\ ~req[w].alone)
      /\ wanted' = IF req[w].kind = "upload" THEN Default ELSE wanted
      /\ disturbed' = (~req[w].clean \/ (disturbed /\ req[w].kind = "text"))
  BY <1>1 DEF Settle
<1>4. req[w] \in Requests /\ req[w].text \in Texts /\ req[w].at = Lengths[req[w].text]
      /\ req[w].kind \in {"text", "upload"}
  BY <1>1 DEF IInv, TypeOK, SaveOK, Requests
<1>5. OneAlone'
  <2>1. req[w].alone => Busy = {w}
    BY <1>1 DEF IInv, OneAlone
  <2>2. overlap' \/ (~overlap' /\ overlap /\ Busy = {w}) \/ (~overlap' /\ ~overlap)
    BY <1>3, <2>1
  <2> QED
    BY <1>1, <2>2, Ends
<1>6. /\ req' \in [Writers -> Requests] /\ pc' \in [Writers -> {"idle", "stat", "open", "write", "rename"}]
      /\ \A v \in Writers : SaveOK(v)' /\ Draft(v)' /\ Carried(v)'
  BY <1>1, Ends
<1>7. TypeOK'
  <2>1. overlap' \in BOOLEAN /\ disturbed' \in BOOLEAN /\ wanted' \in Modes \cup {Default}
    BY <1>3, <1>4 DEF IInv, TypeOK, Requests
  <2>2. dir' = TRUE
    BY <1>1 DEF IInv, TypeOK
  <2> QED
    BY <1>1, <1>2, <1>6, <2>1, <2>2 DEF IInv, TypeOK, Inode
<1>8. NoneWanted'
  BY <1>1 DEF NoneWanted
<1>9. WholeUnlessOverlapped'
  <2>1. ASSUME ~overlap' PROVE content'[file'].chunks = Whole(req[w].text)
    <3>1. req[w].alone
      BY <1>1, <1>3, <2>1 DEF IInv, OneAlone
    <3>2. tmp = req[w].inode /\ content[tmp].chunks = Start(req[w].text, req[w].at)
      BY <1>1, <3>1 DEF IInv, Draft
    <3> QED
      BY <1>2, <1>4, <3>2 DEF Whole, Start
  <2>2. ~overlap' => \E t \in Texts : content'[file'].chunks = Whole(t)
    BY <1>4, <2>1
  <2>3. \A t \in Texts : Whole(t)' = Whole(t)
    BY DEF Whole
  <2> QED
    BY <2>2, <2>3 DEF WholeUnlessOverlapped
<1>10. ModeAsWanted'
  <2>1. ASSUME ~disturbed' PROVE content'[file'].mode = wanted'
    <3>1. req[w].clean /\ ~(disturbed /\ req[w].kind = "text")
      BY <1>3, <2>1
    <3>2. Carried(w)
      BY DEF IInv
    <3>3. /\ tmp = req[w].inode
          /\ IF req[w].kind = "upload" THEN content[tmp].mode = Default
             ELSE disturbed \/ content[tmp].mode = wanted
      BY <1>1, <3>1, <3>2 DEF Carried
    <3> QED
      BY <1>2, <1>3, <1>4, <3>1, <3>3
  <2> QED
    BY <2>1 DEF ModeAsWanted
<1> QED
  BY <1>5, <1>6, <1>7, <1>8, <1>9, <1>10 DEF IInv

(* A save that fails leaves the file, and may take the temporary name away. *)
LEMMA FailInv == ASSUME ConstantsOK, IInv, NEW w \in Writers, Fail(w) PROVE IInv'
<1>1. PICK left \in {NoInode, tmp} :
        tmp' = left /\ content' = Live({file, left}, Writers \ {w})
  BY DEF Fail
<1>2. pc[w] # "idle" /\ Reply(w) /\ UNCHANGED <<file, dir, history>>
  BY DEF Fail
<1>3. content' \in [Inodes -> Inode] /\ (file # NoInode => content'[file] = content[file])
  <2>1. file # NoInode => file \in Inodes
    BY DEF IInv, TypeOK
  <2>2. /\ content' \in [Inodes -> Inode]
        /\ \A i \in Inodes \cap {file, left} : content'[i] = content[i]
    BY <1>1, LiveKeeps DEF IInv
  <2> QED
    BY <2>1, <2>2
<1>4. OneAlone'
  <2>1. overlap' = overlap
    BY <1>2 DEF history
  <2> QED
    BY <1>2, <2>1, Ends
<1>5. /\ req' \in [Writers -> Requests] /\ pc' \in [Writers -> {"idle", "stat", "open", "write", "rename"}]
      /\ \A v \in Writers : SaveOK(v)' /\ Draft(v)' /\ Carried(v)'
  BY <1>2, Ends
<1>6. TypeOK'
  BY <1>1, <1>2, <1>3, <1>5 DEF IInv, TypeOK, Inode, history
<1>7. NoneWanted' /\ WholeUnlessOverlapped' /\ ModeAsWanted'
  BY <1>2, <1>3 DEF IInv, NoneWanted, WholeUnlessOverlapped, ModeAsWanted, history
<1> QED
  BY <1>4, <1>5, <1>6, <1>7 DEF IInv

(* A crash leaves the names and what they name. *)
LEMMA CrashInv == ASSUME ConstantsOK, IInv, Crash PROVE IInv'
<1>1. /\ pc' = [w \in Writers |-> "idle"] /\ req' = [w \in Writers |-> NoRequest]
      /\ content' = Live({file, tmp}, {}) /\ UNCHANGED <<names, history>>
  BY DEF Crash
<1>2. content' \in [Inodes -> Inode] /\ (file # NoInode => content'[file] = content[file])
  <2>1. file # NoInode => file \in Inodes
    BY DEF IInv, TypeOK
  <2> QED
    BY <1>1, <2>1, LiveKeeps DEF IInv
<1>3. \A v \in Writers : SaveOK(v)' /\ Draft(v)' /\ Carried(v)'
  BY <1>1 DEF SaveOK, Draft, Carried
<1>4. TypeOK'
  BY <1>1, <1>2, <1>3, NoRequestType DEF IInv, TypeOK, Inode, names, history
<1>5. OneAlone' /\ NoneWanted' /\ WholeUnlessOverlapped' /\ ModeAsWanted'
  BY <1>1, <1>2 DEF IInv, OneAlone, NoneWanted, WholeUnlessOverlapped, ModeAsWanted, names, history
<1> QED
  BY <1>3, <1>4, <1>5 DEF IInv

(* What another request on the file or its directory does to the saves under way. *)
LEMMA StainedSaves ==
  ASSUME IInv, req' = Stained(req), pc' = pc, overlap' = overlap
  PROVE  /\ req' \in [Writers -> Requests] /\ OneAlone' /\ \A v \in Writers : SaveOK(v)'
         /\ \A v \in Writers : pc[v] # "idle" =>
              /\ ~req'[v].clean /\ req'[v].alone = req[v].alone /\ req'[v].inode = req[v].inode
              /\ req'[v].text = req[v].text /\ req'[v].at = req[v].at
<1>1. ASSUME NEW v \in Writers
      PROVE  /\ req'[v] \in Requests
             /\ pc[v] = "idle" => req'[v] = req[v]
             /\ pc[v] # "idle" => ~req'[v].clean
             /\ req'[v].alone = req[v].alone /\ req'[v].inode = req[v].inode
             /\ req'[v].text = req[v].text /\ req'[v].at = req[v].at /\ req'[v].kind = req[v].kind
  <2>1. req[v] \in Requests
    BY DEF IInv, TypeOK
  <2>2. CASE pc[v] = "idle"
    BY <2>1, <2>2 DEF Stained, Busy
  <2>3. CASE pc[v] # "idle"
    <3>1. req'[v] = [req[v] EXCEPT !.clean = FALSE]
      BY <2>3 DEF Stained, Busy
    <3> QED
      BY <2>1, <2>3, <3>1 DEF Requests
  <2> QED
    BY <2>2, <2>3
<1>2. req' \in [Writers -> Requests]
  <2>1. req' = [v \in Writers |-> req'[v]]
    BY DEF Stained
  <2> QED
    BY <1>1, <2>1
<1>3. \A v \in Writers : SaveOK(v)'
  BY <1>1 DEF IInv, TypeOK, SaveOK
<1>4. OneAlone'
  BY <1>1 DEF IInv, OneAlone, Busy
<1> QED
  BY <1>1, <1>2, <1>3, <1>4

(* The mode that is given to the file is the one it should have. *)
LEMMA ChmodInv == ASSUME ConstantsOK, IInv, Chmod PROVE IInv'
<1>1. PICK mode \in Modes :
        content' = [content EXCEPT ![file].mode = mode] /\ wanted' = mode
  BY DEF Chmod
<1>2. /\ file # NoInode /\ disturbed' = FALSE /\ req' = Stained(req)
      /\ UNCHANGED <<names, pc, overlap>>
  BY DEF Chmod
<1>3. file \in Inodes /\ content \in [Inodes -> Inode] /\ content[file] \in Inode
  BY <1>2 DEF IInv, TypeOK, Inode
<1>4. /\ [content[file] EXCEPT !.mode = mode] \in Inode
      /\ [content[file] EXCEPT !.mode = mode].chunks = content[file].chunks
      /\ [content[file] EXCEPT !.mode = mode].mode = mode
  BY <1>3 DEF Inode
<1>5. /\ content' \in [Inodes -> Inode] /\ content'[file].mode = mode
      /\ \A i \in Inodes : content'[i].chunks = content[i].chunks
  <2>1. content' = [content EXCEPT ![file] = [content[file] EXCEPT !.mode = mode]]
    BY <1>1
  <2> QED
    BY <1>3, <1>4, <2>1
<1>6. TypeOK' /\ OneAlone'
  <2>1. req' \in [Writers -> Requests] /\ OneAlone' /\ \A v \in Writers : SaveOK(v)'
    BY <1>2, StainedSaves
  <2> QED
    BY <1>1, <1>2, <1>5, <2>1 DEF IInv, TypeOK, Inode, names
<1>7. ASSUME NEW v \in Writers PROVE Draft(v)' /\ Carried(v)'
  <2>1. CASE pc[v] = "idle"
    BY <1>2, <2>1 DEF Draft, Carried
  <2>2. CASE pc[v] # "idle"
    <3>1. /\ ~req'[v].clean /\ req'[v].alone = req[v].alone /\ req'[v].inode = req[v].inode
          /\ req'[v].text = req[v].text /\ req'[v].at = req[v].at
      BY <1>2, <2>2, StainedSaves
    <3>2. pc[v] \in {"write", "rename"} => req[v].inode \in Inodes
      BY DEF IInv, TypeOK, SaveOK
    <3> QED
      BY <1>2, <1>5, <3>1, <3>2 DEF IInv, Draft, Carried, names
  <2> QED
    BY <2>1, <2>2
<1>8. NoneWanted' /\ WholeUnlessOverlapped' /\ ModeAsWanted'
  <2>1. \A t \in Texts : Whole(t)' = Whole(t)
    BY DEF Whole
  <2>2. content'[file].chunks = content[file].chunks
    BY <1>3, <1>5
  <2>3. WholeUnlessOverlapped'
    BY <1>2, <2>1, <2>2 DEF IInv, WholeUnlessOverlapped, names
  <2> QED
    BY <1>1, <1>2, <1>5, <2>3 DEF NoneWanted, ModeAsWanted, names
<1> QED
  BY <1>6, <1>7, <1>8 DEF IInv

(* Names go; what a writer has open stays. *)
LEMMA DeleteInv == ASSUME ConstantsOK, IInv, Delete PROVE IInv'
<1>1. req' = Stained(req) /\ UNCHANGED <<pc, overlap>>
  BY DEF Delete
<1>2. /\ req' \in [Writers -> Requests] /\ OneAlone'
      /\ \A v \in Writers : SaveOK(v)'
      /\ \A v \in Writers : pc[v] # "idle" =>
           /\ ~req'[v].clean /\ req'[v].alone = req[v].alone /\ req'[v].inode = req[v].inode
           /\ req'[v].text = req[v].text /\ req'[v].at = req[v].at
  BY <1>1, StainedSaves
<1>3. /\ content' \in [Inodes -> Inode] /\ file' \in {file, NoInode} /\ tmp' \in {tmp, NoInode}
      /\ dir' \in BOOLEAN /\ (dir' \/ (file' = NoInode /\ tmp' = NoInode))
      /\ \A v \in Writers : req[v].inode \in Inodes => content'[req[v].inode] = content[req[v].inode]
      /\ \/ /\ file' = file /\ UNCHANGED <<wanted, disturbed>>
            /\ file # NoInode => content'[file] = content[file]
         \/ file' = NoInode /\ wanted' = Default /\ disturbed' = FALSE
  <2>1. CASE /\ file' = NoInode /\ wanted' = Default /\ disturbed' = FALSE
             /\ content' = Live({tmp}, Writers) /\ UNCHANGED <<tmp, dir>> /\ file # NoInode
    BY <2>1, LiveKeeps DEF IInv, TypeOK
  <2>2. CASE /\ tmp # NoInode /\ tmp' = NoInode
             /\ content' = Live({file}, Writers) /\ UNCHANGED <<file, dir, wanted, disturbed>>
    BY <2>2, LiveKeeps DEF IInv, TypeOK
  <2>3. CASE /\ file = NoInode /\ tmp = NoInode /\ dir' = FALSE
             /\ UNCHANGED <<file, tmp, content, wanted, disturbed>>
    BY <2>3 DEF IInv, TypeOK, Inode
  <2> QED
    BY <2>1, <2>2, <2>3 DEF Delete
<1>4. TypeOK'
  BY <1>1, <1>2, <1>3 DEF IInv, TypeOK, Inode
<1>5. ASSUME NEW v \in Writers PROVE Draft(v)' /\ Carried(v)'
  <2>1. CASE pc[v] = "idle"
    BY <1>1, <2>1 DEF Draft, Carried
  <2>2. CASE pc[v] # "idle"
    <3>1. pc[v] \in {"write", "rename"} => req[v].inode \in Inodes
      BY DEF IInv, TypeOK, SaveOK
    <3> QED
      BY <1>1, <1>2, <1>3, <2>2, <3>1 DEF IInv, Draft, Carried, ConstantsOK
  <2> QED
    BY <2>1, <2>2
<1>6. NoneWanted' /\ WholeUnlessOverlapped' /\ ModeAsWanted'
  BY <1>1, <1>3 DEF IInv, NoneWanted, WholeUnlessOverlapped, ModeAsWanted
<1> QED
  BY <1>2, <1>4, <1>5, <1>6 DEF IInv

(* A new directory has no names. *)
LEMMA MkdirInv == ASSUME ConstantsOK, IInv, Mkdir PROVE IInv'
<1>1. dir' = TRUE /\ UNCHANGED <<file, tmp, content, pc, req, history>>
  BY DEF Mkdir
<1>2. TypeOK'
  BY <1>1 DEF IInv, TypeOK, SaveOK, history
<1>3. OneAlone' /\ NoneWanted' /\ WholeUnlessOverlapped' /\ ModeAsWanted'
  BY <1>1 DEF IInv, OneAlone, NoneWanted, WholeUnlessOverlapped, ModeAsWanted, Busy, history
<1>4. \A v \in Writers : Draft(v)' /\ Carried(v)'
  BY <1>1 DEF IInv, Draft, Carried, history
<1> QED
  BY <1>2, <1>3, <1>4 DEF IInv

(* IInv is an invariant: one step per action. *)
THEOREM Invariance == ASSUME ConstantsOK PROVE Spec => []IInv
<1>1. IInv /\ [Next]_fileVars => IInv'
  <2> SUFFICES ASSUME IInv, [Next]_fileVars PROVE IInv'
    OBVIOUS
  <2>1. CASE UNCHANGED fileVars
    <3>1. TypeOK' /\ OneAlone' /\ NoneWanted'
      BY <2>1 DEF IInv, TypeOK, SaveOK, OneAlone, NoneWanted, Busy, fileVars
    <3>2. \A v \in Writers : Draft(v)' /\ Carried(v)'
      BY <2>1 DEF IInv, Draft, Carried, fileVars
    <3>3. WholeUnlessOverlapped' /\ ModeAsWanted'
      BY <2>1 DEF IInv, WholeUnlessOverlapped, ModeAsWanted, fileVars
    <3> QED
      BY <3>1, <3>2, <3>3 DEF IInv
  <2>2. ASSUME NEW w \in Writers,
               Begin(w) \/ Stat(w) \/ Open(w) \/ Write(w) \/ Rename(w) \/ Fail(w)
        PROVE  IInv'
    BY <2>2, BeginInv, StatInv, OpenInv, WriteInv, RenameInv, FailInv
  <2> QED
    BY <2>1, <2>2, CrashInv, ChmodInv, DeleteInv, MkdirInv DEF Next
<1>2. Init => IInv
  BY InitInv
<1> QED
  BY <1>1, <1>2, PTL DEF Spec

(* The names stay two files, and writers keep to their inodes. *)
THEOREM TypeCorrect == ASSUME ConstantsOK PROVE Spec => []TypeOK
<1>1. Spec => []IInv
  BY Invariance
<1> QED
  BY <1>1, PTL DEF IInv

(* A file that saves have not overlapped on, or whose last save was alone, is one whole
   text, through full disks, failed copies, crashes, and deletions under the writer. *)
THEOREM SavesAreAtomic == ASSUME ConstantsOK PROVE Spec => []WholeUnlessOverlapped
<1>1. Spec => []IInv
  BY Invariance
<1> QED
  BY <1>1, PTL DEF IInv

(* A save that nothing else touches, and that finds no temporary file, keeps the mode. *)
THEOREM ModesAreKept == ASSUME ConstantsOK PROVE Spec => []ModeAsWanted
<1>1. Spec => []IInv
  BY Invariance
<1> QED
  BY <1>1, PTL DEF IInv
===============================================================================
