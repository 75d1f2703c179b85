---------------------------- MODULE AuthorizedKeys ----------------------------
(***************************************************************************)
(* One Linux user's ~/.ssh/authorized_keys (internal/users/linux.go,       *)
(* handlers_users.go): AddKey appends to it, DeleteKey reads it and writes *)
(* it back.                                                                *)
(*                                                                         *)
(* A line is the sequence of keys written on it, of which only the first   *)
(* is a key and the others its comment; <<>> is an empty line.  The text   *)
(* is its lines, the last of them what follows the last newline.           *)
(***************************************************************************)
EXTENDS Naturals, Sequences, SequencesExt, Lines

CONSTANTS
  Handlers,   \* goroutines serving requests
  Keys,       \* public keys, told apart by fingerprint
  MaxLines    \* bound: lines of the text

VARIABLES
  keysFile,   \* the text; <<<<>>>> is also a missing file
  pc, req,    \* requests in progress
  wanted,     \* history: the keys that were asked for
  joined,     \* history: a key was appended to a line that had not ended
  disturbed   \* history: requests overlapped, or one was cut while it wrote

keyVars == <<keysFile, pc, req, wanted, joined, disturbed>>

NoRequest == [kind |-> "none", key |-> "none", kept |-> <<>>]

(* A line is a comment, or keys and what an overlap left of one. *)
TypeOK ==
  /\ keysFile \in Seq(Seq(Keys \cup {"comment", "scrap"})) /\ Len(keysFile) \in 1..MaxLines
  /\ \A h \in Handlers : pc[h] \in {"idle", "append", "truncate", "write"}
  /\ wanted \subseteq Keys

(* Files that people have edited do not always end in a newline. *)
Init ==
  /\ \/ /\ keysFile \in {<<<<>>>>, <<<<"comment">>, <<>>>>}
        /\ wanted = {}
     \/ \E k \in Keys : keysFile \in {<<<<k>>, <<>>>>, <<<<k>>>>} /\ wanted = {k}
  /\ pc = [h \in Handlers |-> "idle"] /\ req = [h \in Handlers |-> NoRequest]
  /\ joined = FALSE /\ disturbed = FALSE

(* parseKeyLine: type, key, and whatever follows is the comment. *)
KeyOf(line) == IF line # <<>> /\ Head(line) \in Keys THEN {Head(line)} ELSE {}
ListKeys(text) == UNION {KeyOf(text[i]) : i \in DOMAIN text}

Become(h, step, record) == pc' = [pc EXCEPT ![h] = step] /\ req' = [req EXCEPT ![h] = record]
Reply(h) == Become(h, "idle", NoRequest)

Overlaps == disturbed' = (disturbed \/ \E h \in Handlers : pc[h] # "idle")

(* Mutant: a key that is there is added again. *)
BeginAddAgain(h) ==
  /\ pc[h] = "idle" /\ Len(keysFile) < MaxLines
  /\ \E k \in Keys : Become(h, "append", [kind |-> "add", key |-> k, kept |-> <<>>])
  /\ Overlaps
  /\ UNCHANGED <<keysFile, wanted, joined>>

(* AddKey, up to its listing: a key that is there is the answer. *)
BeginAdd(h) ==
  /\ pc[h] = "idle" /\ Len(keysFile) < MaxLines
  /\ \E k \in Keys :
       IF k \in ListKeys(keysFile)
       THEN Reply(h)
       ELSE Become(h, "append", [kind |-> "add", key |-> k, kept |-> <<>>])
  /\ Overlaps
  /\ UNCHANGED <<keysFile, wanted, joined>>

(* O_APPEND: the line goes behind the last byte there is. *)
AppendLine(h) ==
  /\ pc[h] = "append" /\ Len(keysFile) < MaxLines
  /\ keysFile' = Front(keysFile) \o <<Last(keysFile) \o <<req[h].key>>, <<>>>>
  /\ joined' = (joined \/ Last(keysFile) # <<>>)
  /\ wanted' = wanted \cup {req[h].key}
  /\ Reply(h)
  /\ UNCHANGED disturbed

Kept(text, k) ==
  LET kept == LinesAt(text, {i \in DOMAIN text : k \notin KeyOf(text[i])})
  IN IF kept = <<>> THEN <<<<>>>> ELSE kept

(* DeleteKey reads; "key not found" ends the request. *)
BeginDelete(h) ==
  /\ pc[h] = "idle"
  /\ \E k \in ListKeys(keysFile) :
       Become(h, "truncate", [kind |-> "delete", key |-> k, kept |-> Kept(keysFile, k)])
  /\ Overlaps
  /\ UNCHANGED <<keysFile, wanted, joined>>

(* os.WriteFile empties the file, then writes from its start. *)
Truncate(h) ==
  /\ pc[h] = "truncate"
  /\ keysFile' = <<<<>>>>
  /\ Become(h, "write", req[h])
  /\ UNCHANGED <<wanted, joined, disturbed>>

(* What others wrote since, where it was longer, sticks out behind. *)
Write(h) ==
  /\ pc[h] = "write"
  /\ \/ keysFile' = req[h].kept
     \/ /\ keysFile # <<<<>>>> /\ Len(req[h].kept) < MaxLines
        /\ keysFile' = Front(req[h].kept) \o <<Last(req[h].kept) \o <<"scrap">>, <<>>>>
  /\ wanted' = wanted \ {req[h].key}
  /\ Reply(h)
  /\ UNCHANGED <<joined, disturbed>>

(* The disk is full or the process dies. *)
Fails(h) ==
  /\ pc[h] # "idle"
  /\ disturbed' = (disturbed \/ pc[h] = "write")
  /\ Reply(h)
  /\ UNCHANGED <<keysFile, wanted, joined>>

Next ==
  \E h \in Handlers :
    BeginAdd(h) \/ AppendLine(h) \/ BeginDelete(h) \/ Truncate(h) \/ Write(h) \/ Fails(h)

(* The user can log in with the keys that were added and not deleted and with no
   other, each on one line, unless the file did not end in a newline when a key
   was appended, requests overlapped, or a rewrite was cut. *)
AuthorizedAsAsked ==
  ~disturbed /\ ~joined /\ (\A h \in Handlers : pc[h] # "write") =>
    /\ ListKeys(keysFile) = wanted
    /\ \A i, j \in DOMAIN keysFile : KeyOf(keysFile[i]) \cap KeyOf(keysFile[j]) # {} => i = j
==============================================================================
