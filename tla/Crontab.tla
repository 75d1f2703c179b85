------------------------------- MODULE Crontab -------------------------------
(***************************************************************************)
(* One user's crontab (internal/cron/cron.go, handlers_cron.go), which     *)
(* every change reads with crontab -l and installs anew with crontab -.    *)
(*                                                                         *)
(* A text is its lines as strings.Split gives them: what follows the last  *)
(* newline comes last, and is empty where the text ends in one.            *)
(***************************************************************************)
EXTENDS Naturals, Sequences, SequencesExt, Functions, Lines

CONSTANTS
  Browsers,  \* pages, each with one request at a time
  Entries,   \* cron entries that can be added, never equal to a line below
  MaxTable   \* bound: lines of the text

Blank == ""   \* an empty line
Other == {Blank, "comment", "malformed"}

VARIABLES
  table,     \* the installed text; <<Blank>> is also a user without a crontab
  page,      \* what each browser last listed: line number -> entry
  pc, req,   \* requests between their read and their write
  wanted,    \* history: how many lines of each entry were asked for, until disturbed
  disturbed, \* history: requests overlapped, or one went by an old page
  original   \* history: the lines that are no entries, before the first request

cronVars == <<table, page, pc, req, wanted, disturbed, original>>

NoRequest == [kind |-> "none", entry |-> "", line |-> 0, read |-> <<>>]

(* Texts are made of whole lines, and a request in progress has read one. *)
TypeOK ==
  /\ table \in Seq(Entries \cup Other) /\ Len(table) \in 1..MaxTable
  /\ \A b \in Browsers :
       /\ pc[b] \in {"idle", "write"}
       /\ Range(page[b]) \subseteq Entries
       /\ pc[b] = "write" => req[b].read # <<>>
  /\ wanted \in [Entries -> Nat]

(* How many lines are this entry: nothing keeps one from being added again. *)
Copies(text, e) == Cardinality({i \in DOMAIN text : text[i] = e})

(* The lines that are no entries. *)
Others(text) == LinesAt(text, {i \in DOMAIN text : text[i] \in Other \ {Blank}})

Init ==
  /\ table \in {<<Blank>>, <<"comment", "malformed", Blank>>, <<"comment">>} \cup {<<e>> : e \in Entries}
  /\ original = Others(table)
  /\ page = [b \in Browsers |-> <<>>]
  /\ pc = [b \in Browsers |-> "idle"] /\ req = [b \in Browsers |-> NoRequest]
  /\ wanted = [e \in Entries |-> Copies(table, e)] /\ disturbed = FALSE

(* parseCrontab leaves out what is not an entry and keeps line numbers. *)
Listing(text) == Restrict(text, {i \in DOMAIN text : text[i] \in Entries})

List(b) ==
  /\ pc[b] = "idle"
  /\ page' = [page EXCEPT ![b] = Listing(table)]
  /\ UNCHANGED <<table, pc, req, wanted, disturbed, original>>

(* crontab -l *)
Begin(b, request) ==
  /\ pc[b] = "idle"
  /\ pc' = [pc EXCEPT ![b] = "write"]
  /\ req' = [req EXCEPT ![b] = request]
  /\ disturbed' = (disturbed \/ \E c \in Browsers : pc[c] # "idle")
  /\ UNCHANGED <<table, page, wanted, original>>

BeginAdd(b) ==
  /\ Len(table) < MaxTable
  /\ \E e \in Entries :
       Begin(b, [kind |-> "add", entry |-> e, line |-> 0, read |-> table])

(* A line that the page shows; "line not found" ends the request. *)
BeginDelete(b) ==
  \E n \in DOMAIN page[b] :
    /\ n <= Len(table)
    /\ Begin(b, [kind |-> "delete", entry |-> page[b][n], line |-> n, read |-> table])

(* Mutant: the entry is written behind whatever comes last. *)
AddedBehind(text, e) ==
  Front(text) \o <<IF Last(text) = Blank THEN e ELSE Last(text), Blank>>

(* Add gives the text a final newline first. *)
Added(text, e) == (IF Last(text) = Blank THEN Front(text) ELSE text) \o <<e, Blank>>

Deleted(text, n) == RemoveAt(text, n)

(* An old page may point at the empty rest of a text; one without a final
   newline is what some versions of crontab refuse. *)
Edited(r) == IF r.kind = "add" THEN Added(r.read, r.entry) ELSE Deleted(r.read, r.line)

Reply(b) == pc' = [pc EXCEPT ![b] = "idle"] /\ req' = [req EXCEPT ![b] = NoRequest]

(* crontab - *)
Write(b) ==
  /\ pc[b] = "write"
  /\ table' = IF Edited(req[b]) = <<>> THEN <<Blank>> ELSE Edited(req[b])
  /\ Len(table') <= MaxTable
  /\ disturbed' = (disturbed \/ (req[b].kind = "delete" /\ req[b].read[req[b].line] # req[b].entry))
  /\ wanted' = IF disturbed' THEN [e \in Entries |-> 0]
               ELSE [wanted EXCEPT ![req[b].entry] = IF req[b].kind = "add" THEN @ + 1 ELSE @ - 1]
  /\ Reply(b)
  /\ UNCHANGED <<page, original>>

(* crontab - refuses, or the process dies. *)
Fails(b) ==
  /\ pc[b] = "write"
  /\ Reply(b)
  /\ UNCHANGED <<table, page, wanted, disturbed, original>>

Next == \E b \in Browsers : List(b) \/ BeginAdd(b) \/ BeginDelete(b) \/ Write(b) \/ Fails(b)

(* "Add appends a new entry", and of a deletion "so just remove that line": of each
   entry the crontab has the lines that it had and those added, less those deleted,
   and every line that was there and is none, in order, unless two requests
   overlapped or a page named a line that is another's by now. *)
AsAsked ==
  ~disturbed =>
    /\ \A e \in Entries : Copies(table, e) = wanted[e]
    /\ Others(table) = original
==============================================================================
