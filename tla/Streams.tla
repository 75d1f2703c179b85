------------------------------- MODULE Streams -------------------------------
(***************************************************************************)
(* One stream to the browser: container logs and statistics, an image      *)
(* pull (internal/server/handlers_docker.go, internal/docker), the journal *)
(* of a service (handlers_services.go, internal/systemd/journal.go) and    *)
(* the system's metrics (handlers_system.go).                              *)
(*                                                                         *)
(* A handler copies from a source to a WebSocket, and a watcher goroutine  *)
(* reads the socket to notice that the browser has gone.  The handler asks *)
(* the watcher only between two items; metrics wait for both at once.      *)
(***************************************************************************)
EXTENDS Naturals

CONSTANTS
  Timeout,    \* http.Client.Timeout of the engine's client, in ticks
  MaxItems    \* bound: lines or documents waiting in the source

VARIABLES
  stream,     \* "logs", "stats", "pull", "journal" or "metrics"
  talkative,  \* the source goes on producing; a quiet one need not
  browser,    \* "open", "closed" (it said so), "dead" (it did not), "refused"
              \* (no WebSocket), or "dropped": the panel closed the connection
  source,     \* "flowing", "ended" by itself, "failed" (a pull that ended with an
              \* error event), or "cut" by the client's timeout
  items,      \* items the source has produced and the handler has not read
  age,        \* ticks since the engine was asked
  handler,    \* "decoding" the request, "opening" the source, "reading" it,
              \* "checking" on the watcher, "writing", "returned"
  watcher,    \* "reading" the socket, or "done"
  released,   \* the source's connection or process has been given back
  told        \* what a pull has told the browser: {"error": ...}, {"type": "done"}

vars == <<stream, talkative, browser, source, items, age,
          handler, watcher, released, told>>

Engine == {"logs", "stats", "pull"}
Kinds == Engine \cup {"journal", "metrics"}

(* Every part of a stream is in one of its states. *)
TypeOK ==
  /\ stream \in Kinds /\ talkative \in BOOLEAN
  /\ browser \in {"open", "closed", "dead", "refused", "dropped"}
  /\ source \in {"flowing", "ended", "failed", "cut"}
  /\ items \in 0..MaxItems /\ age \in 0..Timeout
  /\ handler \in {"decoding", "opening", "reading", "checking", "writing", "returned"}
  /\ watcher \in {"reading", "done"}
  /\ released \in BOOLEAN /\ told \subseteq {"error", "done"}

(* A pull reads its request's body before it answers the handshake; the others
   have answered it.  A pull has no watcher. *)
Init ==
  /\ stream \in Kinds
  /\ talkative \in IF stream = "metrics" THEN {TRUE} ELSE BOOLEAN
  /\ browser = "open" /\ source = "flowing" /\ items = 0 /\ age = 0
  /\ handler = IF stream = "pull" THEN "decoding" ELSE "opening"
  /\ watcher = "done" /\ released = FALSE /\ told = {}

Open == released = FALSE /\ handler \notin {"decoding", "opening"}

------------------------------------------------------------------------------
(* The browser, the source and the clock. *)

BrowserLeaves ==
  /\ browser = "open"
  /\ browser' \in {"closed", "dead"}
  /\ UNCHANGED <<stream, talkative, source, items, age, handler, watcher, released, told>>

(* A line, a statistic, a progress event, a tick of the metrics' ticker. *)
Produce ==
  /\ Open /\ source = "flowing" /\ items < MaxItems
  /\ items' = items + 1
  /\ UNCHANGED <<stream, talkative, browser, source, age, handler, watcher, released, told>>

(* The container or journalctl ends, the image has been pulled. *)
SourceEnds ==
  /\ Open /\ source = "flowing" /\ stream # "metrics"
  /\ source' = "ended"
  /\ UNCHANGED <<stream, talkative, browser, items, age, handler, watcher, released, told>>

(* A pull that fails has been answered 200 by then: its last event is the error. *)
PullFails ==
  /\ Open /\ source = "flowing" /\ stream = "pull" /\ items < MaxItems
  /\ source' = "failed" /\ items' = items + 1
  /\ UNCHANGED <<stream, talkative, browser, age, handler, watcher, released, told>>

Tick ==
  /\ Open /\ stream \in Engine /\ source = "flowing" /\ age < Timeout
  /\ age' = age + 1
  /\ UNCHANGED <<stream, talkative, browser, source, items, handler, watcher, released, told>>

(* Mutant: the engine's client has no timeout. *)
NeverCut == FALSE /\ UNCHANGED vars

(* The timeout covers the body of the answer; what was on its way is lost. *)
Cut ==
  /\ Open /\ stream \in Engine /\ source = "flowing" /\ age = Timeout
  /\ source' = "cut" /\ items' \in 0..items
  /\ UNCHANGED <<stream, talkative, browser, age, handler, watcher, released, told>>

------------------------------------------------------------------------------
(* The handler. *)

(* Every return runs the deferred rd.Close and conn.Close: journalctl is killed
   and waited for, the engine's answer is dropped. *)
Return ==
  /\ handler' = "returned" /\ released' = TRUE
  /\ browser' = IF browser = "open" THEN "dropped" ELSE browser

(* A message to a browser that is there. *)
Tell(what) == told' = IF stream = "pull" /\ browser = "open" THEN told \cup {what} ELSE told

(* json.Decode(r.Body): the handshake of a browser has no body. *)
Reject ==
  /\ handler = "decoding"
  /\ handler' = "returned" /\ released' = TRUE /\ browser' = "refused"
  /\ UNCHANGED <<stream, talkative, source, items, age, watcher, told>>

Upgrade ==
  /\ handler = "decoding"
  /\ handler' = "opening"
  /\ UNCHANGED <<stream, talkative, browser, source, items, age, watcher, released, told>>

OpenSource ==
  /\ handler = "opening"
  /\ handler' = "reading"
  /\ watcher' = IF stream = "pull" THEN "done" ELSE "reading"
  /\ UNCHANGED <<stream, talkative, browser, source, items, age, released, told>>

(* The engine or journalctl refuses: {"error": ...}, then the connection is closed. *)
OpenFails ==
  /\ handler = "opening" /\ stream # "metrics"
  /\ Tell("error")
  /\ Return /\ source' = "ended"
  /\ UNCHANGED <<stream, talkative, items, age, watcher>>

(* Scan or Decode returns an item; metrics and pulls are written at once. *)
Read ==
  /\ handler = "reading" /\ items > 0
  /\ items' = items - 1
  /\ handler' = IF stream \in {"pull", "metrics"} THEN "writing" ELSE "checking"
  /\ UNCHANGED <<stream, talkative, browser, source, age, watcher, released, told>>

(* A line longer than the scanner's buffer ends the loop. *)
LineTooLong ==
  /\ handler = "reading" /\ items > 0 /\ stream \in {"logs", "journal"}
  /\ Return
  /\ UNCHANGED <<stream, talkative, source, items, age, watcher, told>>

(* Mutant: any end of the engine's answer is taken for the end of the pull. *)
FinishAnyhow ==
  /\ handler = "reading" /\ items = 0 /\ source # "flowing"
  /\ Tell("done")
  /\ Return
  /\ UNCHANGED <<stream, talkative, source, items, age, watcher>>

(* The source is over.  A pull that got to EOF, not to the timeout, says so: also one
   that failed, whose error event went before. *)
Finish ==
  /\ handler = "reading" /\ items = 0 /\ source # "flowing"
  /\ IF source = "cut" THEN UNCHANGED told ELSE Tell("done")
  /\ Return
  /\ UNCHANGED <<stream, talkative, source, items, age, watcher>>

(* select: case <-done. *)
Leave ==
  /\ watcher = "done"
  /\ handler = "checking" \/ (handler = "reading" /\ stream = "metrics")
  /\ Return
  /\ UNCHANGED <<stream, talkative, source, items, age, watcher, told>>

(* select: default. *)
Carry ==
  /\ handler = "checking" /\ watcher # "done"
  /\ handler' = "writing"
  /\ UNCHANGED <<stream, talkative, browser, source, items, age, watcher, released, told>>

(* The item is the error event of a pull that failed: it is the last one. *)
IsError == source = "failed" /\ items = 0

(* To a browser that has gone a write may still go into a buffer, until the
   library has read the farewell. *)
Write ==
  /\ handler = "writing"
  /\ browser # "closed" \/ watcher = "reading" \/ stream = "pull"
  /\ handler' = "reading"
  /\ IF IsError THEN Tell("error") ELSE UNCHANGED told
  /\ UNCHANGED <<stream, talkative, browser, source, items, age, watcher, released>>

(* The connection is broken; metrics give a browser that does not read five seconds. *)
WriteFails ==
  /\ handler = "writing" /\ (browser # "open" \/ stream = "metrics")
  /\ Return
  /\ UNCHANGED <<stream, talkative, source, items, age, watcher, told>>

(* NextReader fails: a farewell, a keep-alive unanswered, or conn.Close. *)
WatcherEnds ==
  /\ watcher = "reading" /\ browser # "open"
  /\ watcher' = "done"
  /\ UNCHANGED <<stream, talkative, browser, source, items, age, handler, released, told>>

------------------------------------------------------------------------------
Handler ==
  \/ Reject \/ Upgrade \/ OpenSource \/ OpenFails \/ Read \/ LineTooLong \/ Finish
  \/ Leave \/ Carry \/ Write \/ WriteFails

Next ==
  \/ BrowserLeaves \/ Produce \/ SourceEnds \/ PullFails \/ Tick \/ Cut \/ WatcherEnds
  \/ Handler

(* Goroutines are scheduled, time passes, a talkative source goes on, and writes
   to a dead browser fill the socket's buffer until one fails. *)
Fairness ==
  /\ WF_vars(Handler) /\ WF_vars(WatcherEnds) /\ WF_vars(Tick) /\ WF_vars(Cut)
  /\ WF_vars(talkative /\ Produce)
  /\ SF_vars(browser # "open" /\ WriteFails)

Spec == Init /\ [][Next]_vars /\ Fairness

------------------------------------------------------------------------------
(* Properties. *)

(* A browser that is told "done" of a pull has had all the engine sent of it: never a
   pull that the client's timeout has cut, and one that failed only after its error,
   for the handler says "done" of that one as well. *)
DoneIsWhole ==
  "done" \in told => /\ items = 0
                    /\ \/ source = "ended"
                       \/ source = "failed" /\ "error" \in told

(* Once the browser has gone both goroutines end and the source is given back,
   for every stream but the journal of a quiet service: its read is never
   completed.  Quiet containers are left behind by the timeout alone. *)
StreamEnds ==
  browser # "open" /\ (stream = "journal" => talkative)
    ~> (handler = "returned" /\ released /\ watcher = "done")

(* "WebSocket / SSE handlers may stream for minutes" (internal/server/server.go):
   statistics go on until the browser leaves or the container does. *)
MayStreamForMinutes == stream = "stats" /\ browser = "dropped" => source = "ended"
==============================================================================
