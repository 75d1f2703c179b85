------------------------------- MODULE Terminal -------------------------------
(***************************************************************************)
(* One browser terminal: handleTerminalWS and the pty session behind it    *)
(* (internal/server/handlers_terminal.go, internal/pty/pty.go), and its    *)
(* twin for containers, handleDockerExecWS.                                *)
(*                                                                         *)
(* Three goroutines share the WebSocket and the pty: the handler itself    *)
(* copies from the client to the shell, a pump copies back, and, for a     *)
(* terminal, a third one pings.  Every blocking call is an action of its   *)
(* own; what they carry is left out.                                       *)
(***************************************************************************)
EXTENDS Naturals

CONSTANTS
  IdleLimit,   \* security.pty_idle_timeout_min, in ticks
  MaxOutput    \* bound: output waiting in the pty

ASSUME BoundsAssumption == IdleLimit \in Nat /\ MaxOutput \in Nat \ {0}

VARIABLES
  kind,     \* "terminal", or "exec": a shell in a container, without pings or deadline
  client,   \* the browser: "open", "closed" (it said so) or "dead" (it did not)
  shell,    \* the process behind the pty; "closed": killed, pty closed, waited for
  output,   \* reads' worth of output waiting in the pty
  main,     \* the handler: "reading" the socket, "typing" into the pty,
            \* "waiting" for the pump, or "returned"
  pump,     \* pty to socket: "reading" the pty, "writing", "closing", or "done"
  ping,     \* the ping goroutine: "waiting", "writing" or "done"
  idle,     \* ticks since the read deadline was last set
  audit,    \* audited events
  process   \* webtermin itself: "up" or "crashed"

vars == <<kind, client, shell, output, main, pump, ping, idle, audit, process>>

(* Each part of the terminal is in one of its states. *)
TypeOK ==
  /\ kind \in {"terminal", "exec"}
  /\ client \in {"open", "closed", "dead"}
  /\ shell \in {"running", "exited", "closed"}
  /\ output \in 0..MaxOutput
  /\ main \in {"reading", "typing", "waiting", "returned"}
  /\ pump \in {"reading", "writing", "closing", "done"}
  /\ ping \in {"waiting", "writing", "done"}
  /\ idle \in 0..IdleLimit
  /\ audit \subseteq {"open", "close"}
  /\ process \in {"up", "crashed"}

(* Mutant: the container shell pings as well. *)
PingingInit ==
  /\ kind \in {"terminal", "exec"}
  /\ client = "open" /\ shell = "running" /\ output = 0
  /\ main = "reading" /\ pump = "reading" /\ ping = "waiting"
  /\ idle = 0 /\ audit = {"open"} /\ process = "up"

(* The shell has started, the connection is upgraded, the opening is audited. *)
Init ==
  /\ kind \in {"terminal", "exec"}
  /\ client = "open" /\ shell = "running" /\ output = 0
  /\ main = "reading" /\ pump = "reading"
  /\ ping = IF kind = "terminal" THEN "waiting" ELSE "done"
  /\ idle = 0 /\ audit = {"open"} /\ process = "up"

------------------------------------------------------------------------------
(* The browser, the shell and the clock. *)

ClientLeaves ==
  /\ process = "up" /\ client = "open"
  /\ client' \in {"closed", "dead"}
  /\ UNCHANGED <<kind, shell, output, main, pump, ping, idle, audit, process>>

ShellPrints ==
  /\ process = "up" /\ shell = "running" /\ output < MaxOutput
  /\ output' = output + 1
  /\ UNCHANGED <<kind, client, shell, main, pump, ping, idle, audit, process>>

ShellExits ==
  /\ process = "up" /\ shell = "running"
  /\ shell' = "exited"
  /\ UNCHANGED <<kind, client, output, main, pump, ping, idle, audit, process>>

Tick ==
  /\ process = "up" /\ kind = "terminal" /\ idle < IdleLimit
  /\ idle' = idle + 1
  /\ UNCHANGED <<kind, client, shell, output, main, pump, ping, audit, process>>

------------------------------------------------------------------------------
(* The handler: socket to pty. *)

(* Browsers answer pings by themselves; the answer sets the deadline. *)
Pong ==
  /\ process = "up" /\ kind = "terminal"
  /\ main = "reading" /\ client = "open"
  /\ idle' = 0
  /\ UNCHANGED <<kind, client, shell, output, main, pump, ping, audit, process>>

(* A message sets the deadline and is written to the pty. *)
Message ==
  /\ process = "up" /\ main = "reading" /\ client = "open"
  /\ idle' = 0 /\ main' = "typing"
  /\ UNCHANGED <<kind, client, shell, output, pump, ping, audit, process>>

(* The shell has taken what was typed, or the write has failed: ignored. *)
Typed ==
  /\ process = "up" /\ main = "typing"
  /\ main' = "reading"
  /\ UNCHANGED <<kind, client, shell, output, pump, ping, idle, audit, process>>

(* The client has gone, which TCP finds out too, or the deadline passes. *)
ReadFails ==
  /\ process = "up" /\ main = "reading"
  /\ client # "open" \/ (kind = "terminal" /\ idle = IdleLimit)
  /\ main' = "waiting"
  /\ UNCHANGED <<kind, client, shell, output, pump, ping, idle, audit, process>>

(* Mutant: the handler does not wait for the pump. *)
ReturnAtOnce ==
  /\ process = "up" /\ main = "waiting"
  /\ main' = "returned" /\ shell' = "closed" /\ ping' = "done"
  /\ audit' = audit \cup {"close"}
  /\ client' = IF client = "open" THEN "closed" ELSE client
  /\ UNCHANGED <<kind, output, pump, idle, process>>

(* <-ptyDone, the audit row, and the deferred calls: stop the pings, kill the
   shell and wait for it, close the socket. *)
Return ==
  /\ process = "up" /\ main = "waiting" /\ pump = "done"
  /\ main' = "returned" /\ shell' = "closed" /\ ping' = "done"
  /\ audit' = audit \cup {"close"}
  /\ client' = IF client = "open" THEN "closed" ELSE client
  /\ UNCHANGED <<kind, output, pump, idle, process>>

------------------------------------------------------------------------------
(* The writers of the socket: the pump and the pings. *)

(* A second write during a first panics when the library notices. *)
MayPanic(other) == process' = process \/ (other /\ process' = "crashed")

(* Once the handler has read the browser's farewell the library refuses to
   write.  Before that a write may be lost in a buffer. *)
WriteTaken == client # "closed" \/ main # "waiting"

(* Mutant: the end of the shell is not noticed. *)
PumpReadsOnly ==
  /\ process = "up" /\ pump = "reading"
  /\ output > 0 /\ output' = output - 1 /\ pump' = "writing"
  /\ MayPanic(ping = "writing")
  /\ UNCHANGED <<kind, client, shell, main, ping, idle, audit>>

(* Mutant: the pump never blocks on a pty that has nothing to say. *)
PumpReadsBlindly ==
  /\ process = "up" /\ pump = "reading"
  /\ output' = output - 1 /\ pump' = "writing"
  /\ MayPanic(ping = "writing")
  /\ UNCHANGED <<kind, client, shell, main, ping, idle, audit>>

(* Output is read and written to the socket; at the end of the shell's output
   {"type": "closed"} is. *)
PumpReads ==
  /\ process = "up" /\ pump = "reading"
  /\ \/ output > 0 /\ output' = output - 1 /\ pump' = "writing"
     \/ output = 0 /\ shell # "running" /\ pump' = "closing" /\ UNCHANGED output
  /\ MayPanic(ping = "writing")
  /\ UNCHANGED <<kind, client, shell, main, ping, idle, audit>>

PumpWrites ==
  /\ process = "up" /\ pump = "writing" /\ WriteTaken
  /\ pump' = "reading"
  /\ UNCHANGED <<kind, client, shell, output, main, ping, idle, audit, process>>

(* The write deadline passes, or the connection is broken. *)
PumpFails ==
  /\ process = "up" /\ pump = "writing"
  /\ pump' = "done"
  /\ UNCHANGED <<kind, client, shell, output, main, ping, idle, audit, process>>

(* Whether {"type": "closed"} arrives makes no difference. *)
PumpCloses ==
  /\ process = "up" /\ pump = "closing"
  /\ pump' = "done"
  /\ UNCHANGED <<kind, client, shell, output, main, ping, idle, audit, process>>

PingStarts ==
  /\ process = "up" /\ ping = "waiting"
  /\ ping' = "writing" /\ MayPanic(pump \in {"writing", "closing"})
  /\ UNCHANGED <<kind, client, shell, output, main, pump, idle, audit>>

PingEnds ==
  /\ process = "up" /\ ping = "writing"
  /\ \/ WriteTaken /\ ping' = "waiting"
     \/ ping' = "done"
  /\ UNCHANGED <<kind, client, shell, output, main, pump, idle, audit, process>>

------------------------------------------------------------------------------
Pump == PumpReads \/ PumpWrites \/ PumpFails \/ PumpCloses

Next ==
  \/ ClientLeaves \/ ShellPrints \/ ShellExits \/ Tick
  \/ Pong \/ Message \/ Typed \/ ReadFails \/ Return
  \/ PumpReads \/ PumpWrites \/ PumpFails \/ PumpCloses
  \/ PingStarts \/ PingEnds

(* Goroutines are scheduled, time passes, and what is typed is taken. *)
Fairness ==
  /\ WF_vars(Tick) /\ WF_vars(Typed) /\ WF_vars(ReadFails) /\ WF_vars(Return)
  /\ WF_vars(Pump) /\ WF_vars(PingStarts) /\ WF_vars(PingEnds)

Spec == Init /\ [][Next]_vars /\ Fairness

------------------------------------------------------------------------------
(* Properties. *)

(* The pty is closed, and its descriptor given back, only when the pump that
   reads it has stopped: the handler waits before its deferred Close runs. *)
NoReadAfterClose == shell = "closed" => pump = "done"

(* The pump and the pings share a socket that takes one writer: the process
   crashes only in a terminal, with both of them in a write.  The container
   shell has no pings, and is safe. *)
PanicsOnlyWithPings ==
  process = "crashed" => kind = "terminal" /\ ping = "writing" /\ pump # "reading"

(* Once the browser has gone the shell is killed and waited for. *)
ShellReaped == client # "open" ~> (shell = "closed" \/ process = "crashed")

(* When the shell ends, the pump that carries its output ends as well. *)
PumpEnds == shell = "exited" ~> (pump = "done" \/ process = "crashed")

(* "terminal.*: open / close": a browser that has gone is audited as a close. *)
CloseAudited == client # "open" ~> ("close" \in audit \/ process = "crashed")
==============================================================================
