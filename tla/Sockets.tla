------------------------------- MODULE Sockets -------------------------------
(* What a browser may hold open: a terminal, or beside it one of Streams.  They
   share no state, and a behaviour is of one or of the other. *)
EXTENDS Terminal

CONSTANTS Timeout, MaxItems   \* of Streams

VARIABLES stream, talkative, browser, source, items, age, handler, watcher, released, told

streamVars == <<stream, talkative, browser, source, items, age, handler, watcher, released, told>>

Str == INSTANCE Streams

NoTerminal ==
  /\ kind = "terminal" /\ client = "open" /\ shell = "running" /\ output = 0
  /\ main = "reading" /\ pump = "writing" /\ ping = "writing"
  /\ idle = 0 /\ audit = {} /\ process = "crashed"

NoStream ==
  /\ stream = "metrics" /\ talkative = FALSE /\ browser = "dropped" /\ source = "ended"
  /\ items = 0 /\ age = 0 /\ handler = "returned" /\ watcher = "done"
  /\ released = TRUE /\ told = {}

SideInit == (Init /\ NoStream) \/ (NoTerminal /\ Str!Init)

SideNext == (Next /\ UNCHANGED streamVars) \/ (Str!Next /\ UNCHANGED vars)

(* Terminals whose shells go on printing until they exit, and streams of every kind.
   Writes to a browser that is dead fill the socket's buffer, and then one fails. *)
SideSpec ==
  /\ SideInit /\ [][SideNext]_<<vars, streamVars>>
  /\ Fairness /\ WF_vars(ShellPrints) /\ SF_vars(client = "dead" /\ PumpFails)
  /\ Str!Fairness

(* A shell at its prompt. *)
SilentSpec == Init /\ NoStream /\ [][Next /\ UNCHANGED streamVars]_<<vars, streamVars>> /\ Fairness

(* A pull is said to be done when all of it has been passed on (handleDockerImagePull). *)
DoneIsWhole == Str!DoneIsWhole

(* A browser that has gone leaves nothing of its stream behind. *)
StreamEnds == Str!StreamEnds

(* Statistics go on while the container does (internal/server/server.go:72). *)
MayStreamForMinutes == Str!MayStreamForMinutes
==============================================================================
