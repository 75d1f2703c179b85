----------------------------- MODULE TerminalProofs -----------------------------
(* What holds of every terminal, whatever its idle limit and its output, and of every
   stream, whatever its timeout. *)
EXTENDS Sockets, TLAPS

(* The initial state is of the declared type. *)
LEMMA InitType == Init => TypeOK
  BY BoundsAssumption DEF Init, TypeOK

(* Every step keeps every part of the terminal in one of its states. *)
LEMMA NextType == TypeOK /\ [Next]_vars => TypeOK'
<1> SUFFICES ASSUME TypeOK, [Next]_vars PROVE TypeOK'
  OBVIOUS
<1> USE BoundsAssumption DEF TypeOK
<1>1. CASE ClientLeaves \/ ShellExits
  BY <1>1 DEF ClientLeaves, ShellExits
<1>2. CASE Message \/ Typed
  <2>1. idle' \in 0..IdleLimit
    BY <1>2 DEF Message, Typed
  <2> QED
    BY <1>2, <2>1 DEF Message, Typed
<1>3. CASE ShellPrints
  <2>1. output' \in 0..MaxOutput
    BY <1>3 DEF ShellPrints
  <2> QED
    BY <1>3, <2>1 DEF ShellPrints
<1>4. CASE Tick
  <2>1. idle' \in 0..IdleLimit
    BY <1>4 DEF Tick
  <2> QED
    BY <1>4, <2>1 DEF Tick
<1>5. CASE Pong
  BY <1>5 DEF Pong
<1>6. CASE ReadFails \/ Return
  <2>1. CASE ReadFails
    BY <2>1 DEF ReadFails
  <2>2. CASE Return
    <3>1. audit' \subseteq {"open", "close"}
      BY <2>2 DEF Return
    <3>2. client' \in {"open", "closed", "dead"}
      BY <2>2 DEF Return
    <3> QED
      BY <2>2, <3>1, <3>2 DEF Return
  <2> QED
    BY <1>6, <2>1, <2>2
<1>7. CASE PumpReads
  BY <1>7 DEF PumpReads, MayPanic
<1>8. CASE PumpWrites \/ PumpFails \/ PumpCloses
  BY <1>8 DEF PumpWrites, PumpFails, PumpCloses
<1>9. CASE PingStarts
  BY <1>9 DEF PingStarts, MayPanic
<1>10. CASE PingEnds
  BY <1>10 DEF PingEnds
<1>11. CASE UNCHANGED vars
  BY <1>11 DEF vars
<1> QED
  BY <1>1, <1>2, <1>3, <1>4, <1>5, <1>6, <1>7, <1>8, <1>9, <1>10, <1>11 DEF Next

(* handleTerminalWS and handleDockerExecWS keep every part of the terminal in
   one of its states. *)
THEOREM TypeCorrect == Spec => []TypeOK
  BY InitType, NextType, PTL DEF Spec

(* What keeps the pump off a closed pty: a pump that has stopped stays stopped,
   and only Return, which waits for it, closes the pty. *)
LEMMA NextClose == NoReadAfterClose /\ [Next]_vars => NoReadAfterClose'
<1> SUFFICES ASSUME NoReadAfterClose, [Next]_vars PROVE NoReadAfterClose'
  OBVIOUS
<1> USE DEF NoReadAfterClose
<1>1. CASE Return
  BY <1>1 DEF Return
<1>2. CASE ClientLeaves \/ ShellPrints \/ ShellExits \/ Tick
  BY <1>2 DEF ClientLeaves, ShellPrints, ShellExits, Tick
<1>3. CASE Pong \/ Message \/ Typed \/ ReadFails
  BY <1>3 DEF Pong, Message, Typed, ReadFails
<1>4. CASE PumpReads \/ PumpWrites \/ PumpFails \/ PumpCloses
  BY <1>4 DEF PumpReads, PumpWrites, PumpFails, PumpCloses
<1>5. CASE PingStarts \/ PingEnds
  BY <1>5 DEF PingStarts, PingEnds
<1>6. CASE UNCHANGED vars
  BY <1>6 DEF vars
<1> QED
  BY <1>1, <1>2, <1>3, <1>4, <1>5, <1>6 DEF Next

(* The pty is never closed, nor its descriptor given back, under the pump. *)
THEOREM CloseIsSafe == Spec => []NoReadAfterClose
<1>1. Init => NoReadAfterClose
  BY DEF Init, NoReadAfterClose
<1> QED
  BY <1>1, NextClose, PTL DEF Spec

(* A container shell has no ping goroutine, and the process has crashed only in a
   write of both of a terminal's writers. *)
PanicsInv ==
  /\ kind = "exec" => ping = "done"
  /\ PanicsOnlyWithPings

(* Pings begin only in a terminal, and a write that begins during another is the only
   thing that panics; after it nothing moves. *)
LEMMA NextPanics == TypeOK /\ PanicsInv /\ [Next]_vars => PanicsInv'
<1> SUFFICES ASSUME TypeOK, PanicsInv, [Next]_vars PROVE PanicsInv'
  OBVIOUS
<1> USE DEF PanicsInv, PanicsOnlyWithPings
<1>1. CASE UNCHANGED vars
  BY <1>1 DEF vars
<1>2. CASE PumpReads
  BY <1>2 DEF TypeOK, PumpReads, MayPanic
<1>3. CASE PingStarts
  BY <1>3 DEF TypeOK, PingStarts, MayPanic
<1>4. CASE PingEnds \/ Return
  BY <1>4 DEF PingEnds, Return
<1>5. CASE ClientLeaves \/ ShellPrints \/ ShellExits \/ Tick
  BY <1>5 DEF ClientLeaves, ShellPrints, ShellExits, Tick
<1>6. CASE Pong \/ Message \/ Typed \/ ReadFails
  BY <1>6 DEF Pong, Message, Typed, ReadFails
<1>7. CASE PumpWrites \/ PumpFails \/ PumpCloses
  BY <1>7 DEF PumpWrites, PumpFails, PumpCloses
<1> QED
  BY <1>1, <1>2, <1>3, <1>4, <1>5, <1>6, <1>7 DEF Next

(* The panel crashes on a socket only in a terminal with the pump and the pings both in
   a write: handleDockerExecWS, which has no pings, never crashes it. *)
THEOREM ExecNeverPanics == Spec => []PanicsOnlyWithPings
<1>1. Init => PanicsInv
  BY DEF Init, PanicsInv, PanicsOnlyWithPings
<1>2. PanicsInv => PanicsOnlyWithPings
  BY DEF PanicsInv
<1> QED
  BY <1>1, <1>2, InitType, NextType, NextPanics, PTL DEF Spec

-------------------------------------------------------------------------------
(* Streams: what a pull has told the browser.  A pull that failed has its error event
   among the items until that has been written; and "done" is the handler's last word. *)
DoneInv ==
  /\ source \in {"flowing", "ended", "failed", "cut"} /\ items \in Nat
  /\ stream = "pull" => handler \in {"decoding", "opening", "reading", "writing", "returned"}
  /\ source = "failed" => stream = "pull" /\ handler \notin {"decoding", "opening"}
  /\ (source = "failed" /\ items = 0 /\ handler = "reading" /\ browser = "open") => "error" \in told
  /\ "done" \in told => handler = "returned" /\ released = TRUE
  /\ Str!DoneIsWhole

(* Every step of a stream keeps it. *)
LEMMA NextDone == DoneInv /\ [Str!Next]_streamVars => DoneInv'
<1> SUFFICES ASSUME DoneInv, [Str!Next]_streamVars PROVE DoneInv'
  OBVIOUS
<1> USE DEF DoneInv, Str!DoneIsWhole
<1>1. CASE UNCHANGED streamVars
  BY <1>1 DEF streamVars
<1>2. CASE Str!Finish
  BY <1>2 DEF Str!Finish, Str!Return, Str!Tell
<1>3. CASE Str!OpenFails
  BY <1>3 DEF Str!OpenFails, Str!Return, Str!Tell
<1>4. CASE Str!Cut \/ Str!SourceEnds \/ Str!Produce
  BY <1>4 DEF Str!Cut, Str!SourceEnds, Str!Produce, Str!Open
<1>10. CASE Str!PullFails
  <2>1. "done" \notin told /\ items' \in Nat /\ items' # 0
    BY <1>10 DEF Str!PullFails, Str!Open
  <2>2. "done" \notin told' /\ source' = "failed" /\ stream' = "pull"
    BY <1>10, <2>1 DEF Str!PullFails
  <2>3. handler' \in {"reading", "writing", "returned"} /\ handler' = handler
    BY <1>10 DEF Str!PullFails, Str!Open
  <2> QED
    BY <2>1, <2>2, <2>3
<1>5. CASE Str!Read
  BY <1>5 DEF Str!Read
<1>6. CASE Str!Write
  BY <1>6 DEF Str!Write, Str!IsError, Str!Tell
<1>7. CASE Str!Reject \/ Str!Upgrade \/ Str!OpenSource
  BY <1>7 DEF Str!Reject, Str!Upgrade, Str!OpenSource
<1>8. CASE Str!LineTooLong \/ Str!Leave \/ Str!Carry \/ Str!WriteFails
  BY <1>8 DEF Str!LineTooLong, Str!Leave, Str!Carry, Str!WriteFails, Str!Return
<1>9. CASE Str!BrowserLeaves \/ Str!Tick \/ Str!WatcherEnds
  BY <1>9 DEF Str!BrowserLeaves, Str!Tick, Str!WatcherEnds
<1> QED
  BY <1>1, <1>2, <1>3, <1>4, <1>5, <1>6, <1>7, <1>8, <1>9, <1>10 DEF Str!Next, Str!Handler

(* handleDockerImagePull: a browser that is told "done" has had everything the engine
   sent of its pull, which the client's timeout has not cut; and the error first, if the
   pull failed. *)
THEOREM DoneIsDone == SideSpec => []DoneIsWhole
<1>1. SideInit => DoneInv
  <2>1. NoStream => DoneInv
    BY DEF NoStream, DoneInv, Str!DoneIsWhole
  <2>2. Str!Init => DoneInv
    BY DEF Str!Init, DoneInv, Str!DoneIsWhole
  <2> QED
    BY <2>1, <2>2 DEF SideInit
<1>2. DoneInv /\ [SideNext]_<<vars, streamVars>> => DoneInv'
  <2>1. CASE UNCHANGED streamVars
    BY <2>1, NextDone
  <2> QED
    BY <2>1, NextDone DEF SideNext
<1>3. DoneInv => DoneIsWhole
  BY DEF DoneInv, DoneIsWhole
<1> QED
  BY <1>1, <1>2, <1>3, PTL DEF SideSpec

(* Terminals beside streams, as the runs have them: where there is none, nothing of one
   changes, and the three invariants hold of each. *)
THEOREM BesideStreams ==
  SideSpec => [](TypeOK /\ NoReadAfterClose /\ PanicsOnlyWithPings)
<1>1. SideInit => TypeOK /\ NoReadAfterClose /\ PanicsInv
  <2>1. Init => TypeOK /\ NoReadAfterClose /\ PanicsInv
    BY InitType DEF Init, NoReadAfterClose, PanicsInv, PanicsOnlyWithPings
  <2>2. NoTerminal => TypeOK /\ NoReadAfterClose /\ PanicsInv
    BY BoundsAssumption DEF NoTerminal, TypeOK, NoReadAfterClose, PanicsInv, PanicsOnlyWithPings
  <2> QED
    BY <2>1, <2>2 DEF SideInit
<1>2. [SideNext]_<<vars, streamVars>> => [Next]_vars
  BY DEF SideNext
<1>3. PanicsInv => PanicsOnlyWithPings
  BY DEF PanicsInv
<1> QED
  BY <1>1, <1>2, <1>3, NextType, NextClose, NextPanics, PTL DEF SideSpec
==============================================================================
