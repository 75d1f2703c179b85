-------------------------------- MODULE Stacks --------------------------------
(***************************************************************************)
(* Compose stacks (internal/server/handlers_stacks.go,                     *)
(* internal/compose/manager.go, internal/store/stacks.go): the stored      *)
(* text of each stack and the containers that the Docker engine runs for   *)
(* it.                                                                     *)
(*                                                                         *)
(* Requests are served by goroutines that share nothing but the database   *)
(* and the engine; one statement or one engine call on containers is an    *)
(* action.  A call that fails, a browser that leaves (which cancels the    *)
(* calls) and a process that dies all end a request where it is: Stops.    *)
(***************************************************************************)
EXTENDS Naturals, FiniteSets, Sequences, Functions, TopoSort

CONSTANTS
  Handlers, Kinds,   \* goroutines, and what each may serve
  Names,             \* stack names
  Files,             \* compose texts that parse: [deps, objects]
  Networks,          \* the objects that are networks; the others are volumes
  MaxStacks,         \* bound: ids the stacks table hands out
  ContainerIds       \* identifiers the engine uses, again when nobody knows them

Kind == {"create", "update", "delete", "start", "stop"}

ASSUME KindsAssumption == Kinds \in [Handlers -> SUBSET Kind]
ASSUME BoundsAssumption == MaxStacks \in Nat /\ IsFiniteSet(ContainerIds)
ASSUME FilesAssumption ==
  /\ "none" \notin Names
  /\ \A f \in Files : Graph(f.deps) /\ DOMAIN f.deps # {}

VARIABLES
  stacks,      \* the stacks table: id -> [name, compose]
  lastStack,   \* its AUTOINCREMENT counter
  containers,  \* the engine: id -> [stack, service, from, state]
  objects,     \* the networks and volumes it has: <<stack, object>>
  pc, req,     \* the requests in progress
  dirty,       \* history: names whose containers changed since a request on them alone
               \* got to its end
  contested    \* history: names whose last requests were in progress together

vars == <<stacks, lastStack, containers, objects, pc, req, dirty, contested>>
store == <<stacks, lastStack>>
engine == <<containers, objects>>
history == <<dirty, contested>>

(* What the engine says of a container; "stopped" is created, exited or dead, and
   "restarting" one whose process ended and whose restart policy has the engine
   wait before it tries again. *)
State == {"stopped", "running", "paused", "restarting"}

(* id is the row; doomed the containers still to remove or act on; rest the
   services still to create; made the container being started; flapping, which is
   history, the containers that the engine was restarting when a start or a stop
   listed them. *)
Asked(kind, name, id, file) ==
  [kind |-> kind, name |-> name, id |-> id, file |-> file, doomed |-> {}, rest |-> <<>>,
   made |-> {}, flapping |-> {}]
NoFile == [deps |-> <<>>, objects |-> {}]
NoRequest == Asked("none", "none", 0, NoFile)
Request == [kind : Kind \cup {"none"}, name : Names \cup {"none"}, id : Nat,
            file : Files \cup {NoFile}, doomed : SUBSET ContainerIds, rest : Seq(Nat),
            made : SUBSET ContainerIds, flapping : SUBSET ContainerIds]
Container == [stack : Names, service : Nat, from : Files, state : State]

Of(name) == {c \in DOMAIN containers : containers[c].stack = name}
InState(name, states) == {c \in Of(name) : containers[c].state \in states}

(* A service joins the network that its text declares; without it the engine
   creates the container and refuses to start it. *)
Attached(c) == {containers[c].stack} \X (containers[c].from.objects \cap Networks)

(* The engine has nothing to do for what runs or waits to be restarted, which
   DoAction takes for success, and refuses to start what is paused. *)
Startable(c) ==
  /\ c \in DOMAIN containers
  /\ \/ containers[c].state \in {"running", "restarting"}
     \/ containers[c].state = "stopped" /\ Attached(c) \subseteq objects
Started(state) == IF state = "restarting" THEN state ELSE "running"

TablesOK ==
  /\ lastStack \in 0..MaxStacks /\ DOMAIN stacks \subseteq 1..lastStack
  /\ stacks \in [DOMAIN stacks -> [name : Names, compose : Files]]
  /\ \A i, j \in DOMAIN stacks : stacks[i].name = stacks[j].name => i = j
  /\ DOMAIN containers \subseteq ContainerIds
  /\ containers \in [DOMAIN containers -> Container]
  /\ \A c, d \in DOMAIN containers :
       containers[c].stack = containers[d].stack /\ containers[c].service = containers[d].service
         => c = d

RequestsOK ==
  /\ pc \in [Handlers -> {"idle", "objects", "list", "remove", "make", "start", "store", "drop",
                         "forget", "act"}]
  /\ req \in [Handlers -> Request]
  /\ \A h \in Handlers :
       /\ IF pc[h] = "idle" THEN req[h] = NoRequest ELSE req[h].name # "none"
       /\ pc[h] = "start" => \E c \in ContainerIds : req[h].made = {c}
       /\ pc[h] \in {"make", "start"} => req[h].rest # <<>>

(* Tables and requests are well formed: rows have distinct names, containers
   distinct <stack>_<service> names, and a request knows what its step needs. *)
TypeOK == TablesOK /\ RequestsOK

Init ==
  /\ stacks = <<>> /\ lastStack = 0
  /\ containers = <<>> /\ objects = {}
  /\ pc = [h \in Handlers |-> "idle"]
  /\ req = [h \in Handlers |-> NoRequest]
  /\ dirty = {} /\ contested = {}

Become(h, step, record) == pc' = [pc EXCEPT ![h] = step] /\ req' = [req EXCEPT ![h] = record]
Reply(h) == Become(h, "idle", NoRequest)

(* A request on a stack begins. *)
Begins(h, step, record) ==
  /\ pc[h] = "idle" /\ record.kind \in Kinds[h]
  /\ Become(h, step, record)
  /\ contested' = IF \E g \in Handlers : req[g].name = record.name
                  THEN contested \cup {record.name} ELSE contested \ {record.name}
  /\ UNCHANGED <<dirty, store, engine>>

Row(name) == {i \in DOMAIN stacks : stacks[i].name = name}

------------------------------------------------------------------------------
(* How requests begin. *)

(* 409 if the name is taken. *)
BeginCreate(h) ==
  \E name \in Names, file \in Files :
    /\ Row(name) = {}
    /\ Begins(h, "objects", Asked("create", name, 0, file))

(* GetStack, then the new text is parsed. *)
BeginUpdate(h) ==
  \E i \in DOMAIN stacks, file \in Files :
    Begins(h, "objects", Asked("update", stacks[i].name, i, file))

(* resolveStack; the stored text tells what else to remove. *)
BeginDelete(h) ==
  \E i \in DOMAIN stacks :
    Begins(h, "list", Asked("delete", stacks[i].name, i, stacks[i].compose))

BeginAct(h) ==
  \E i \in DOMAIN stacks, kind \in {"start", "stop"} :
    Begins(h, "list", Asked(kind, stacks[i].name, i, NoFile))

------------------------------------------------------------------------------
(* Manager.Deploy and Manager.RemoveStack. *)

(* Declared networks and volumes that are missing are created, in no particular
   order, and the services are sorted: a cycle ends the deployment here. *)
CreateObjects(h) ==
  /\ pc[h] = "objects"
  /\ LET declared == {<<req[h].name, o>> : o \in req[h].file.objects}
     IN \E made \in SUBSET declared :
          /\ objects' = objects \cup made
          /\ IF made = declared /\ ~CycleDetected(req[h].file.deps)
             THEN Become(h, "list", req[h]) ELSE Reply(h)
  /\ UNCHANGED <<store, containers, history>>

(* Mutant: stopped containers are not listed. *)
ListRunning(h) == InState(req[h].name, {"running", "paused"})

(* Mutant: a stop lists what runs and forgets what is paused. *)
ListUnpaused(h) ==
  LET name == req[h].name
  IN CASE req[h].kind = "start" -> InState(name, {"stopped", "paused", "restarting"})
       [] req[h].kind = "stop"  -> InState(name, {"running"})
       [] OTHER                 -> Of(name)

(* Containers by the webtermin.stack label; start skips those that run, and stop
   those that neither run nor are paused: also one that waits to be restarted. *)
Listed(h) ==
  LET name == req[h].name
  IN CASE req[h].kind = "start" -> InState(name, {"stopped", "paused", "restarting"})
       [] req[h].kind = "stop"  -> InState(name, {"running", "paused"})
       [] OTHER                 -> Of(name)

List(h) ==
  /\ pc[h] = "list"
  /\ IF req[h].kind \in {"start", "stop"}
     THEN Become(h, "act", [req[h] EXCEPT !.doomed = Listed(h),
                                          !.flapping = InState(req[h].name, {"restarting"})])
     ELSE Become(h, "remove", [req[h] EXCEPT !.doomed = Listed(h)])
  /\ UNCHANGED <<store, engine, history>>

(* One container of the list is removed by force; the engine refuses if it has
   gone. *)
RemoveContainer(h) ==
  /\ pc[h] = "remove"
  /\ \E c \in req[h].doomed :
       IF c \in DOMAIN containers
       THEN /\ containers' = Restrict(containers, DOMAIN containers \ {c})
            /\ dirty' = dirty \cup {req[h].name}
            /\ Become(h, "remove", [req[h] EXCEPT !.doomed = @ \ {c}])
       ELSE Reply(h) /\ UNCHANGED <<containers, dirty>>
  /\ UNCHANGED <<store, objects, contested>>

(* Mutant: services are created in the order of their names. *)
ByName(deps) == Alphabetical(DOMAIN deps)

Order(deps) == Sorted(deps)

(* All are removed: a deployment goes on to its services, a deletion to the
   networks and volumes. *)
Removed(h) ==
  /\ pc[h] = "remove" /\ req[h].doomed = {}
  /\ IF req[h].kind = "delete" THEN Become(h, "drop", req[h])
     ELSE Become(h, "make", [req[h] EXCEPT !.rest = Order(req[h].file.deps)])
  /\ UNCHANGED <<store, engine, history>>

Remembered == UNION {req[h].doomed \cup req[h].made : h \in Handlers}

(* Mutant: the engine takes any name. *)
NeverTaken(name, service) == FALSE

(* Containers are called <stack>_<service>, and the engine refuses a name that
   is in use. *)
NameTaken(name, service) == \E c \in Of(name) : containers[c].service = service

(* What a service becomes in the engine: a container with the name and the labels
   of its stack, and the settings of its text. *)
ToSpec(name, service, file) ==
  [stack |-> name, service |-> service, from |-> file, state |-> "stopped"]

(* POST /containers/create *)
CreateContainer(h) ==
  /\ pc[h] = "make"
  /\ LET service == Head(req[h].rest)
         fresh == ContainerIds \ (DOMAIN containers \cup Remembered)
     IN IF NameTaken(req[h].name, service)
        THEN Reply(h) /\ UNCHANGED <<containers, dirty>>
        ELSE /\ fresh # {}
             /\ \E c \in fresh :
                   /\ containers' = [d \in DOMAIN containers \cup {c} |->
                                       IF d = c THEN ToSpec(req[h].name, service, req[h].file)
                                       ELSE containers[d]]
                   /\ Become(h, "start", [req[h] EXCEPT !.made = {c}])
             /\ dirty' = dirty \cup {req[h].name}
  /\ UNCHANGED <<store, objects, contested>>

(* POST /containers/<id>/start *)
StartContainer(h) ==
  /\ pc[h] = "start"
  /\ LET rest == Tail(req[h].rest)
     IN \E c \in req[h].made :
          IF Startable(c)
          THEN /\ containers' = [containers EXCEPT ![c].state = Started(@)]
               /\ Become(h, IF rest = <<>> THEN "store" ELSE "make",
                         [req[h] EXCEPT !.rest = rest, !.made = {}])
          ELSE Reply(h) /\ UNCHANGED containers
  /\ UNCHANGED <<store, objects, history>>

(* RemoveNetwork and, when the request says remove_data, RemoveVolume of what the
   stored text declares; their errors are ignored. *)
Drop(h) ==
  /\ pc[h] = "drop"
  /\ \E gone \in SUBSET {<<req[h].name, o>> : o \in req[h].file.objects} :
       objects' = objects \ gone
  /\ Become(h, "forget", req[h])
  /\ UNCHANGED <<store, containers, history>>

(* Start and stop act on one listed container after the other; the engine takes a
   stop of anything. *)
Act(h) ==
  /\ pc[h] = "act"
  /\ IF req[h].doomed = {} THEN Reply(h) /\ UNCHANGED containers
     ELSE \E c \in req[h].doomed :
            IF IF req[h].kind = "start" THEN Startable(c) ELSE c \in DOMAIN containers
            THEN /\ containers' = [containers EXCEPT ![c].state =
                                      IF req[h].kind = "start" THEN Started(@) ELSE "stopped"]
                 /\ Become(h, "act", [req[h] EXCEPT !.doomed = @ \ {c}])
            ELSE Reply(h) /\ UNCHANGED containers
  /\ UNCHANGED <<store, objects, history>>

------------------------------------------------------------------------------
(* The stacks table. *)

(* The request that ends was alone on its name since it began, or it was not. *)
Settled(h) == dirty \ ({req[h].name} \ contested)

(* Mutant: an update keeps the text that was stored. *)
StoreFirstText(h) ==
  /\ pc[h] = "store"
  /\ IF req[h].kind = "create" /\ Row(req[h].name) = {} /\ lastStack < MaxStacks
     THEN /\ lastStack' = lastStack + 1
          /\ stacks' = [i \in DOMAIN stacks \cup {lastStack'} |->
                          IF i = lastStack' THEN [name |-> req[h].name, compose |-> req[h].file]
                          ELSE stacks[i]]
     ELSE UNCHANGED store
  /\ dirty' = Settled(h)
  /\ Reply(h)
  /\ UNCHANGED <<engine, contested>>

(* CreateStack, whose name is UNIQUE, or UpdateStackCompose, which says nothing
   if the row has gone. *)
Store(h) ==
  /\ pc[h] = "store"
  /\ \/ /\ req[h].kind = "create" /\ Row(req[h].name) = {} /\ lastStack < MaxStacks
        /\ lastStack' = lastStack + 1
        /\ stacks' = [i \in DOMAIN stacks \cup {lastStack'} |->
                        IF i = lastStack' THEN [name |-> req[h].name, compose |-> req[h].file]
                        ELSE stacks[i]]
        /\ dirty' = Settled(h)
     \/ /\ req[h].kind = "create" /\ Row(req[h].name) # {}
        /\ UNCHANGED <<store, dirty>>
     \/ /\ req[h].kind = "update"
        /\ stacks' = [i \in DOMAIN stacks |->
                        IF i = req[h].id THEN [stacks[i] EXCEPT !.compose = req[h].file]
                        ELSE stacks[i]]
        /\ dirty' = Settled(h)
        /\ UNCHANGED lastStack
  /\ Reply(h)
  /\ UNCHANGED <<engine, contested>>

(* DeleteStack *)
Forget(h) ==
  /\ pc[h] = "forget"
  /\ stacks' = Restrict(stacks, DOMAIN stacks \ {req[h].id})
  /\ dirty' = Settled(h)
  /\ Reply(h)
  /\ UNCHANGED <<lastStack, engine, contested>>

(* A call fails, the browser leaves, or the process dies. *)
Stops(h) ==
  /\ pc[h] # "idle"
  /\ Reply(h)
  /\ UNCHANGED <<store, engine, history>>

------------------------------------------------------------------------------
Step(h) ==
  \/ BeginCreate(h) \/ BeginUpdate(h) \/ BeginDelete(h) \/ BeginAct(h)
  \/ CreateObjects(h) \/ List(h) \/ RemoveContainer(h) \/ Removed(h) \/ CreateContainer(h) \/ StartContainer(h)
  \/ Drop(h) \/ Act(h) \/ Store(h) \/ Forget(h) \/ Stops(h)

Next == \E h \in Handlers : Step(h)

Spec == Init /\ [][Next]_vars

------------------------------------------------------------------------------
(* Properties.  Nothing orders two requests on one stack, and together they may
   leave any mixture behind: what is claimed holds again after the next request
   that gets to its end alone. *)

Exactly(name, file) ==
  /\ {containers[c].service : c \in Of(name)} = DOMAIN file.deps
  /\ \A c \in Of(name) : containers[c].from = file

(* "the stored YAML is just the source of truth for what was last deployed":
   once a deployment or deletion got to its end alone, and until another request,
   of any kind, touches a container, the engine has the containers of the stored text and
   of no other, and none at all for a name without a row. *)
RunsWhatIsStored ==
  \A name \in Names \ dirty :
    IF Row(name) = {} THEN Of(name) = {}
    ELSE \A i \in Row(name) : Exactly(name, stacks[i].compose)

(* Whatever earlier requests left half done or mixed up, a deployment that gets
   to its end alone leaves its services running and nothing else, and what they
   declare. *)
DeployConverges ==
  \A h \in Handlers :
    pc[h] = "store" /\ req[h].name \notin contested =>
      /\ Exactly(req[h].name, req[h].file)
      /\ \A c \in Of(req[h].name) : containers[c].state = "running"
      /\ {req[h].name} \X req[h].file.objects \subseteq objects

(* "Start brings every container in the stack up", "Stop brings every container in
   the stack down": either does, paused containers and those of half-done
   deployments included, when it is alone and gets to its end; but not for the
   containers that the engine was restarting when they were listed.  Stop leaves
   those alone and they may come back, and Start cannot know whether they will.  A
   paused container or a network that is gone makes a start end early instead. *)
ActConverges ==
  \A h \in Handlers :
    pc[h] = "act" /\ req[h].doomed = {} /\ req[h].name \notin contested =>
      \A c \in Of(req[h].name) \ req[h].flapping :
        containers[c].state = IF req[h].kind = "start" THEN "running" ELSE "stopped"

(* "depends_on is honoured at start time by the toposort": a service starts
   only when those it depends on run, and no deployment gets past a cycle. *)
DependenciesFirst ==
  \A h \in Handlers :
    LET deps == req[h].file.deps
        up == {containers[c].service : c \in InState(req[h].name, {"running"})}
    IN /\ pc[h] = "start" /\ req[h].name \notin contested =>
            Known(deps, Head(req[h].rest)) \subseteq up
       /\ pc[h] \in {"make", "start", "store"} => Acyclic(deps)
==============================================================================
