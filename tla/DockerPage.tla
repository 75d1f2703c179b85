------------------------------ MODULE DockerPage ------------------------------
(***************************************************************************)
(* The Docker page beside the stacks (internal/server/handlers_docker.go,  *)
(* internal/docker): what other operators do to the engine while requests  *)
(* on stacks are in progress.  Each request is one engine call, and knows  *)
(* nothing of stacks.  So do the restart policies that a stack's text may  *)
(* give its services (internal/compose/compose.go): any may have one here. *)
(***************************************************************************)
EXTENDS Stacks

InProgress(name) == \E h \in Handlers : req[h].name = name

(* History: the containers or objects of these names changed under whatever
   request is in progress on them. *)
Disturbs(names) == contested' = contested \cup {name \in names : InProgress(name)}

(* Networks with an endpoint of a container that is up. *)
InUse == UNION {Attached(c) : c \in {c \in DOMAIN containers : containers[c].state \in {"running", "paused"}}}

------------------------------------------------------------------------------
(* Containers. *)

Becomes(c, state) ==
  /\ containers' = [containers EXCEPT ![c].state = state]
  /\ Disturbs({containers[c].stack})
  /\ UNCHANGED <<store, objects, pc, req, dirty>>

(* DoAction with "start", "unpause" or "restart". *)
PageStart ==
  \E c \in DOMAIN containers :
    /\ \/ containers[c].state = "paused"
       \/ containers[c].state \in {"stopped", "restarting"} /\ Attached(c) \subseteq objects
    /\ Becomes(c, "running")

PagePause ==
  \E c \in DOMAIN containers : containers[c].state = "running" /\ Becomes(c, "paused")

(* "stop" or "kill"; or the container's process ends by itself. *)
PageStop ==
  \E c \in DOMAIN containers : containers[c].state # "stopped" /\ Becomes(c, "stopped")

(* The process of a container with a restart policy ends. *)
Crashes ==
  \E c \in DOMAIN containers : containers[c].state = "running" /\ Becomes(c, "restarting")

(* The engine has waited: it starts the container again, or gives up, as it does when
   the network is gone.  That the container would change was to be seen. *)
Restarts ==
  /\ \E c \in DOMAIN containers, state \in {"running", "stopped"} :
       /\ containers[c].state = "restarting"
       /\ state = "running" => Attached(c) \subseteq objects
       /\ containers' = [containers EXCEPT ![c].state = state]
  /\ UNCHANGED <<store, objects, pc, req, history>>

Gone(cs) ==
  LET names == {containers[c].stack : c \in cs}
  IN /\ cs # {}
     /\ containers' = Restrict(containers, DOMAIN containers \ cs)
     /\ dirty' = dirty \cup names
     /\ Disturbs(names)
     /\ UNCHANGED <<store, objects, pc, req>>

(* One container, by force or not: here any. *)
PageRemove == \E c \in DOMAIN containers : Gone({c})

(* POST /containers/prune *)
PruneContainers == Gone({c \in DOMAIN containers : containers[c].state = "stopped"})

------------------------------------------------------------------------------
(* Networks and volumes. *)

Objects(new) ==
  /\ objects' = new
  /\ Disturbs({o[1] : o \in (objects \ new) \cup (new \ objects)})
  /\ UNCHANGED <<store, containers, pc, req, dirty>>

(* The page may take a name that a stack would give. *)
CreateObject ==
  \E name \in Names, o \in UNION {f.objects : f \in Files} :
    <<name, o>> \notin objects /\ Objects(objects \cup {<<name, o>>})

(* The engine refuses a network with an endpoint, and a volume of a container
   that exists, stopped or not, by force or without. *)
RemoveObject ==
  \E o \in objects :
    /\ IF o[2] \in Networks THEN o \notin InUse
       ELSE \A c \in DOMAIN containers : o \notin {containers[c].stack} \X containers[c].from.objects
    /\ Objects(objects \ {o})

(* POST /networks/prune: those of stopped containers go as well. *)
PruneNetworks ==
  /\ \E o \in objects : o[2] \in Networks /\ o \notin InUse
  /\ Objects({o \in objects : o[2] \notin Networks \/ o \in InUse})

------------------------------------------------------------------------------
Page ==
  \/ PageStart \/ PagePause \/ PageStop \/ PageRemove \/ PruneContainers \/ Crashes \/ Restarts
  \/ CreateObject \/ RemoveObject \/ PruneNetworks

PageSpec == Init /\ [][Next \/ Page]_vars
==============================================================================
