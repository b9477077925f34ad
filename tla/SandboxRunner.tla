---------------------------- MODULE SandboxRunner ----------------------------
(***************************************************************************)
(* Runs of one task in a container (services/sandbox-runner/src/runner.ts, *)
(* with the plan of plan.ts, the checks of mounts.ts and the executor).    *)
(* Each call of runSandbox for the task's run id takes a lease; calls of   *)
(* one process exclude one another by activeRunIds, calls of several       *)
(* processes meet at the daemon, where the container's name is the same    *)
(* for all of them.                                                        *)
(*                                                                         *)
(* The daemon and the Docker client are external.  The client asks the     *)
(* daemon to create the container, writes its id to the lease's cidfile,   *)
(* asks to start it and waits for its end; the daemon removes a container  *)
(* that ended by itself.  A client that is killed leaves its last request  *)
(* with the daemon, which may serve it much later or drop it; a runner     *)
(* that crashes leaves its client, which has a process group of its own,   *)
(* running.                                                                *)
(***************************************************************************)
EXTENDS SandboxPlan, FiniteSets, TLC

CONSTANTS Lease,    \* calls of runSandbox, each with its lease id
          Process,  \* runner processes
          NoLease, NoProcess

ASSUME SandboxAssumption == NoLease \notin Lease /\ NoProcess \notin Process

VARIABLES
  pc,        \* where the call of a lease stands
  process,   \* the process that makes it
  decided,   \* what enforce has decided for it, with the effects
  mounts,    \* the allowed paths as its plan found them when it began
  root,      \* the workspace root's entry as its plan found it when it ended
  client,    \* its docker run: "none", "creating", "starting", "gone"
  cid,       \* TRUE once its cidfile names a container
  outcome,   \* of docker run, as the executor reports it
  events,    \* sandbox.started and sandbox.stopped it emitted
  box,       \* the container of that name at the daemon
  requests   \* requests the daemon has still to serve

planned == <<mounts, root, tree>>
vars == <<pc, process, decided, planned, client, cid, outcome, events, box, requests>>

NotFound == [kind |-> "none", fingerprint |-> 0]
NoMounts == [path \in Allowed |-> NotFound]
NoBox == [lease |-> NoLease, state |-> "absent"]
Active == {"planning", "ready", "running", "cleaning", "inspecting", "removing"}

\* the plans of these calls are not read again
Discard(calls) ==
  /\ decided' = [l \in Lease |-> IF l \in calls THEN << >> ELSE decided[l]]
  /\ mounts' = [l \in Lease |-> IF l \in calls THEN NoMounts ELSE mounts[l]]
  /\ root' = [l \in Lease |-> IF l \in calls THEN NotFound ELSE root[l]]
  /\ UNCHANGED tree

Request(op, by, target) == [op |-> op, by |-> by, target |-> target]

-----------------------------------------------------------------------------
(* validateOptions and the process-local lease: a second call for the run  *)
(* id in the same process is refused before its first await.  So is a      *)
(* malformed spec and a workspace that cannot be mounted.                  *)
Begin(l, p) ==
  /\ pc[l] = "new"
  /\ \A other \in Lease : process[other] = p => pc[other] \notin Active
  /\ IF Plannable
     THEN pc' = [pc EXCEPT ![l] = "planning"] /\ mounts' = [mounts EXCEPT ![l] = Mounts]
     ELSE pc' = [pc EXCEPT ![l] = "refused"] /\ UNCHANGED mounts
  /\ process' = [process EXCEPT ![l] = p]
  /\ UNCHANGED <<decided, root, tree, client, cid, outcome, events, box, requests>>

(* createSandboxPlan decides one thing after another, each maybe after an  *)
(* answer of the operator                                                  *)
DecideNext(l) ==
  /\ pc[l] = "planning" /\ Representable(decided[l])
  /\ Cardinality(DOMAIN decided[l]) < Len(Decisions)
  /\ LET next == Decisions[Cardinality(DOMAIN decided[l]) + 1]
     IN  /\ Expressible(next)
         /\ \E effect \in Effects(next) : decided' = [decided EXCEPT ![l] =
              [d \in DOMAIN decided[l] \union {next} |-> IF d = next THEN effect ELSE decided[l][d]]]
  /\ UNCHANGED <<pc, process, planned, client, cid, outcome, events, box, requests>>

(* the end of the plan: the allowed paths must not have changed while the  *)
(* operator thought; the root's entry is taken only now                    *)
PlanReady(l) ==
  /\ pc[l] = "planning" /\ Cardinality(DOMAIN decided[l]) = Len(Decisions) /\ Representable(decided[l])
  /\ Revalidated(tree[Root], mounts[l])
  /\ pc' = [pc EXCEPT ![l] = "ready"] /\ root' = [root EXCEPT ![l] = tree[Root]]
  /\ UNCHANGED <<process, decided, mounts, tree, client, cid, outcome, events, box, requests>>

(* denied or unrepresentable, aborted while it asks, not answered, or a    *)
(* workspace that changed: no Docker client ran and no cleanup is due      *)
PlanRefused(l) ==
  /\ pc[l] = "planning"
  /\ pc' = [pc EXCEPT ![l] = "refused"] /\ Discard({l})
  /\ UNCHANGED <<process, client, cid, outcome, events, box, requests>>

-----------------------------------------------------------------------------
Spawn(l) ==
  /\ pc' = [pc EXCEPT ![l] = "running"]
  /\ client' = [client EXCEPT ![l] = "creating"]
  /\ requests' = requests \union {Request("create", l, l)}
  /\ Discard({l})
  /\ UNCHANGED <<process, cid, outcome, events, box>>

(* mutant: the plan was checked when it was made, and is not checked again *)
ExecutePlanned(l) == pc[l] = "ready" /\ Spawn(l)

(* revalidateSandboxPlan and executor.execute, with no await in between *)
Execute(l) ==
  /\ pc[l] = "ready" /\ Revalidated(root[l], mounts[l])
  /\ Spawn(l)

(* the workspace changed since the plan, the call is aborted before the    *)
(* spawn, or the spawn fails: there is no container to clean up            *)
ExecuteFails(l) ==
  /\ pc[l] = "ready"
  /\ pc' = [pc EXCEPT ![l] = "returned"] /\ outcome' = [outcome EXCEPT ![l] = "error"]
  /\ Discard({l})
  /\ UNCHANGED <<process, client, cid, events, box, requests>>

(* the end of docker run: sandbox.started is emitted late, once it is sure *)
Settle(l, result) ==
  /\ client' = [client EXCEPT ![l] = "gone"]
  /\ IF pc[l] = "running"
     THEN /\ outcome' = [outcome EXCEPT ![l] = result]
          /\ pc' = [pc EXCEPT ![l] = "cleaning"]
          /\ events' = IF result = "exited" /\ cid[l]
                       THEN [events EXCEPT ![l] = @ \union {"started"}] ELSE events
     ELSE UNCHANGED <<outcome, pc, events>>

(* the timer or the caller's signal kills the client, at any step of it; a *)
(* client of a runner that crashed is nobody's to kill                     *)
Killed(l) ==
  /\ pc[l] = "running" /\ client[l] \in {"creating", "starting"}
  /\ Settle(l, "killed")
  /\ UNCHANGED <<process, decided, planned, cid, box, requests>>

-----------------------------------------------------------------------------
(* the daemon and the client *)
Create(l) ==
  /\ Request("create", l, l) \in requests
  /\ requests' = requests \ {Request("create", l, l)}
  /\ IF box = NoBox
     THEN /\ box' = [lease |-> l, state |-> "created"]
          /\ UNCHANGED <<pc, client, outcome, events>>
     ELSE /\ IF client[l] = "creating"
             THEN Settle(l, "infrastructure") ELSE UNCHANGED <<pc, client, outcome, events>>
          /\ UNCHANGED box
  /\ UNCHANGED <<process, decided, planned, cid>>

Created(l) ==
  /\ client[l] = "creating" /\ box.lease = l
  /\ cid' = [cid EXCEPT ![l] = TRUE]
  /\ client' = [client EXCEPT ![l] = "starting"]
  /\ requests' = requests \union {Request("start", l, l)}
  /\ UNCHANGED <<pc, process, decided, planned, outcome, events, box>>

(* a start that fails is an infrastructure error (125) to the client, or   *)
(* the exit of a command that could not be run (126, 127)                  *)
StartBox(l) ==
  /\ Request("start", l, l) \in requests
  /\ requests' = requests \ {Request("start", l, l)}
  /\ \/ box.lease = l /\ box' = [box EXCEPT !.state = "running"]
        /\ UNCHANGED <<pc, client, outcome, events>>
     \/ IF client[l] = "starting"
        THEN (\E result \in {"infrastructure", "exited"} : Settle(l, result)) /\ UNCHANGED box
        ELSE UNCHANGED <<pc, client, outcome, events, box>>
  /\ UNCHANGED <<process, decided, planned, cid>>

BoxEnds ==
  /\ box.state = "running"
  /\ box' = [box EXCEPT !.state = "ended"]
  /\ UNCHANGED <<pc, process, decided, planned, client, cid, outcome, events, requests>>

BoxRemovedByDaemon ==
  /\ box.state = "ended"
  /\ box' = NoBox
  /\ UNCHANGED <<pc, process, decided, planned, client, cid, outcome, events, requests>>

(* docker run returns when the container it started is no longer running *)
ClientReturns(l) ==
  /\ client[l] = "starting" /\ Request("start", l, l) \notin requests
  /\ box.lease = l => box.state = "ended"
  /\ Settle(l, "exited")
  /\ UNCHANGED <<process, decided, planned, cid, box, requests>>

(* the daemon notices that a request's client is gone *)
Dropped(request) ==
  /\ request \in requests /\ request.op # "remove" /\ client[request.by] = "gone"
  /\ requests' = requests \ {request}
  /\ UNCHANGED <<pc, process, decided, planned, client, cid, outcome, events, box>>

-----------------------------------------------------------------------------
(* cleanupContainer: by the id of the cidfile, else by the name if its     *)
(* label is this lease's                                                   *)
Remove(l, target) ==
  /\ pc' = [pc EXCEPT ![l] = "removing"]
  /\ requests' = requests \union {Request("remove", l, target)}

Cleaned(l) ==
  /\ pc' = [pc EXCEPT ![l] = "returned"]
  /\ events' = IF "started" \in events[l] THEN [events EXCEPT ![l] = @ \union {"stopped"}] ELSE events

(* mutant: a call that was killed goes by its first look at the cidfile *)
CleanupNotKilled(l) ==
  /\ pc[l] = "cleaning"
  /\ IF cid[l] /\ outcome[l] # "killed" THEN Remove(l, l) /\ UNCHANGED events
     ELSE IF outcome[l] = "killed" THEN Cleaned(l) /\ UNCHANGED requests
     ELSE pc' = [pc EXCEPT ![l] = "inspecting"] /\ UNCHANGED <<requests, events>>
  /\ UNCHANGED <<process, decided, planned, client, cid, outcome, box>>

Cleanup(l) ==
  /\ pc[l] = "cleaning"
  /\ IF cid[l] THEN Remove(l, l) ELSE pc' = [pc EXCEPT ![l] = "inspecting"] /\ UNCHANGED requests
  /\ UNCHANGED <<process, decided, planned, client, cid, outcome, events, box>>

(* mutant: whatever container bears the name is taken for the lease's own *)
InspectedByName(l) ==
  /\ pc[l] = "inspecting"
  /\ IF box = NoBox THEN Cleaned(l) /\ UNCHANGED requests
     ELSE Remove(l, box.lease) /\ UNCHANGED events
  /\ UNCHANGED <<process, decided, planned, client, cid, outcome, box>>

Inspected(l) ==
  /\ pc[l] = "inspecting"
  /\ CASE box = NoBox -> Cleaned(l) /\ UNCHANGED requests
       [] box.lease = l -> Remove(l, l) /\ UNCHANGED events
       [] OTHER -> pc' = [pc EXCEPT ![l] = "unverified"] /\ UNCHANGED <<requests, events>>
  /\ UNCHANGED <<process, decided, planned, client, cid, outcome, box>>

(* docker rm --force: removed, or there was nothing of that id *)
Removed(request) ==
  /\ request \in requests /\ request.op = "remove"
  /\ requests' = requests \ {request}
  /\ box' = IF box.lease = request.target THEN NoBox ELSE box
  /\ IF pc[request.by] = "removing" THEN Cleaned(request.by) ELSE UNCHANGED <<pc, events>>
  /\ UNCHANGED <<process, decided, planned, client, cid, outcome>>

(* mutant: a cleanup that was not answered in time passes for done *)
CleanupTimeoutIgnored(l) ==
  /\ pc[l] \in {"inspecting", "removing"}
  /\ Cleaned(l)
  /\ UNCHANGED <<process, decided, planned, client, cid, outcome, box, requests>>

(* an inspect or rm that fails or is not answered within cleanupTimeoutMs: *)
(* SandboxCleanupError, and no sandbox.stopped                             *)
CleanupFails(l) ==
  /\ pc[l] \in {"inspecting", "removing"}
  /\ pc' = [pc EXCEPT ![l] = "unverified"]
  /\ UNCHANGED <<process, decided, planned, client, cid, outcome, events, box, requests>>

(* the runner's process ends: its leases are forgotten, the clients run on *)
Crash(p) ==
  /\ \E l \in Lease : process[l] = p /\ pc[l] \in Active
  /\ pc' = [l \in Lease |-> IF process[l] = p /\ pc[l] \in Active THEN "crashed" ELSE pc[l]]
  /\ Discard({l \in Lease : process[l] = p})
  /\ UNCHANGED <<process, client, cid, outcome, events, box, requests>>

-----------------------------------------------------------------------------
Init ==
  /\ pc = [l \in Lease |-> "new"] /\ process = [l \in Lease |-> NoProcess]
  /\ decided = [l \in Lease |-> << >>] /\ root = [l \in Lease |-> NotFound]
  /\ mounts = [l \in Lease |-> NoMounts] /\ TreeInit
  /\ client = [l \in Lease |-> "none"] /\ cid = [l \in Lease |-> FALSE]
  /\ outcome = [l \in Lease |-> "none"] /\ events = [l \in Lease |-> {}]
  /\ box = NoBox /\ requests = {}

Next ==
  \/ \E l \in Lease :
       \/ \E p \in Process : Begin(l, p)
       \/ DecideNext(l) \/ PlanReady(l) \/ PlanRefused(l) \/ Execute(l) \/ ExecuteFails(l) \/ Killed(l)
       \/ Create(l) \/ Created(l) \/ StartBox(l) \/ ClientReturns(l)
       \/ Cleanup(l) \/ Inspected(l) \/ CleanupFails(l)
  \/ \E request \in requests : Dropped(request) \/ Removed(request)
  \/ BoxEnds \/ BoxRemovedByDaemon
  \/ \E p \in Process : Crash(p)
  \/ Disturb /\ UNCHANGED <<pc, process, decided, mounts, root, client, cid, outcome, events, box, requests>>

Spec == Init /\ [][Next]_vars

-----------------------------------------------------------------------------
(* sandbox.stopped tells the truth: a call that emitted it has no          *)
(* container left at the daemon and no request for one on its way.         *)
StoppedMeansGone ==
  \A l \in Lease : "stopped" \in events[l] =>
    box.lease # l /\ Request("create", l, l) \notin requests

(* A call that returned, with a result or with an execution error, leaves  *)
(* nothing running: not when its client was killed in the middle of a      *)
(* create or a start that the daemon served afterwards.                    *)
NothingRunsAfterReturn ==
  \A l \in Lease : pc[l] = "returned" => ~(box.lease = l /\ box.state = "running")

(* A container that runs is taken away only by the call whose lease it     *)
(* bears: the cleanup of a call that lost the race for the name, or that   *)
(* follows a crashed one, leaves it alone.                                 *)
OnlyOwnRemoved ==
  [][box.state = "running" /\ box'.lease # box.lease
     => Request("remove", box.lease, box.lease) \in requests]_vars

(* A container is started for an allowed command over what was allowed and *)
(* has not changed: nothing may be written that may not be read; a         *)
(* writable path, with all that is in it, is what it was when the plan     *)
(* began, however long the operator and the observers of its lifecycle     *)
(* took; and the root is the directory it was when the plan was completed, *)
(* after the last answer.  An exchange of the root while the operator is   *)
(* asked, and changes in it outside the allowed paths, are not excluded.   *)
SpawnedAsPlanned ==
  [][\A l \in Lease : client[l] = "none" /\ client'[l] # "none" =>
       /\ decided[l]["process.exec"] = "allow"
       /\ \A path \in Allowed \cap DOMAIN decided[l] :
            decided[l][path] = "allow" => decided[l]["fs.read"] = "allow"
       /\ LET bound == Bound(decided[l], root[l], mounts[l])
          IN  \A path \in DOMAIN bound : tree[path] = bound[path]]_vars
=============================================================================
