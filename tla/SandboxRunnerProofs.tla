------------------------- MODULE SandboxRunnerProofs -------------------------
(***************************************************************************)
(* Proofs about SandboxRunner, for any number of calls and processes, any  *)
(* rules and paths, and any number of changes to the workspace.            *)
(***************************************************************************)
EXTENDS SandboxRunner, FiniteSetTheorems, WellFoundedInduction, TLAPS

-----------------------------------------------------------------------------
(* The invariant: what a lease's own container can still become, from how  *)
(* far its Docker client came.                                             *)
Clients == {"none", "creating", "starting", "gone"}
Stages == Active \union {"new", "refused", "returned", "unverified", "crashed"}
Requests == [op : {"create", "start", "remove"}, by : Lease, target : Lease]
Boxes == {NoBox} \union [lease : Lease, state : {"created", "running", "ended"}]

Types ==
  /\ pc \in [Lease -> Stages] /\ client \in [Lease -> Clients] /\ cid \in [Lease -> BOOLEAN]
  /\ events \in [Lease -> SUBSET {"started", "stopped"}]
  /\ DOMAIN outcome = Lease
  /\ box \in Boxes /\ requests \in SUBSET Requests

Asked(op, l) == Request(op, l, l) \in requests

\* No call asks to remove, or makes, another's container.
OwnRequests == \A request \in requests : request.target = request.by

\* Before its client is spawned a lease has nothing at the daemon.
Unspawned(l) ==
  /\ pc[l] \in {"new", "planning", "ready", "refused"} => client[l] = "none"
  /\ client[l] = "none" => ~cid[l] /\ box.lease # l /\ ~Asked("create", l)

\* A container is created once, and not started before its client read its id.
CreatedOnce(l) ==
  /\ cid[l] => ~Asked("create", l) /\ client[l] # "creating"
  /\ box.lease = l => ~Asked("create", l)
  /\ client[l] = "starting" => cid[l]
  /\ Asked("start", l) => cid[l]
  /\ box.lease = l /\ box.state \in {"running", "ended"} => cid[l]

\* A cleanup begins when the client is gone, and what it did not find in the
\* cidfile then is never written to it.
CleanedUp(l) ==
  /\ pc[l] \in {"cleaning", "inspecting", "removing", "unverified", "returned"}
       => client[l] \in {"none", "gone"}
  /\ pc[l] = "inspecting" => ~cid[l]
  /\ pc[l] = "returned" => ~cid[l] \/ box.lease # l
  /\ "started" \in events[l] => cid[l]
  /\ "stopped" \in events[l] => cid[l] /\ box.lease # l

SandboxInv ==
  /\ Types /\ OwnRequests
  /\ \A l \in Lease : Unspawned(l) /\ CreatedOnce(l) /\ CleanedUp(l)
LeaseInv(l) == Unspawned(l) /\ CreatedOnce(l) /\ CleanedUp(l)

-----------------------------------------------------------------------------
(* Types, and whose requests there are.                                    *)
LEMMA RequestIs ==
  /\ \A op1, op2, a, b, c, d : Request(op1, a, b) = Request(op2, c, d) <=> op1 = op2 /\ a = c /\ b = d
  /\ \A op \in {"create", "start", "remove"}, a \in Lease, b \in Lease : Request(op, a, b) \in Requests
  /\ \A request \in Requests : request = Request(request.op, request.by, request.target)
  /\ \A op, a, b : Request(op, a, b).by = a /\ Request(op, a, b).target = b
                  /\ Request(op, a, b).op = op
BY DEF Request, Requests

LEMMA BoxTypes ==
  /\ NoBox \in Boxes /\ NoBox.lease \notin Lease /\ NoBox.state = "absent"
  /\ \A l \in Lease : [lease |-> l, state |-> "created"] \in Boxes
  /\ \A b \in Boxes : b.lease \in Lease => \A state \in {"running", "ended"} :
       [b EXCEPT !.state = state] \in Boxes
BY SandboxAssumption DEF NoBox, Boxes

LEMMA SettleTypes ==
  ASSUME Types, NEW l \in Lease, NEW result, Settle(l, result)
  PROVE  /\ pc' \in [Lease -> Stages] /\ client' \in [Lease -> Clients]
         /\ events' \in [Lease -> SUBSET {"started", "stopped"}] /\ DOMAIN outcome' = Lease
BY DEF Types, Settle, Stages, Active, Clients

LEMMA CleanedTypes ==
  ASSUME Types, NEW l \in Lease, Cleaned(l)
  PROVE  /\ pc' \in [Lease -> Stages]
         /\ events' \in [Lease -> SUBSET {"started", "stopped"}]
BY DEF Types, Cleaned, Stages

-----------------------------------------------------------------------------
(* What a step may do to the leases it is not a step of, and more.         *)
Follows(l) ==
  /\ cid'[l] = cid[l] /\ events'[l] = events[l] /\ client'[l] = client[l]
  /\ \/ pc'[l] \in {pc[l], "crashed"}
     \/ pc[l] \in {"new", "planning", "ready"} /\ pc'[l] \in {"planning", "ready", "refused"}
  /\ box'.lease = l => box.lease = l
  /\ box'.lease = l /\ box'.state \in {"running", "ended"} => box.state \in {"running", "ended"}
  /\ \A op : Asked(op, l)' => Asked(op, l)

LEMMA FollowsKeeps ==
  ASSUME NEW l \in Lease, LeaseInv(l), Follows(l)
  PROVE  LeaseInv(l)'
BY DEF LeaseInv, Unspawned, CreatedOnce, CleanedUp, Follows

Quiet == UNCHANGED <<client, cid, events, box, requests>>

LEMMA PlanSteps ==
  ASSUME SandboxInv, NEW l \in Lease,
         \/ \E p \in Process : Begin(l, p)
         \/ DecideNext(l) \/ PlanReady(l) \/ PlanRefused(l)
  PROVE  SandboxInv'
<1>1. Quiet /\ DOMAIN outcome' = Lease
  BY DEF Quiet, Begin, DecideNext, PlanReady, PlanRefused, SandboxInv, Types
<1>2. /\ pc' \in [Lease -> Stages]
      /\ \A m \in Lease :
           \/ pc'[m] = pc[m]
           \/ pc[m] \in {"new", "planning", "ready"} /\ pc'[m] \in {"planning", "ready", "refused"}
  <2>1. CASE DecideNext(l)
    <3>1. pc' = pc
      BY <2>1 DEF DecideNext
    <3> QED
      BY <3>1 DEF SandboxInv, Types
  <2>2. CASE \E q \in Process : Begin(l, q)
    BY <2>2 DEF Begin, SandboxInv, Types, Stages, Active
  <2>3. CASE PlanReady(l) \/ PlanRefused(l)
    <3>1. /\ pc[l] = "planning"
          /\ pc' = [pc EXCEPT ![l] = "ready"] \/ pc' = [pc EXCEPT ![l] = "refused"]
      BY <2>3 DEF PlanReady, PlanRefused
    <3> QED
      BY <3>1 DEF SandboxInv, Types, Stages, Active
  <2> QED
    BY <2>1, <2>2, <2>3
<1>3. Types' /\ OwnRequests'
  BY <1>1, <1>2 DEF Quiet, SandboxInv, Types, OwnRequests
<1>4. \A m \in Lease : Follows(m)
  BY <1>1, <1>2 DEF Quiet, Follows, Asked
<1> QED
  BY <1>3, <1>4, FollowsKeeps DEF SandboxInv, LeaseInv

LEMMA CrashStep ==
  ASSUME SandboxInv, NEW p \in Process, Crash(p)
  PROVE  SandboxInv'
<1>1. Quiet /\ DOMAIN outcome' = Lease
  BY DEF Quiet, Crash, SandboxInv, Types
<1>2. pc' \in [Lease -> Stages] /\ \A m \in Lease : pc'[m] \in {pc[m], "crashed"}
  BY DEF Crash, SandboxInv, Types, Stages
<1>3. Types' /\ OwnRequests'
  BY <1>1, <1>2 DEF Quiet, SandboxInv, Types, OwnRequests
<1>4. \A m \in Lease : Follows(m)
  BY <1>1, <1>2 DEF Quiet, Follows, Asked
<1> QED
  BY <1>3, <1>4, FollowsKeeps DEF SandboxInv, LeaseInv

LEMMA ExecuteStep ==
  ASSUME SandboxInv, NEW l \in Lease, Execute(l)
  PROVE  SandboxInv'
<1>1. /\ pc[l] = "ready" /\ pc' = [pc EXCEPT ![l] = "running"]
      /\ client' = [client EXCEPT ![l] = "creating"]
      /\ requests' = requests \union {Request("create", l, l)}
      /\ UNCHANGED <<cid, outcome, events, box>>
  BY DEF Execute, Spawn
<1>2. \A op, m : Asked(op, m)' <=> Asked(op, m) \/ (op = "create" /\ m = l)
  BY <1>1, RequestIs DEF Asked
<1>3. Types'
  BY <1>1, RequestIs DEF SandboxInv, Types, Stages, Active, Clients
<1>4. OwnRequests'
  <2>1. Request("create", l, l).target = Request("create", l, l).by
    BY RequestIs
  <2> QED
    BY <1>1, <2>1 DEF SandboxInv, OwnRequests
<1>5. LeaseInv(l)'
  <2>1. Unspawned(l) /\ CreatedOnce(l) /\ CleanedUp(l) /\ client[l] = "none"
    BY <1>1 DEF SandboxInv, Unspawned
  <2>2. /\ pc'[l] = "running" /\ client'[l] = "creating" /\ ~cid'[l] /\ box'.lease # l
        /\ events'[l] = events[l]
    BY <1>1, <2>1 DEF SandboxInv, Types, Unspawned
  <2>3. ~Asked("start", l)'
    BY <1>2, <2>1 DEF Unspawned, CreatedOnce
  <2>4. events[l] \cap {"started", "stopped"} = {}
    BY <2>1 DEF Unspawned, CleanedUp
  <2> QED
    BY <2>2, <2>3, <2>4 DEF LeaseInv, Unspawned, CreatedOnce, CleanedUp
<1>6. \A m \in Lease \ {l} : Follows(m)
  BY <1>1, <1>2 DEF Follows, SandboxInv, Types
<1> QED
  BY <1>3, <1>4, <1>5, <1>6, FollowsKeeps DEF SandboxInv, LeaseInv

LEMMA ExecuteFailsStep ==
  ASSUME SandboxInv, NEW l \in Lease, ExecuteFails(l)
  PROVE  SandboxInv'
<1>1. /\ pc[l] = "ready" /\ pc' = [pc EXCEPT ![l] = "returned"] /\ Quiet
      /\ outcome' = [outcome EXCEPT ![l] = "error"]
  BY DEF ExecuteFails, Quiet
<1>2. Types' /\ OwnRequests'
  BY <1>1 DEF SandboxInv, Types, Stages, Quiet, OwnRequests
<1>3. LeaseInv(l)'
  BY <1>1 DEF SandboxInv, LeaseInv, Types, Unspawned, CreatedOnce, CleanedUp, Quiet, Asked
<1>4. \A m \in Lease \ {l} : Follows(m)
  BY <1>1 DEF Follows, SandboxInv, Types, Quiet, Asked
<1> QED
  BY <1>2, <1>3, <1>4, FollowsKeeps DEF SandboxInv, LeaseInv

-----------------------------------------------------------------------------
(* The client's end, and what of the daemon ends it.                       *)
LEMMA SettleKeeps ==
  ASSUME SandboxInv, NEW l \in Lease, NEW result, Settle(l, result),
         client[l] \in {"creating", "starting"},
         UNCHANGED <<cid, box>>, requests' \in SUBSET requests
  PROVE  SandboxInv'
<1>1. Types' /\ OwnRequests'
  BY SettleTypes DEF SandboxInv, Types, OwnRequests
<1>2. \A op, m : Asked(op, m)' => Asked(op, m)
  BY DEF Asked
<1>3. LeaseInv(l)'
  BY <1>2 DEF SandboxInv, LeaseInv, Types, Unspawned, CreatedOnce, CleanedUp, Settle
<1>4. \A m \in Lease \ {l} : Follows(m)
  BY <1>2 DEF Follows, SandboxInv, Types, Settle
<1> QED
  BY <1>1, <1>3, <1>4, FollowsKeeps DEF SandboxInv, LeaseInv

\* The daemon drops or forgets a request, and nothing else happens.
LEMMA ForgetKeeps ==
  ASSUME SandboxInv, UNCHANGED <<pc, client, cid, outcome, events>>, requests' \in SUBSET requests,
         box' \in Boxes, box'.lease \in {box.lease, NoBox.lease},
         box'.lease # NoBox.lease /\ box'.state \in {"running", "ended"}
           => box.state \in {"running", "ended"}
  PROVE  SandboxInv'
<1>1. Types' /\ OwnRequests'
  BY DEF SandboxInv, Types, OwnRequests
<1>2. \A op, m : Asked(op, m)' => Asked(op, m)
  BY DEF Asked
<1>3. \A m \in Lease : Follows(m)
  BY <1>2, BoxTypes DEF Follows
<1> QED
  BY <1>1, <1>3, FollowsKeeps DEF SandboxInv, LeaseInv

\* Asked for a lease other than the one a request names, nothing changes.
LEMMA RequestsChange ==
  ASSUME NEW l, NEW op1,
         \/ requests' = requests \union {Request(op1, l, l)}
         \/ requests' = requests \ {Request(op1, l, l)}
  PROVE  /\ \A op, m : m # l \/ op # op1 => (Asked(op, m)' <=> Asked(op, m))
         /\ requests' = requests \ {Request(op1, l, l)} => ~Asked(op1, l)'
BY RequestIs DEF Asked

LEMMA ClientEnds ==
  ASSUME SandboxInv, NEW l \in Lease, Killed(l) \/ ClientReturns(l)
  PROVE  SandboxInv'
<1>1. /\ client[l] \in {"creating", "starting"} /\ UNCHANGED <<cid, box, requests>>
      /\ Settle(l, "killed") \/ Settle(l, "exited")
  BY DEF Killed, ClientReturns
<1> QED
  BY <1>1, SettleKeeps

LEMMA CreateStep ==
  ASSUME SandboxInv, NEW l \in Lease, Create(l)
  PROVE  SandboxInv'
<1>1. /\ Asked("create", l) /\ UNCHANGED cid
      /\ requests' = requests \ {Request("create", l, l)}
  BY DEF Create, Asked
<1>2. CASE box = NoBox
  <2>1. box' = [lease |-> l, state |-> "created"] /\ UNCHANGED <<pc, client, outcome, events>>
    BY <1>2 DEF Create
  <2>2. Types' /\ OwnRequests'
    BY <1>1, <2>1, BoxTypes DEF SandboxInv, Types, OwnRequests
  <2>3. box'.lease = l /\ box'.state = "created" /\ box.lease \notin Lease
    BY <1>2, <2>1, BoxTypes
  <2>4. LeaseInv(l)'
    <3>1. ~cid[l] /\ client[l] # "none" /\ ~Asked("start", l)
      BY <1>1 DEF SandboxInv, Unspawned, CreatedOnce
    <3>2. ~Asked("create", l)' /\ ~Asked("start", l)'
      BY <1>1, <3>1, RequestsChange
    <3> QED
      BY <1>1, <2>1, <2>3, <3>1, <3>2 DEF SandboxInv, LeaseInv, Unspawned, CreatedOnce, CleanedUp
  <2>5. \A m \in Lease \ {l} : Follows(m)
    <3>1. \A m \in Lease \ {l} : \A op : Asked(op, m)' <=> Asked(op, m)
      BY <1>1, RequestsChange
    <3> QED
      BY <1>1, <2>1, <2>3, <3>1 DEF Follows
  <2> QED
    BY <2>2, <2>4, <2>5, FollowsKeeps DEF SandboxInv, LeaseInv
<1>3. CASE box # NoBox /\ client[l] = "creating"
  <2>1. Settle(l, "infrastructure") /\ UNCHANGED box /\ requests' \in SUBSET requests
    BY <1>1, <1>3 DEF Create
  <2> QED
    BY <1>1, <1>3, <2>1, SettleKeeps
<1>4. CASE box # NoBox /\ client[l] # "creating"
  <2>1. UNCHANGED <<pc, client, cid, outcome, events, box>> /\ requests' \in SUBSET requests
    BY <1>1, <1>4 DEF Create
  <2> QED
    BY <2>1, ForgetKeeps DEF SandboxInv, Types
<1> QED
  BY <1>2, <1>3, <1>4

LEMMA CreatedStep ==
  ASSUME SandboxInv, NEW l \in Lease, Created(l)
  PROVE  SandboxInv'
<1>1. /\ client[l] = "creating" /\ box.lease = l
      /\ cid' = [cid EXCEPT ![l] = TRUE] /\ client' = [client EXCEPT ![l] = "starting"]
      /\ requests' = requests \union {Request("start", l, l)}
      /\ UNCHANGED <<pc, outcome, events, box>>
  BY DEF Created
<1>2. Types' /\ OwnRequests'
  <2>1. Request("start", l, l) \in Requests /\ Request("start", l, l).target = Request("start", l, l).by
    BY RequestIs
  <2> QED
    BY <1>1, <2>1 DEF SandboxInv, Types, OwnRequests, Clients
<1>3. LeaseInv(l)'
  <2>1. /\ Unspawned(l) /\ CreatedOnce(l) /\ CleanedUp(l)
        /\ cid'[l] /\ client'[l] = "starting"
    BY <1>1 DEF SandboxInv, Types
  <2>2. ~Asked("create", l)'
    BY <1>1, <2>1, RequestsChange DEF CreatedOnce
  <2> QED
    BY <1>1, <2>1, <2>2 DEF LeaseInv, Unspawned, CreatedOnce, CleanedUp
<1>4. \A m \in Lease \ {l} : Follows(m)
  <2>1. \A m \in Lease \ {l} : \A op : Asked(op, m)' <=> Asked(op, m)
    BY <1>1, RequestsChange
  <2> QED
    BY <1>1, <2>1 DEF Follows, SandboxInv, Types
<1> QED
  BY <1>2, <1>3, <1>4, FollowsKeeps DEF SandboxInv, LeaseInv

LEMMA StartStep ==
  ASSUME SandboxInv, NEW l \in Lease, StartBox(l)
  PROVE  SandboxInv'
<1>1. /\ Asked("start", l) /\ UNCHANGED cid
      /\ requests' = requests \ {Request("start", l, l)}
  BY DEF StartBox, Asked
<1>2. CASE box.lease = l /\ box' = [box EXCEPT !.state = "running"]
           /\ UNCHANGED <<pc, client, outcome, events>>
  <2>1. box' \in Boxes /\ box'.lease = box.lease
    <3>1. box \in Boxes
      BY DEF SandboxInv, Types
    <3>2. box' \in Boxes
      BY <1>2, <3>1, BoxTypes
    <3> QED
      BY <1>2, <3>1, <3>2 DEF Boxes, NoBox
  <2>2. Types' /\ OwnRequests'
    BY <1>1, <1>2, <2>1 DEF SandboxInv, Types, OwnRequests
  <2>3. LeaseInv(l)'
    <3>1. /\ Unspawned(l) /\ CreatedOnce(l) /\ CleanedUp(l) /\ cid[l]
      BY <1>1 DEF SandboxInv, CreatedOnce
    <3>2. \A op : Asked(op, l)' => Asked(op, l)
      BY <1>1 DEF Asked
    <3> QED
      BY <1>1, <1>2, <2>1, <3>1, <3>2 DEF LeaseInv, Unspawned, CreatedOnce, CleanedUp
  <2>4. \A m \in Lease \ {l} : Follows(m)
    <3>1. \A m \in Lease \ {l} : \A op : Asked(op, m)' => Asked(op, m)
      BY <1>1 DEF Asked
    <3> QED
      BY <1>1, <1>2, <2>1, <3>1 DEF Follows
  <2> QED
    BY <2>2, <2>3, <2>4, FollowsKeeps DEF SandboxInv, LeaseInv
<1>3. CASE client[l] = "starting" /\ UNCHANGED box
           /\ \E result \in {"infrastructure", "exited"} : Settle(l, result)
  BY <1>1, <1>3, SettleKeeps
<1>4. CASE UNCHANGED <<pc, client, outcome, events, box>>
  BY <1>1, <1>4, ForgetKeeps DEF SandboxInv, Types
<1> QED
  BY <1>2, <1>3, <1>4 DEF StartBox

LEMMA DaemonSteps ==
  ASSUME SandboxInv, BoxEnds \/ BoxRemovedByDaemon \/ \E request \in requests : Dropped(request)
  PROVE  SandboxInv'
<1>1. box \in Boxes /\ UNCHANGED <<pc, client, cid, outcome, events>> /\ requests' \in SUBSET requests
  BY DEF SandboxInv, Types, BoxEnds, BoxRemovedByDaemon, Dropped
<1>2. CASE BoxEnds
  <2>1. box.lease \in Lease /\ box.state = "running" /\ box' = [box EXCEPT !.state = "ended"]
    BY <1>1, <1>2, BoxTypes DEF BoxEnds, Boxes
  <2>2. box' \in Boxes
    BY <1>1, <2>1, BoxTypes
  <2>3. box'.lease = box.lease
    BY <1>1, <2>1 DEF Boxes
  <2> QED
    BY <1>1, <2>1, <2>2, <2>3, ForgetKeeps
<1>3. CASE BoxRemovedByDaemon
  <2>1. box' = NoBox
    BY <1>3 DEF BoxRemovedByDaemon
  <2> QED
    BY <1>1, <2>1, BoxTypes, ForgetKeeps
<1>4. CASE \E request \in requests : Dropped(request)
  <2>1. UNCHANGED box
    BY <1>4 DEF Dropped
  <2> QED
    BY <1>1, <2>1, ForgetKeeps
<1> QED
  BY <1>2, <1>3, <1>4

-----------------------------------------------------------------------------
(* The cleanup.                                                            *)
LEMMA CleanupSteps ==
  ASSUME SandboxInv, NEW l \in Lease, Cleanup(l) \/ CleanupFails(l) \/ Inspected(l)
  PROVE  SandboxInv'
<1>1. /\ pc[l] \in {"cleaning", "inspecting", "removing"}
      /\ UNCHANGED <<client, cid, outcome, box>>
      /\ requests' \in {requests, requests \union {Request("remove", l, l)}}
  BY DEF Cleanup, CleanupFails, Inspected, Remove
<1>2. /\ pc' \in [Lease -> Stages] /\ \A m \in Lease \ {l} : pc'[m] = pc[m]
      /\ pc'[l] \in {"inspecting", "removing", "unverified", "returned"}
      /\ pc'[l] = "inspecting" => ~cid[l]
      /\ pc'[l] = "returned" => box = NoBox
  BY DEF Cleanup, CleanupFails, Inspected, Remove, Cleaned, SandboxInv, Types, Stages, Active
<1>3. events' = events
  <2>1. CASE Inspected(l) /\ box = NoBox
    <3>1. ~cid[l] /\ "started" \notin events[l]
      BY <2>1 DEF Inspected, SandboxInv, CleanedUp
    <3> QED
      BY <2>1, <3>1 DEF Inspected, Cleaned
  <2>2. CASE ~(Inspected(l) /\ box = NoBox)
    BY <2>2 DEF Cleanup, CleanupFails, Inspected
  <2> QED
    BY <2>1, <2>2
<1>4. Types' /\ OwnRequests'
  <2>1. Request("remove", l, l) \in Requests /\ Request("remove", l, l).target = Request("remove", l, l).by
    BY RequestIs
  <2> QED
    BY <1>1, <1>2, <1>3, <2>1 DEF SandboxInv, Types, OwnRequests
<1>5. \A m \in Lease : \A op : op # "remove" => (Asked(op, m)' <=> Asked(op, m))
  BY <1>1, RequestIs DEF Asked
<1>6. LeaseInv(l)'
  BY <1>1, <1>2, <1>3, <1>5, BoxTypes DEF SandboxInv, LeaseInv, Unspawned, CreatedOnce, CleanedUp
<1>7. \A m \in Lease \ {l} : LeaseInv(m)'
  BY <1>1, <1>2, <1>3, <1>5 DEF SandboxInv, LeaseInv, Unspawned, CreatedOnce, CleanedUp
<1> QED
  BY <1>4, <1>6, <1>7 DEF SandboxInv, LeaseInv

LEMMA RemovedStep ==
  ASSUME SandboxInv, NEW request \in requests, Removed(request)
  PROVE  SandboxInv'
<1> DEFINE l == request.by
<1>1. l \in Lease /\ request.target = l
  BY DEF SandboxInv, Types, OwnRequests, Requests
<1>2. /\ requests' \in SUBSET requests /\ UNCHANGED <<client, cid, outcome>>
      /\ box' = (IF box.lease = l THEN NoBox ELSE box)
  BY <1>1 DEF Removed
<1>3. box' \in Boxes /\ box'.lease # l /\ \A m \in Lease : box'.lease = m => box' = box
  BY <1>1, <1>2, BoxTypes DEF SandboxInv, Types
<1>4. \A m, op : Asked(op, m)' => Asked(op, m)
  BY <1>2 DEF Asked
<1>5. CASE pc[l] = "removing"
  <2>1. Cleaned(l)
    BY <1>5 DEF Removed
  <2>2. Types' /\ OwnRequests'
    BY <1>1, <1>2, <1>3, <2>1, CleanedTypes DEF SandboxInv, Types, OwnRequests
  <2>3. /\ pc'[l] = "returned" /\ \A m \in Lease \ {l} : pc'[m] = pc[m] /\ events'[m] = events[m]
        /\ events'[l] = events[l] \/ ("started" \in events[l] /\ events'[l] = events[l] \union {"stopped"})
    BY <1>1, <2>1 DEF Cleaned, SandboxInv, Types
  <2>4. LeaseInv(l)'
    BY <1>1, <1>2, <1>3, <1>4, <1>5, <2>3 DEF SandboxInv, LeaseInv, Unspawned, CreatedOnce, CleanedUp
  <2>5. \A m \in Lease \ {l} : Follows(m)
    BY <1>2, <1>3, <1>4, <2>3 DEF Follows
  <2> QED
    BY <2>2, <2>4, <2>5, FollowsKeeps DEF SandboxInv, LeaseInv
<1>6. CASE pc[l] # "removing"
  <2>1. UNCHANGED <<pc, events>>
    BY <1>6 DEF Removed
  <2>2. Types' /\ OwnRequests'
    BY <1>2, <1>3, <2>1 DEF SandboxInv, Types, OwnRequests
  <2>3. \A m \in Lease : Follows(m)
    BY <1>2, <1>3, <1>4, <2>1 DEF Follows
  <2> QED
    BY <2>2, <2>3, FollowsKeeps DEF SandboxInv, LeaseInv
<1> QED
  BY <1>5, <1>6

-----------------------------------------------------------------------------
LEMMA SandboxInvInit == Init => SandboxInv
BY BoxTypes DEF Init, SandboxInv, Types, OwnRequests, Unspawned, CreatedOnce, CleanedUp, Asked,
                Stages, Active, Clients

LEMMA SandboxInvStep == SandboxInv /\ [Next]_vars => SandboxInv'
<1> SUFFICES ASSUME SandboxInv, [Next]_vars
             PROVE  SandboxInv'
  OBVIOUS
<1>1. CASE UNCHANGED <<pc, client, cid, outcome, events, box, requests>>
  BY <1>1, ForgetKeeps DEF SandboxInv, Types
<1>2. ASSUME NEW l \in Lease,
             \/ \E p \in Process : Begin(l, p)
             \/ DecideNext(l) \/ PlanReady(l) \/ PlanRefused(l)
      PROVE  SandboxInv'
  BY <1>2, PlanSteps
<1>3. ASSUME NEW l \in Lease, Execute(l) \/ ExecuteFails(l)
      PROVE  SandboxInv'
  BY <1>3, ExecuteStep, ExecuteFailsStep
<1>4. ASSUME NEW l \in Lease, Killed(l) \/ ClientReturns(l) \/ Create(l) \/ Created(l) \/ StartBox(l)
      PROVE  SandboxInv'
  BY <1>4, ClientEnds, CreateStep, CreatedStep, StartStep
<1>5. ASSUME NEW l \in Lease, Cleanup(l) \/ CleanupFails(l) \/ Inspected(l)
      PROVE  SandboxInv'
  BY <1>5, CleanupSteps
<1>6. ASSUME NEW request \in requests, Dropped(request) \/ Removed(request)
      PROVE  SandboxInv'
  BY <1>6, DaemonSteps, RemovedStep
<1>7. CASE BoxEnds \/ BoxRemovedByDaemon
  BY <1>7, DaemonSteps
<1>8. CASE \E p \in Process : Crash(p)
  BY <1>8, CrashStep
<1> QED
  BY <1>1, <1>2, <1>3, <1>4, <1>5, <1>6, <1>7, <1>8 DEF Next, vars

\* What the invariant says of what StoppedMeansGone and NothingRunsAfterReturn
\* are about.
LEMMA InvTells == SandboxInv => StoppedMeansGone /\ NothingRunsAfterReturn
BY DEF SandboxInv, CreatedOnce, CleanedUp, StoppedMeansGone, NothingRunsAfterReturn, Asked

LEMMA InvAlways == Spec => []SandboxInv
<1>1. Init => SandboxInv
  BY SandboxInvInit
<1>2. SandboxInv /\ [Next]_vars => SandboxInv'
  BY SandboxInvStep
<1> QED
  BY <1>1, <1>2, PTL DEF Spec

(* sandbox.stopped of cleanupContainer tells the truth, for any number of  *)
(* calls and processes: the container is gone and no request for it is on  *)
(* its way.                                                                *)
THEOREM StoppedCorrect == Spec => []StoppedMeansGone
<1>1. SandboxInv => StoppedMeansGone
  BY InvTells
<1> QED
  BY <1>1, InvAlways, PTL

(* A runSandbox that returned leaves nothing running, whatever of its      *)
(* client's requests the daemon serves after the client was killed.        *)
THEOREM ReturnCorrect == Spec => []NothingRunsAfterReturn
<1>1. SandboxInv => NothingRunsAfterReturn
  BY InvTells
<1> QED
  BY <1>1, InvAlways, PTL

-----------------------------------------------------------------------------
LEMMA RemovalStep ==
  ASSUME SandboxInv, [Next]_vars, box.state = "running", box'.lease # box.lease
  PROVE  Asked("remove", box.lease)
<1>1. box # NoBox /\ box \in Boxes /\ box' # box
  BY BoxTypes DEF SandboxInv, Types
<1>2. ASSUME NEW l \in Lease, StartBox(l)
      PROVE  FALSE
  <2>1. box' = box \/ box' = [box EXCEPT !.state = "running"]
    BY <1>2 DEF StartBox
  <2> QED
    BY <1>1, <2>1 DEF Boxes, NoBox
<1>3. CASE BoxEnds
  <2>1. box'.lease = box.lease
    BY <1>1, <1>3 DEF BoxEnds, Boxes, NoBox
  <2> QED
    BY <2>1
<1>4. ~BoxRemovedByDaemon
  BY DEF BoxRemovedByDaemon
<1>5. ASSUME NEW request \in requests, Removed(request)
      PROVE  Asked("remove", box.lease)
  <2>1. request.op = "remove" /\ box.lease = request.target
    BY <1>1, <1>5 DEF Removed
  <2>2. request.by = request.target /\ request \in Requests
    BY DEF SandboxInv, Types, OwnRequests
  <2>3. request = Request("remove", box.lease, box.lease)
    BY <2>1, <2>2, RequestIs
  <2> QED
    BY <2>3 DEF Asked
<1>6. ASSUME NEW l \in Lease,
             \/ \E p \in Process : Begin(l, p)
             \/ DecideNext(l) \/ PlanReady(l) \/ PlanRefused(l) \/ Execute(l) \/ ExecuteFails(l)
             \/ Killed(l) \/ Create(l) \/ Created(l) \/ ClientReturns(l)
             \/ Cleanup(l) \/ Inspected(l) \/ CleanupFails(l)
      PROVE  FALSE
  <2>1. UNCHANGED box
    BY <1>1, <1>6 DEF Begin, DecideNext, PlanReady, PlanRefused, Execute, Spawn, ExecuteFails, Killed,
                      Create, Created, ClientReturns, Cleanup, Inspected, CleanupFails
  <2> QED
    BY <1>1, <2>1
<1>7. ASSUME NEW request \in requests, Dropped(request)
      PROVE  FALSE
  BY <1>1, <1>7 DEF Dropped
<1>8. ~(\E p \in Process : Crash(p)) /\ ~(UNCHANGED vars)
      /\ ~(Disturb /\ UNCHANGED <<pc, process, decided, mounts, root, client, cid, outcome, events, box, requests>>)
  BY <1>1 DEF Crash, vars
<1> QED
  BY <1>2, <1>3, <1>4, <1>5, <1>6, <1>7, <1>8 DEF Next

(* The container of a call is taken away from it only on the call's own    *)
(* request, however many calls of however many processes meet at the name. *)
THEOREM RemovalCorrect == Spec => OnlyOwnRemoved
<1>1. SandboxInv /\ [Next]_vars
        => [box.state = "running" /\ box'.lease # box.lease
              => Request("remove", box.lease, box.lease) \in requests]_vars
  BY RemovalStep DEF Asked
<1> QED
  BY <1>1, InvAlways, PTL DEF Spec, OnlyOwnRemoved

-----------------------------------------------------------------------------
(* A client is spawned by Execute and nothing else.                        *)
LEMMA SpawnStep ==
  ASSUME SandboxInv, [Next]_vars, NEW l \in Lease, client[l] = "none", client'[l] # "none"
  PROVE  Execute(l)
<1> USE DEF SandboxInv, Types
<1>1. ASSUME NEW m \in Lease, NEW result, Settle(m, result), client[m] \in {"creating", "starting"}
      PROVE  FALSE
  BY <1>1 DEF Settle
<1>2. ASSUME NEW m \in Lease, Killed(m) \/ ClientReturns(m)
      PROVE  FALSE
  BY <1>1, <1>2 DEF Killed, ClientReturns
<1>3. ASSUME NEW m \in Lease, Create(m)
      PROVE  FALSE
  <2>1. UNCHANGED client \/ (client[m] = "creating" /\ Settle(m, "infrastructure"))
    BY <1>3 DEF Create
  <2> QED
    BY <1>1, <2>1
<1>4. ASSUME NEW m \in Lease, StartBox(m)
      PROVE  FALSE
  <2>1. \/ UNCHANGED client
        \/ client[m] = "starting" /\ \E result \in {"infrastructure", "exited"} : Settle(m, result)
    BY <1>4 DEF StartBox
  <2> QED
    BY <1>1, <2>1
<1>5. ASSUME NEW m \in Lease, Created(m)
      PROVE  FALSE
  BY <1>5 DEF Created
<1>6. ASSUME NEW m \in Lease,
             \/ \E p \in Process : Begin(m, p)
             \/ DecideNext(m) \/ PlanReady(m) \/ PlanRefused(m) \/ ExecuteFails(m)
             \/ Cleanup(m) \/ Inspected(m) \/ CleanupFails(m)
      PROVE  FALSE
  BY <1>6 DEF Begin, DecideNext, PlanReady, PlanRefused, ExecuteFails, Cleanup, Inspected, CleanupFails
<1>7. ASSUME NEW request \in requests, Dropped(request) \/ Removed(request)
      PROVE  FALSE
  BY <1>7 DEF Dropped, Removed
<1>8. /\ ~BoxEnds /\ ~BoxRemovedByDaemon /\ ~(\E p \in Process : Crash(p)) /\ ~(UNCHANGED vars)
      /\ ~(Disturb /\ UNCHANGED <<pc, process, decided, mounts, root, client, cid, outcome, events, box, requests>>)
  BY DEF BoxEnds, BoxRemovedByDaemon, Crash, vars
<1>9. PICK m \in Lease : Execute(m)
  BY <1>2, <1>3, <1>4, <1>5, <1>6, <1>7, <1>8 DEF Next
<1>10. m = l
  BY <1>9 DEF Execute, Spawn
<1> QED
  BY <1>9, <1>10

LEMMA RevalidatedIsBound ==
  ASSUME NEW decision, NEW found, NEW places, Revalidated(found, places)
  PROVE  LET bound == Bound(decision, found, places)
         IN  \A path \in DOMAIN bound : tree[path] = bound[path]
<1>1. tree[Root] = found /\ \A path \in Allowed : tree[path] = places[path]
  BY DEF Revalidated, Mounts
<1> QED
  BY <1>1 DEF Bound

(* What a plan has decided, from its first decision on.                    *)
PlanInv ==
  /\ DOMAIN decided = Lease /\ DOMAIN pc = Lease
  /\ \A l \in Lease :
       /\ pc[l] \in {"new", "planning"} =>
            decided[l] = << >> \/ "process.exec" \in DOMAIN decided[l]
       /\ pc[l] = "ready" => "process.exec" \in DOMAIN decided[l] /\ Representable(decided[l])

LEMMA DecisionsAre == Len(Decisions) >= 3 /\ Decisions[1] = "process.exec"
<1> DEFINE first == <<"process.exec", "fs.read">>  last == <<"network">>
<1>1. AllowedPaths \in Seq(Allowed)
  BY PlanAssumption
<1>2. AllowedPaths \in Seq(Allowed \union {"process.exec", "fs.read", "network"})
  BY <1>1
<1> QED
  BY <1>2 DEF Decisions

LEMMA PlanStep ==
  ASSUME PlanInv, NEW l \in Lease, DecideNext(l)
  PROVE  PlanInv'
<1> DEFINE next == Decisions[Cardinality(DOMAIN decided[l]) + 1]
<1>1. PICK effect : decided' = [decided EXCEPT ![l] =
                      [d \in DOMAIN decided[l] \union {next} |-> IF d = next THEN effect ELSE decided[l][d]]]
  BY DEF DecideNext
<1> DEFINE more == [d \in DOMAIN decided[l] \union {next} |-> IF d = next THEN effect ELSE decided[l][d]]
<1>2. pc' = pc /\ pc[l] = "planning" /\ DOMAIN decided' = Lease /\ decided'[l] = more
      /\ \A m \in Lease \ {l} : decided'[m] = decided[m]
  BY <1>1 DEF DecideNext, PlanInv
<1>3. DOMAIN more = {next} \union DOMAIN decided[l]
  OBVIOUS
<1>4. decided[l] = << >> => next = "process.exec"
  <2>1. ASSUME decided[l] = << >> PROVE DOMAIN decided[l] = {}
    BY <2>1
  <2>2. Cardinality({}) = 0
    BY FS_EmptySet
  <2> QED
    BY <2>1, <2>2, DecisionsAre
<1> HIDE DEF next, more
<1>5. "process.exec" \in DOMAIN decided'[l]
  BY <1>2, <1>3, <1>4 DEF PlanInv
<1> QED
  BY <1>2, <1>5 DEF PlanInv

LEMMA ReadyStep ==
  ASSUME PlanInv, NEW l \in Lease, PlanReady(l)
  PROVE  PlanInv'
<1>1. /\ pc[l] = "planning" /\ pc' = [pc EXCEPT ![l] = "ready"] /\ decided' = decided
      /\ Cardinality(DOMAIN decided[l]) = Len(Decisions) /\ Representable(decided[l])
  BY DEF PlanReady
<1>2. decided[l] # << >>
  <2>1. ASSUME decided[l] = << >> PROVE DOMAIN decided[l] = {}
    BY <2>1
  <2>2. Cardinality({}) = 0
    BY FS_EmptySet
  <2> QED
    BY <1>1, <2>1, <2>2, DecisionsAre
<1> QED
  BY <1>1, <1>2 DEF PlanInv, Representable

\* A call whose plan is discarded, or that leaves the plan alone, and does not
\* come to be planned by the step.
LEMMA PlanKept ==
  ASSUME PlanInv, DOMAIN decided' = Lease, DOMAIN pc' = Lease,
         \A l \in Lease :
           \/ decided'[l] = decided[l] /\ (pc'[l] = pc[l] \/ (pc[l] = "new" /\ pc'[l] = "planning"))
           \/ pc'[l] \notin {"new", "planning", "ready"}
           \/ decided'[l] = << >> /\ pc'[l] = pc[l] /\ pc[l] # "ready"
  PROVE  PlanInv'
BY DEF PlanInv, Representable

LEMMA SettlePlan ==
  ASSUME PlanInv, NEW l \in Lease, NEW result, Settle(l, result), decided' = decided
  PROVE  PlanInv'
<1>1. DOMAIN pc' = Lease /\ \A m \in Lease : pc'[m] = pc[m] \/ pc'[m] = "cleaning"
  BY DEF Settle, PlanInv
<1> QED
  BY <1>1, PlanKept DEF PlanInv

LEMMA PlanInvStep == PlanInv /\ [Next]_vars => PlanInv'
<1> SUFFICES ASSUME PlanInv, [Next]_vars PROVE PlanInv'
  OBVIOUS
<1>1. ASSUME NEW l \in Lease, DecideNext(l) \/ PlanReady(l)
      PROVE  PlanInv'
  BY <1>1, PlanStep, ReadyStep
<1>2. ASSUME NEW l \in Lease, NEW p \in Process, Begin(l, p)
      PROVE  PlanInv'
  BY <1>2, PlanKept DEF Begin, PlanInv
<1>3. ASSUME NEW l \in Lease, PlanRefused(l) \/ ExecuteFails(l) \/ Execute(l)
      PROVE  PlanInv'
  <2>1. /\ DOMAIN decided' = Lease /\ DOMAIN pc' = Lease
        /\ \A m \in Lease \ {l} : decided'[m] = decided[m] /\ pc'[m] = pc[m]
        /\ pc'[l] \in {"refused", "returned", "running"}
    BY <1>3 DEF PlanRefused, ExecuteFails, Execute, Spawn, Discard, PlanInv
  <2> QED
    BY <2>1, PlanKept DEF PlanInv
<1>4. ASSUME NEW l \in Lease, Killed(l) \/ ClientReturns(l)
      PROVE  PlanInv'
  BY <1>4, SettlePlan DEF Killed, ClientReturns
<1>5. ASSUME NEW l \in Lease, Create(l) \/ Created(l) \/ StartBox(l)
      PROVE  PlanInv'
  <2>1. decided' = decided /\ (pc' = pc \/ \E result : Settle(l, result))
    BY <1>5 DEF Create, Created, StartBox
  <2> QED
    BY <2>1, SettlePlan, PlanKept DEF PlanInv
<1>6. ASSUME NEW l \in Lease, Cleanup(l) \/ Inspected(l) \/ CleanupFails(l)
      PROVE  PlanInv'
  <2>1. decided' = decided /\ DOMAIN pc' = Lease
        /\ \A m \in Lease : pc'[m] = pc[m] \/ pc'[m] \notin {"new", "planning", "ready"}
    BY <1>6 DEF Cleanup, Inspected, CleanupFails, Remove, Cleaned, PlanInv
  <2> QED
    BY <2>1, PlanKept DEF PlanInv
<1>7. ASSUME NEW request \in requests, Dropped(request) \/ Removed(request)
      PROVE  PlanInv'
  <2>1. decided' = decided /\ DOMAIN pc' = Lease
        /\ \A m \in Lease : pc'[m] = pc[m] \/ pc'[m] = "returned"
    BY <1>7 DEF Dropped, Removed, Cleaned, PlanInv
  <2> QED
    BY <2>1, PlanKept DEF PlanInv
<1>8. ASSUME NEW p \in Process, Crash(p)
      PROVE  PlanInv'
  <2>1. /\ DOMAIN decided' = Lease /\ DOMAIN pc' = Lease
        /\ \A m \in Lease :
             \/ pc'[m] = pc[m] /\ process[m] = p /\ pc[m] \notin Active /\ decided'[m] = << >>
             \/ pc'[m] = pc[m] /\ decided'[m] = decided[m]
             \/ pc'[m] = "crashed"
    BY <1>8 DEF Crash, Discard, PlanInv
  <2> QED
    BY <2>1, PlanKept DEF Active, PlanInv
<1>9. CASE BoxEnds \/ BoxRemovedByDaemon \/ UNCHANGED vars
           \/ (Disturb /\ UNCHANGED <<pc, process, decided, mounts, root, client, cid, outcome, events, box, requests>>)
  <2>1. decided' = decided /\ pc' = pc
    BY <1>9 DEF BoxEnds, BoxRemovedByDaemon, vars
  <2> QED
    BY <2>1, PlanKept DEF PlanInv
<1> QED
  BY <1>1, <1>2, <1>3, <1>4, <1>5, <1>6, <1>7, <1>8, <1>9 DEF Next

LEMMA PlanAlways == Spec => []PlanInv
<1>1. Init => PlanInv
  BY DEF Init, PlanInv
<1>2. PlanInv /\ [Next]_vars => PlanInv'
  BY PlanInvStep
<1> QED
  BY <1>1, <1>2, PTL DEF Spec

(* A container is started for an allowed command, it is given nothing to   *)
(* write that it may not read, its writable paths are those the plan began *)
(* with and its root the one the plan was completed with, for any rules    *)
(* and paths and any number of changes to them meanwhile.                  *)
THEOREM SpawnCorrect == Spec => SpawnedAsPlanned
<1> DEFINE Planned(l) ==
             /\ decided[l]["process.exec"] = "allow"
             /\ \A path \in Allowed \cap DOMAIN decided[l] :
                  decided[l][path] = "allow" => decided[l]["fs.read"] = "allow"
             /\ LET bound == Bound(decided[l], root[l], mounts[l])
                IN  \A path \in DOMAIN bound : tree[path] = bound[path]
           Step == \A l \in Lease : client[l] = "none" /\ client'[l] # "none" => Planned(l)
<1>1. ASSUME SandboxInv, PlanInv, [Next]_vars, NEW l \in Lease, client[l] = "none", client'[l] # "none"
      PROVE  Planned(l)
  <2>1. pc[l] = "ready" /\ Revalidated(root[l], mounts[l])
    BY <1>1, SpawnStep DEF Execute
  <2>2. "process.exec" \in DOMAIN decided[l] /\ Representable(decided[l])
    BY <1>1, <2>1 DEF PlanInv
  <2>3. LET bound == Bound(decided[l], root[l], mounts[l])
        IN  \A path \in DOMAIN bound : tree[path] = bound[path]
    BY <2>1, RevalidatedIsBound
  <2> QED
    BY <2>2, <2>3 DEF Representable
<1>2. SandboxInv /\ PlanInv /\ [Next]_vars => [Step]_vars
  BY <1>1
<1> HIDE DEF Step
<1>3. Spec => [][Step]_vars
  BY <1>2, InvAlways, PlanAlways, PTL DEF Spec
<1> QED
  BY <1>3 DEF SpawnedAsPlanned, Step

-----------------------------------------------------------------------------
(* What the rules of a plan decide.                                        *)

\* How far a pattern is from the longest and strictest there could be.
Distance(p, longest) == 3 * (longest - p.score) + (2 - Rank(p.effect))

\* One of the patterns that match is not worse than any other.
LEMMA BestExists ==
  ASSUME NEW longest \in Nat, NEW rule, NEW subject,
         \A p \in rule.patterns : p.score \in 0 .. longest,
         Matching(rule, subject) # {}
  PROVE  /\ BestMatch(rule, subject) \in Matching(rule, subject)
         /\ \A q \in Matching(rule, subject) : ~Better(q, BestMatch(rule, subject))
<1> DEFINE M == Matching(rule, subject)
           Distances == {Distance(p, longest) : p \in M}
<1>1. \A p \in M : p.score \in 0 .. longest /\ Rank(p.effect) \in 0 .. 2
  BY DEF Matching, Rank
<1>2. ASSUME NEW p \in M, NEW q \in M
      PROVE  /\ Distance(p, longest) \in Nat /\ Distance(q, longest) \in Nat
             /\ Better(q, p) => Distance(q, longest) < Distance(p, longest)
  <2>1. ASSUME NEW a \in 0 .. longest, NEW b \in 0 .. longest, NEW r \in 0 .. 2, NEW t \in 0 .. 2
        PROVE  /\ 3 * (longest - a) + (2 - r) \in Nat
               /\ b > a \/ (b = a /\ t > r) => 3 * (longest - b) + (2 - t) < 3 * (longest - a) + (2 - r)
    OBVIOUS
  <2>2. /\ p.score \in 0 .. longest /\ q.score \in 0 .. longest
        /\ Rank(p.effect) \in 0 .. 2 /\ Rank(q.effect) \in 0 .. 2
    BY <1>1
  <2> QED
    BY <2>1, <2>2 DEF Distance, Better
<1>3. Distances \in SUBSET Nat /\ Distances # {}
  BY <1>2
<1>4. PICK least \in Distances : \A other \in Distances : <<other, least>> \notin OpToRel(<, Nat)
  BY <1>3, NatLessThanWellFounded, WFMin
<1>5. PICK p \in M : least = Distance(p, longest)
  OBVIOUS
<1>6. \A q \in M : ~(Distance(q, longest) < Distance(p, longest))
  BY <1>2, <1>4, <1>5 DEF OpToRel
<1>7. \A q \in M : ~Better(q, p)
  BY <1>2, <1>6
<1> QED
  BY <1>7 DEF BestMatch

\* Whatever the rules and in whatever order they are written, what is decided
\* about a subject is the effect of a longest pattern that matches it, and what
\* one of those denies is never allowed, nor asked about (packages/policy).
THEOREM StrictestDecides ==
  ASSUME NEW longest \in Nat, NEW rule, NEW subject, rule.kind = "subjects",
         \A p \in rule.patterns : p.score \in 0 .. longest /\ p.effect \in {"allow", "ask", "deny"},
         Matching(rule, subject) # {}
  PROVE  \E p \in Matching(rule, subject) :
           /\ Decide(rule, subject) = p.effect
           /\ \A q \in Matching(rule, subject) :
                /\ q.score <= p.score
                /\ q.score = p.score /\ q.effect = "deny" => Decide(rule, subject) = "deny"
                /\ q.score = p.score /\ q.effect = "ask" => Decide(rule, subject) # "allow"
<1>1. PICK p \in Matching(rule, subject) :
        p = BestMatch(rule, subject) /\ \A q \in Matching(rule, subject) : ~Better(q, p)
  BY BestExists
<1>2. Decide(rule, subject) = p.effect
  BY <1>1 DEF Decide
<1>3. ASSUME NEW q \in Matching(rule, subject)
      PROVE  /\ q.score <= p.score
             /\ q.score = p.score /\ q.effect = "deny" => p.effect = "deny"
             /\ q.score = p.score /\ q.effect = "ask" => p.effect # "allow"
  <2>1. /\ p.score \in 0 .. longest /\ q.score \in 0 .. longest
        /\ p.effect \in {"allow", "ask", "deny"} /\ q.effect \in {"allow", "ask", "deny"}
    BY DEF Matching
  <2>2. ~(q.score > p.score) /\ ~(q.score = p.score /\ Rank(q.effect) > Rank(p.effect))
    BY <1>1 DEF Better
  <2> QED
    BY <2>1, <2>2 DEF Rank
<1> QED
  BY <1>2, <1>3
=============================================================================
