---------------------------- MODULE RunScheduler ----------------------------
(***************************************************************************)
(* The control plane's run scheduler (services/control-plane): a run is    *)
(* enqueued, leased to a worker under a fencing token, started, kept alive *)
(* by heartbeats, and completed, canceled, requeued or quarantined.  The   *)
(* module follows InMemoryControlPlaneRepository, whose methods contain no *)
(* await and are therefore atomic, and the Scheduler in front of it, which *)
(* reads the clock once per call.                                          *)
(*                                                                         *)
(* The workers are outside the code: a worker may present any lease it was *)
(* ever granted, at any later time and any number of times, which covers   *)
(* delayed, retried and duplicated requests, lost responses (a grant never *)
(* used) and crashed workers (a grant used no more).  An operator may name *)
(* any version of a run that was ever current.                             *)
(***************************************************************************)
EXTENDS Integers, Sequences, FiniteSets

CONSTANTS
  RunId,          \* run ids, naturals: the claim order breaks ties by id
  Worker,         \* worker ids
  Priority,       \* the priorities runs are enqueued with
  CompletionKey,  \* completion idempotency keys
  ReportPath,     \* report paths a completion may name
  LeaseMs,        \* lease durations a worker may ask for, in clock ticks
  None,           \* an absent optional field
  MaxTime,        \* bound: the clock stops here
  MaxVersion      \* bound: no heartbeat once a run's version reaches this

ASSUME SchedulerAssumption ==
  /\ RunId \subseteq Nat
  /\ Priority \subseteq Int
  /\ LeaseMs \subseteq Nat \ {0}
  /\ MaxTime \in Nat
  /\ MaxVersion \in Nat
  /\ None \notin Nat
  /\ None \notin Worker
  /\ None \notin CompletionKey

VARIABLES
  runs,       \* the control_runs table: run id -> record
  outbox,     \* per run, its events in outbox order
  now,        \* the scheduler's clock
  nextLease,  \* the next lease id newId("lease") returns
  granted,    \* every lease identity a claim has returned to a worker
  executed    \* lease identities whose worker was told the run is running

vars == <<runs, outbox, now, nextLease, granted, executed>>

-----------------------------------------------------------------------------
(* Run records and the transition table.                                   *)

Terminal == {"passed", "failed", "blocked", "canceled"}
Active == {"leased", "running"}
Status == {"absent", "queued", "indeterminate"} \cup Active \cup Terminal

Time == Nat
Lease == [runId : RunId, workerId : Worker, leaseId : Nat, fencingToken : Nat]
Run == [status         : Status,
        priority       : Priority \cup {None},
        attempt        : Nat,
        workerId       : Worker \cup {None},
        leaseId        : Nat \cup {None},
        fencingToken   : Nat,
        leaseExpiresAt : Time \cup {None},
        queuedAt       : Time,
        started        : BOOLEAN,   \* startedAt is set
        finished       : BOOLEAN,   \* finishedAt is set
        completionKey  : CompletionKey \cup {None},
        reportPath     : ReportPath \cup {None},
        version        : Nat]

\* The row constraint of migration 001.
LeaseColumns(run) ==
  IF run.status \in Active
    THEN run.workerId \in Worker /\ run.leaseId \in Nat /\ run.leaseExpiresAt \in Time
    ELSE run.workerId = None /\ run.leaseId = None /\ run.leaseExpiresAt = None

Change == {"scheduled", "leased", "started", "heartbeat", "completed", "canceled",
           "lease_expired_requeued", "lease_expired_indeterminate", "reconciled"}
Event == [change : Change, status : Status, previousStatus : Status,
          version : Nat, attempt : Nat, fencingToken : Nat]

NoRun == [status |-> "absent", priority |-> None, attempt |-> 0, workerId |-> None,
          leaseId |-> None, fencingToken |-> 0, leaseExpiresAt |-> None, queuedAt |-> 0,
          started |-> FALSE, finished |-> FALSE, completionKey |-> None,
          reportPath |-> None, version |-> 0]

Transitions(from) ==
  CASE from = "queued"        -> {"leased", "canceled"}
    [] from = "leased"        -> {"queued", "running", "canceled"}
    [] from = "running"       -> {"passed", "failed", "blocked", "canceled", "indeterminate"}
    [] from = "indeterminate" -> {"queued", "canceled"}
    [] OTHER                  -> {}

\* Mutant: the state gate is not consulted.
TransitionUnchecked(from, to) == TRUE

CanTransition(from, to) == from = to \/ to \in Transitions(from)

-----------------------------------------------------------------------------
(* Pure steps on one record, and the event each of them enqueues.          *)

\* Mutant: the expiry outlives the lease.
WithoutHolder(run) == [run EXCEPT !.workerId = None, !.leaseId = None]

WithoutLease(run) ==
  [run EXCEPT !.workerId = None, !.leaseId = None, !.leaseExpiresAt = None]

Expired(run) == run.leaseExpiresAt = None \/ run.leaseExpiresAt <= now

SameLease(run, l) ==
  /\ run.workerId = l.workerId
  /\ run.leaseId = l.leaseId
  /\ run.fencingToken = l.fencingToken

Enqueued(run, p) ==
  [run EXCEPT !.status = "queued", !.priority = p, !.attempt = 1, !.queuedAt = now,
              !.version = 1]

\* Mutant: every claim hands out the fencing token the run already had.
LeasedSameToken(run, w, ms) ==
  [run EXCEPT !.status = "leased", !.workerId = w, !.leaseId = nextLease,
              !.leaseExpiresAt = now + ms, !.version = @ + 1]

Leased(run, w, ms) ==
  [run EXCEPT !.status = "leased", !.workerId = w, !.leaseId = nextLease,
              !.fencingToken = @ + 1, !.leaseExpiresAt = now + ms,
              !.version = @ + 1]

Started(run) == [run EXCEPT !.status = "running", !.started = TRUE, !.version = @ + 1]

\* Mutant: a heartbeat extends the lease without a new version.
HeartbeatNoVersion(run, ms) == [run EXCEPT !.leaseExpiresAt = now + ms]

Heartbeat(run, ms) == [run EXCEPT !.leaseExpiresAt = now + ms, !.version = @ + 1]

Finished(run, status, key, path) ==
  [WithoutLease(run) EXCEPT !.status = status, !.completionKey = key,
                            !.reportPath = path, !.finished = TRUE,
                            !.version = @ + 1]

Canceled(run) ==
  [WithoutLease(run) EXCEPT !.status = "canceled", !.finished = TRUE, !.version = @ + 1]

\* lease_expired_requeued: work that never started goes back to the queue.
Requeued(run) ==
  [WithoutLease(run) EXCEPT !.status = "queued", !.attempt = @ + 1, !.queuedAt = now,
                            !.version = @ + 1]

\* Mutant: started work goes back to the queue as well.
QuarantinedToQueue(run) == Requeued(run)

\* lease_expired_indeterminate: work that started waits for an operator.
Quarantined(run) ==
  [WithoutLease(run) EXCEPT !.status = "indeterminate", !.version = @ + 1]

\* Reconciliation by retry forgets what the interrupted attempt recorded.
Retried(run) ==
  [WithoutLease(run) EXCEPT !.status = "queued", !.attempt = @ + 1, !.queuedAt = now,
                            !.started = FALSE, !.finished = FALSE,
                            !.completionKey = None, !.reportPath = None,
                            !.version = @ + 1]

RunEvent(run, change, previous) ==
  [change |-> change, status |-> run.status, previousStatus |-> previous,
   version |-> run.version, attempt |-> run.attempt, fencingToken |-> run.fencingToken]

\* The event id is derived from the run, its version and the change; an event
\* whose id is already in the outbox is not inserted again.
EventId(e) == <<e.change, e.version>>

Enqueue(box, e) ==
  IF \E i \in DOMAIN box : EventId(box[i]) = EventId(e) THEN box ELSE Append(box, e)

-----------------------------------------------------------------------------
(* reap: every expired lease, in one pass.  It runs as a call of its own,  *)
(* at the head of every claim, and when a worker presents an expired lease. *)

Lapsed(run) == run.status \in Active /\ Expired(run)

Reaped(run) ==
  CASE Lapsed(run) /\ run.status = "leased"  -> Requeued(run)
    [] Lapsed(run) /\ run.status = "running" -> Quarantined(run)
    [] OTHER                                 -> run

ReapEvent(run) ==
  RunEvent(Reaped(run),
           IF run.status = "leased" THEN "lease_expired_requeued"
                                    ELSE "lease_expired_indeterminate",
           run.status)

ReapedRuns == [r \in RunId |-> Reaped(runs[r])]
ReapedOutbox ==
  [r \in RunId |-> IF Lapsed(runs[r]) THEN Enqueue(outbox[r], ReapEvent(runs[r]))
                                      ELSE outbox[r]]

Reap == runs' = ReapedRuns /\ outbox' = ReapedOutbox

\* One run moves to `next`, and its event joins the outbox with it.
Commit(r, next, change) ==
  /\ CanTransition(runs[r].status, next.status)
  /\ runs' = [runs EXCEPT ![r] = next]
  /\ outbox' = [outbox EXCEPT ![r] = Enqueue(@, RunEvent(next, change, runs[r].status))]

-----------------------------------------------------------------------------
(* Repository methods.                                                     *)

\* enqueueRun.  A keyed retry returns the existing record and changes nothing.
EnqueueRun(r, p) ==
  /\ runs[r].status = "absent"
  /\ LET next == Enqueued(runs[r], p)
     IN  /\ runs' = [runs EXCEPT ![r] = next]
         /\ outbox' = [outbox EXCEPT ![r] = Enqueue(@, RunEvent(next, "scheduled", "absent"))]
  /\ UNCHANGED <<now, nextLease, granted, executed>>

ReapExpiredLeases ==
  /\ Reap
  /\ UNCHANGED <<now, nextLease, granted, executed>>

\* The order of the claim queue: priority, then age, then id.
Before(a, r, b, s) ==
  \/ a.priority > b.priority
  \/ a.priority = b.priority /\ a.queuedAt < b.queuedAt
  \/ a.priority = b.priority /\ a.queuedAt = b.queuedAt /\ r < s

Queue == {r \in RunId : ReapedRuns[r].status = "queued"}

\* Mutant: the candidate is chosen before the reap.
CandidateBeforeReap(r) ==
  /\ r \in Queue
  /\ runs[r].status = "queued"
  /\ \A s \in Queue \ {r} :
       runs[s].status = "queued" => Before(ReapedRuns[r], r, ReapedRuns[s], s)

Candidate(r) ==
  /\ r \in Queue
  /\ \A s \in Queue \ {r} : Before(ReapedRuns[r], r, ReapedRuns[s], s)

\* Mutant: a claim that finds no candidate rolls its reap back.
ClaimRunOrNothing(w, ms) ==
  \E r \in Queue :
    LET next == Leased(ReapedRuns[r], w, ms)
    IN  /\ Candidate(r)
        /\ runs' = [ReapedRuns EXCEPT ![r] = next]
        /\ outbox' = [ReapedOutbox EXCEPT ![r] =
                        Enqueue(@, RunEvent(next, "leased", "queued"))]
        /\ nextLease' = nextLease + 1
        /\ granted' = granted \cup
             {[runId |-> r, workerId |-> w, leaseId |-> nextLease,
               fencingToken |-> next.fencingToken]}
        /\ UNCHANGED <<now, executed>>

\* claimRun reaps first, so the run whose lease has just lapsed is a candidate
\* of the same call.  With no candidate the reap still commits.
ClaimRun(w, ms) ==
  \/ /\ Queue = {}
     /\ Reap
     /\ UNCHANGED <<now, nextLease, granted, executed>>
  \/ \E r \in Queue :
       LET next == Leased(ReapedRuns[r], w, ms)
       IN  /\ Candidate(r)
           /\ runs' = [ReapedRuns EXCEPT ![r] = next]
           /\ outbox' = [ReapedOutbox EXCEPT ![r] =
                           Enqueue(@, RunEvent(next, "leased", "queued"))]
           /\ nextLease' = nextLease + 1
           /\ granted' = granted \cup
                {[runId |-> r, workerId |-> w, leaseId |-> nextLease,
                  fencingToken |-> next.fencingToken]}
           /\ UNCHANGED <<now, executed>>

\* activeLease: the presented identity must be the run's and not have expired.
ActiveLease(l) == SameLease(runs[l.runId], l) /\ ~Expired(runs[l.runId])

\* A worker that presents the current identity after its expiry is refused, and
\* the refusal reaps every lapsed lease.  Any other identity changes nothing.
RefuseExpired(l) ==
  /\ SameLease(runs[l.runId], l)
  /\ Expired(runs[l.runId])
  /\ Reap
  /\ UNCHANGED <<now, nextLease, granted, executed>>

\* startRun.  On a running run it is an idempotent success.
StartRun(l) ==
  /\ ActiveLease(l)
  /\ \/ runs[l.runId].status = "running" /\ UNCHANGED <<runs, outbox>>
     \/ /\ runs[l.runId].status # "running"
        /\ Commit(l.runId, Started(runs[l.runId]), "started")
  /\ executed' = executed \cup {l}
  /\ UNCHANGED <<now, nextLease, granted>>

HeartbeatRun(l, ms) ==
  /\ ActiveLease(l)
  /\ runs[l.runId].status \in Active
  /\ runs[l.runId].version < MaxVersion
  /\ Commit(l.runId, Heartbeat(runs[l.runId], ms), "heartbeat")
  /\ UNCHANGED <<now, nextLease, granted, executed>>

\* Mutant: keys are compared within the run only.
KeyFreeLocally(r, key) == runs[r].completionKey # key

\* A completion key already recorded for another run is refused.
KeyFree(r, key) == \A s \in RunId \ {r} : runs[s].completionKey # key

\* completeRun.  On a terminal run it changes nothing: the same completion is an
\* idempotent success, any other a conflict.
CompleteRun(l, status, key, path) ==
  /\ runs[l.runId].status \notin Terminal
  /\ ActiveLease(l)
  /\ KeyFree(l.runId, key)
  /\ Commit(l.runId, Finished(runs[l.runId], status, key, path),
            IF status = "canceled" THEN "canceled" ELSE "completed")
  /\ UNCHANGED <<now, nextLease, granted, executed>>

\* Mutant: cancellation is idempotent by transition table alone.
CancelRunAgain(r, expectedVersion) ==
  /\ runs[r].status # "absent"
  /\ runs[r].version = expectedVersion
  /\ Commit(r, Canceled(runs[r]), "canceled")
  /\ UNCHANGED <<now, nextLease, granted, executed>>

CancelRun(r, expectedVersion) ==
  /\ runs[r].status # "absent"
  /\ runs[r].version = expectedVersion
  /\ runs[r].status \notin Terminal
  /\ Commit(r, Canceled(runs[r]), "canceled")
  /\ UNCHANGED <<now, nextLease, granted, executed>>

ReconcileRun(r, expectedVersion, action) ==
  /\ runs[r].version = expectedVersion
  /\ runs[r].status = "indeterminate"
  /\ Commit(r, IF action = "retry" THEN Retried(runs[r]) ELSE Canceled(runs[r]),
            "reconciled")
  /\ UNCHANGED <<now, nextLease, granted, executed>>

Tick ==
  /\ now < MaxTime
  /\ now' = now + 1
  /\ UNCHANGED <<runs, outbox, nextLease, granted, executed>>

-----------------------------------------------------------------------------
Init ==
  /\ runs = [r \in RunId |-> NoRun]
  /\ outbox = [r \in RunId |-> <<>>]
  /\ now = 0
  /\ nextLease = 1
  /\ granted = {}
  /\ executed = {}

\* Any worker, with any identity it was ever granted.
WorkerCall(l) ==
  \/ RefuseExpired(l)
  \/ StartRun(l)
  \/ \E ms \in LeaseMs : HeartbeatRun(l, ms)
  \/ \E status \in Terminal, key \in CompletionKey, path \in ReportPath \cup {None} :
       CompleteRun(l, status, key, path)

OperatorCall(r) ==
  \E v \in 1 .. runs[r].version :
    \/ CancelRun(r, v)
    \/ \E action \in {"retry", "cancel"} : ReconcileRun(r, v, action)

Next ==
  \/ \E r \in RunId, p \in Priority : EnqueueRun(r, p)
  \/ \E w \in Worker, ms \in LeaseMs : ClaimRun(w, ms)
  \/ ReapExpiredLeases
  \/ \E l \in granted : WorkerCall(l)
  \/ \E r \in RunId : OperatorCall(r)
  \/ Tick

Spec == Init /\ [][Next]_vars

\* No timer of the service reaps: a lapsed lease is noticed when somebody calls.
\* So the one assumption is about the callers: some worker keeps polling POST
\* /v1/runs/claim.  Any one worker may die and operators may never look.
Fairness == WF_vars(\E w \in Worker, ms \in LeaseMs : ClaimRun(w, ms))

FairSpec == Spec /\ Fairness

-----------------------------------------------------------------------------
(* Invariants.                                                             *)

\* The record shapes, the row constraint of the control_runs table (the lease
\* columns are set exactly while a run is leased or running), and the fact that
\* only identities the scheduler handed out are ever told to execute.
TypeOK ==
  /\ runs \in [RunId -> Run]
  /\ \A r \in RunId : LeaseColumns(runs[r])
  /\ outbox \in [RunId -> Seq(Event)]
  /\ now \in Time
  /\ nextLease \in Nat
  /\ granted \in SUBSET Lease
  /\ executed \in SUBSET granted

\* A run has one active lease at a time and every later lease uses a strictly
\* larger fencing token (EVENTS.md, "Scheduling and replay ordering"): no two
\* grants of a run share a token, none is ahead of the run's own, and an active
\* run is held by exactly the newest one.
SingleLeaseHolder ==
  /\ \A l, m \in granted :
       l.runId = m.runId /\ l.fencingToken = m.fencingToken => l = m
  /\ \A l \in granted : l.fencingToken <= runs[l.runId].fencingToken
  /\ \A r \in RunId :
       runs[r].status \in Active =>
         \E l \in granted : l.runId = r /\ SameLease(runs[r], l)

\* `box` holds a reconciliation by retry of its run whose fencing token is in
\* lo .. hi - 1: it came after lease lo was granted and before lease hi was.
RetriedBetween(box, lo, hi) ==
  \E i \in DOMAIN box :
    /\ box[i].change = "reconciled"
    /\ box[i].status = "queued"
    /\ lo <= box[i].fencingToken
    /\ box[i].fencingToken < hi

\* Work that may have started is never run again on the scheduler's own motion:
\* between two leases of one run that were both told to execute lies an
\* operator's decision to retry.  Lapsed leases, late starts, duplicated calls
\* and the reap hidden in a claim must not break this.
ReexecutionNeedsOperator ==
  \A l, m \in executed :
    l.runId = m.runId /\ l.fencingToken < m.fencingToken
      => RetriedBetween(outbox[l.runId], l.fencingToken, m.fencingToken)

\* A recorded outcome comes from a worker that held the newest lease of the run
\* and had started it: a superseded worker cannot produce a canonical result.
ResultFromLastLease ==
  \A r \in RunId :
    runs[r].status \in Terminal \ {"canceled"} =>
      \E l \in executed : l.runId = r /\ l.fencingToken = runs[r].fencingToken

\* `box` announces every version of `run` by one event, in version order, each
\* continuing the status its predecessor announced, the last one as `run` is.
Mirrors(run, box) ==
  /\ Len(box) = run.version
  /\ \A i \in 1 .. Len(box) :
       /\ box[i].version = i
       /\ i > 1 => box[i].previousStatus = box[i - 1].status
  /\ run.version > 0 =>
       /\ box[Len(box)].status = run.status
       /\ box[Len(box)].fencingToken = run.fencingToken
       /\ box[Len(box)].attempt = run.attempt

\* A reader of the outbox sees every state a run was in, and the version an
\* operator's expectedVersion names is one state only: every mutation, the reap
\* inside a claim included, takes a version of its own and commits its event.
OutboxMirrorsRun == \A r \in RunId : Mirrors(runs[r], outbox[r])

\* A completion key names at most one run, whichever workers raced to use it.
CompletionKeyUnique ==
  \A r, s \in RunId :
    r # s /\ runs[r].completionKey = runs[s].completionKey => runs[r].completionKey = None

\* A terminal record never changes again: neither a late worker, nor the reaper,
\* nor an operator holding an old version can reopen or rewrite it.
TerminalIsFinal ==
  [][\A r \in RunId : runs[r].status \in Terminal => runs'[r] = runs[r]]_vars

\* A claim never passes over work of higher priority: a run left in the queue by
\* the call that granted r does not outrank r, not even one whose lease lapsed
\* unnoticed and was put back by the reap of that same call.
NoPriorityInversion ==
  [][\A r, s \in RunId :
       /\ runs'[r].fencingToken > runs[r].fencingToken
       /\ runs'[s].status = "queued"
       => runs'[s].priority <= runs'[r].priority]_vars

(* The refinement: FencedWork with a run's status, token and result.       *)

PhaseOf(status) ==
  CASE status = "absent"        -> "none"
    [] status = "queued"        -> "waiting"
    [] status = "leased"        -> "held"
    [] status = "running"       -> "working"
    [] status = "indeterminate" -> "unknown"
    [] OTHER                    -> "done"

Results == Terminal \ {"canceled"}
WorkPhase == [r \in RunId |-> PhaseOf(runs[r].status)]
WorkEpoch == [r \in RunId |-> runs[r].fencingToken]
WorkOutcome == [r \in RunId |-> IF runs[r].status \in Results THEN runs[r].status ELSE None]

Promise == INSTANCE FencedWork
  WITH Work <- RunId, Outcome <- Results,
       phase <- WorkPhase, epoch <- WorkEpoch, outcome <- WorkOutcome

\* The scheduler, with its clock, reaper, claim queue, versions and outbox,
\* keeps the promise of FencedWork for every run.
ImplementsFencedWork == Promise!Spec

\* A run of higher priority is granted while r waits.
Outranked(r) ==
  /\ runs[r].status = "queued"
  /\ \E s \in RunId :
       runs'[s].fencingToken > runs[s].fencingToken /\ runs'[s].priority > runs[r].priority

\* A lease whose worker has gone silent does not strand its run.  The lapse is
\* always noticed: the run leaves that lease.  And it is granted again under a
\* larger token, or waits for an operator, or is over, unless work of higher
\* priority is granted for ever: the queue has no aging, and a run that lapses
\* before its start time after time starves those it outranks.
AbandonedLeaseReleased ==
  \A r \in RunId : \A f \in 1 .. MaxTime + 1 :
    LET abandoned == runs[r].fencingToken = f /\ Lapsed(runs[r])
        decided   == \/ runs[r].fencingToken > f
                     \/ runs[r].status = "indeterminate"
                     \/ runs[r].status \in Terminal
    IN  /\ abandoned ~> (decided \/ runs[r].status = "queued")
        /\ (abandoned ~> decided) \/ []<><<Outranked(r)>>_vars
=============================================================================
