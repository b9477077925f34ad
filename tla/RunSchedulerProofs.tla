------------------------- MODULE RunSchedulerProofs -------------------------
(* Machine-checked theorems about RunScheduler, for every set of runs,     *)
(* workers, keys and priorities, every clock bound and every lease length. *)
EXTENDS RunScheduler, TLAPS

-----------------------------------------------------------------------------
(* The steps on one record keep it well formed.  A record of many fields   *)
(* is followed one field at a time.                                        *)

WellFormed(run) == run \in Run /\ LeaseColumns(run)

\* The fields the steps read.
LEMMA FieldTypes ==
  ASSUME NEW run \in Run
  PROVE  /\ run.status \in Status /\ run.attempt \in Nat /\ run.fencingToken \in Nat
         /\ run.version \in Nat /\ run.attempt + 1 \in Nat
         /\ run.fencingToken + 1 \in Nat /\ run.version + 1 \in Nat
  BY DEF Run

\* Assigning a field a value of its type leaves a record of Run.
LEMMA FieldUpdates ==
  ASSUME NEW run \in Run
  PROVE  /\ \A v \in Status : [run EXCEPT !.status = v] \in Run
         /\ \A v \in Priority : [run EXCEPT !.priority = v] \in Run
         /\ \A v \in Nat : [run EXCEPT !.attempt = v] \in Run
         /\ \A v \in Worker \cup {None} : [run EXCEPT !.workerId = v] \in Run
         /\ \A v \in Nat \cup {None} : [run EXCEPT !.leaseId = v] \in Run
         /\ \A v \in Nat : [run EXCEPT !.fencingToken = v] \in Run
         /\ \A v \in Nat \cup {None} : [run EXCEPT !.leaseExpiresAt = v] \in Run
         /\ \A v \in Nat : [run EXCEPT !.queuedAt = v] \in Run
         /\ \A v \in BOOLEAN : [run EXCEPT !.started = v] \in Run
         /\ \A v \in BOOLEAN : [run EXCEPT !.finished = v] \in Run
         /\ \A v \in CompletionKey \cup {None} : [run EXCEPT !.completionKey = v] \in Run
         /\ \A v \in ReportPath \cup {None} : [run EXCEPT !.reportPath = v] \in Run
         /\ \A v \in Nat : [run EXCEPT !.version = v] \in Run
<1>1. \A v \in Status : [run EXCEPT !.status = v] \in Run
  BY DEF Run
<1>2. \A v \in Nat : [run EXCEPT !.attempt = v] \in Run
  BY DEF Run
<1>3. \A v \in Worker \cup {None} : [run EXCEPT !.workerId = v] \in Run
  BY DEF Run
<1>4. \A v \in Nat \cup {None} : [run EXCEPT !.leaseId = v] \in Run
  BY DEF Run
<1>5. \A v \in Nat : [run EXCEPT !.fencingToken = v] \in Run
  BY DEF Run
<1>6. \A v \in Nat \cup {None} : [run EXCEPT !.leaseExpiresAt = v] \in Run
  BY DEF Run, Time
<1>7. \A v \in Nat : [run EXCEPT !.queuedAt = v] \in Run
  BY DEF Run, Time
<1>8. \A v \in BOOLEAN : [run EXCEPT !.started = v] \in Run
  BY DEF Run
<1>9. \A v \in BOOLEAN : [run EXCEPT !.finished = v] \in Run
  BY DEF Run
<1>10. \A v \in CompletionKey \cup {None} : [run EXCEPT !.completionKey = v] \in Run
  BY DEF Run
<1>11. \A v \in ReportPath \cup {None} : [run EXCEPT !.reportPath = v] \in Run
  BY DEF Run
<1>12. \A v \in Nat : [run EXCEPT !.version = v] \in Run
  BY DEF Run
<1>13. \A v \in Priority : [run EXCEPT !.priority = v] \in Run
  BY DEF Run
<1> QED
  BY <1>1, <1>2, <1>3, <1>4, <1>5, <1>6, <1>7, <1>8, <1>9, <1>10, <1>11, <1>12, <1>13

LEMMA EnqueuedWellFormed ==
  ASSUME NEW run \in Run, NEW r, NEW p \in Priority, now \in Time, LeaseColumns(run), run.status = "absent"
  PROVE  WellFormed(Enqueued(run, p))
<1>1. Enqueued(run, p) \in Run
  BY SchedulerAssumption, FieldUpdates, FieldTypes
  DEF Enqueued, Status, Active, Terminal, Time
<1>2. LeaseColumns(Enqueued(run, p))
  BY SchedulerAssumption DEF LeaseColumns, Enqueued, Run, Active, Terminal, Time
<1> QED
  BY <1>1, <1>2 DEF WellFormed

LEMMA LeasedWellFormed ==
  ASSUME NEW run \in Run, NEW w \in Worker, NEW ms \in LeaseMs, now \in Time, nextLease \in Nat
  PROVE  WellFormed(Leased(run, w, ms))
<1>. now + ms \in Nat
  BY SchedulerAssumption DEF Time
<1>1. Leased(run, w, ms) \in Run
  BY FieldUpdates, FieldTypes
  DEF Leased, Status, Active, Terminal, Time
<1>2. LeaseColumns(Leased(run, w, ms))
  BY SchedulerAssumption DEF LeaseColumns, Leased, Run, Active, Terminal, Time
<1> QED
  BY <1>1, <1>2 DEF WellFormed

LEMMA StartedWellFormed ==
  ASSUME NEW run \in Run, LeaseColumns(run), run.status \in Active
  PROVE  WellFormed(Started(run))
<1>1. Started(run) \in Run
  BY SchedulerAssumption, FieldUpdates, FieldTypes
  DEF Started, Status, Active, Terminal, Time
<1>2. LeaseColumns(Started(run))
  BY SchedulerAssumption DEF LeaseColumns, Started, Run, Active, Terminal, Time
<1> QED
  BY <1>1, <1>2 DEF WellFormed

LEMMA HeartbeatWellFormed ==
  ASSUME NEW run \in Run, NEW ms \in LeaseMs, now \in Time, LeaseColumns(run), run.status \in Active
  PROVE  WellFormed(Heartbeat(run, ms))
<1>. now + ms \in Nat
  BY SchedulerAssumption DEF Time
<1>1. Heartbeat(run, ms) \in Run
  BY FieldUpdates, FieldTypes
  DEF Heartbeat, Status, Active, Terminal, Time
<1>2. LeaseColumns(Heartbeat(run, ms))
  BY SchedulerAssumption DEF LeaseColumns, Heartbeat, Run, Active, Terminal, Time
<1> QED
  BY <1>1, <1>2 DEF WellFormed

LEMMA FinishedWellFormed ==
  ASSUME NEW run \in Run, NEW status \in Terminal, NEW key \in CompletionKey,
         NEW path \in ReportPath \cup {None}
  PROVE  WellFormed(Finished(run, status, key, path))
<1>1. Finished(run, status, key, path) \in Run
  BY SchedulerAssumption, FieldUpdates, FieldTypes
  DEF Finished, WithoutLease, Status, Active, Terminal, Time
<1>2. LeaseColumns(Finished(run, status, key, path))
  BY SchedulerAssumption DEF LeaseColumns, Finished, WithoutLease, Run, Active, Terminal, Time
<1> QED
  BY <1>1, <1>2 DEF WellFormed

LEMMA CanceledWellFormed ==
  ASSUME NEW run \in Run
  PROVE  WellFormed(Canceled(run))
<1>1. Canceled(run) \in Run
  BY SchedulerAssumption, FieldUpdates, FieldTypes
  DEF Canceled, WithoutLease, Status, Active, Terminal, Time
<1>2. LeaseColumns(Canceled(run))
  BY SchedulerAssumption DEF LeaseColumns, Canceled, WithoutLease, Run, Active, Terminal, Time
<1> QED
  BY <1>1, <1>2 DEF WellFormed

LEMMA RequeuedWellFormed ==
  ASSUME NEW run \in Run, now \in Time
  PROVE  WellFormed(Requeued(run))
<1>1. Requeued(run) \in Run
  BY SchedulerAssumption, FieldUpdates, FieldTypes
  DEF Requeued, WithoutLease, Status, Active, Terminal, Time
<1>2. LeaseColumns(Requeued(run))
  BY SchedulerAssumption DEF LeaseColumns, Requeued, WithoutLease, Run, Active, Terminal, Time
<1> QED
  BY <1>1, <1>2 DEF WellFormed

LEMMA QuarantinedWellFormed ==
  ASSUME NEW run \in Run
  PROVE  WellFormed(Quarantined(run))
<1>1. Quarantined(run) \in Run
  BY SchedulerAssumption, FieldUpdates, FieldTypes
  DEF Quarantined, WithoutLease, Status, Active, Terminal, Time
<1>2. LeaseColumns(Quarantined(run))
  BY SchedulerAssumption DEF LeaseColumns, Quarantined, WithoutLease, Run, Active, Terminal, Time
<1> QED
  BY <1>1, <1>2 DEF WellFormed

LEMMA RetriedWellFormed ==
  ASSUME NEW run \in Run, now \in Time
  PROVE  WellFormed(Retried(run))
<1>1. Retried(run) \in Run
  BY SchedulerAssumption, FieldUpdates, FieldTypes
  DEF Retried, WithoutLease, Status, Active, Terminal, Time
<1>2. LeaseColumns(Retried(run))
  BY SchedulerAssumption DEF LeaseColumns, Retried, WithoutLease, Run, Active, Terminal, Time
<1> QED
  BY <1>1, <1>2 DEF WellFormed

LEMMA NoRunWellFormed == WellFormed(NoRun)
  BY SchedulerAssumption DEF WellFormed, Run, NoRun, LeaseColumns, Status, Active, Terminal, Time

LEMMA ReapedWellFormed ==
  ASSUME NEW run, WellFormed(run), now \in Time
  PROVE  WellFormed(Reaped(run))
  BY RequeuedWellFormed, QuarantinedWellFormed DEF Reaped, Lapsed, Active, WellFormed

LEMMA RunEventType ==
  ASSUME NEW run \in Run, NEW change \in Change, NEW previous \in Status
  PROVE  RunEvent(run, change, previous) \in Event
  BY DEF RunEvent, Event, Run

LEMMA EnqueueType ==
  ASSUME NEW box \in Seq(Event), NEW e \in Event
  PROVE  Enqueue(box, e) \in Seq(Event)
  BY DEF Enqueue

-----------------------------------------------------------------------------
(* Type correctness.  The tables are followed apart from the clock and the *)
(* lease bookkeeping.                                                      *)

Tables == /\ runs \in [RunId -> Run]
          /\ \A r \in RunId : LeaseColumns(runs[r])
          /\ outbox \in [RunId -> Seq(Event)]

LEMMA ReapedTablesType ==
  ASSUME Tables, now \in Time
  PROVE  /\ ReapedRuns \in [RunId -> Run]
         /\ \A r \in RunId : WellFormed(ReapedRuns[r])
         /\ ReapedOutbox \in [RunId -> Seq(Event)]
<1>1. \A r \in RunId : WellFormed(Reaped(runs[r]))
  BY ReapedWellFormed DEF Tables, WellFormed
<1>2. \A r \in RunId : ReapEvent(runs[r]) \in Event
  <2> SUFFICES ASSUME NEW r \in RunId PROVE ReapEvent(runs[r]) \in Event
    OBVIOUS
  <2>1. Reaped(runs[r]) \in Run /\ runs[r].status \in Status
    BY <1>1, FieldTypes DEF WellFormed, Tables
  <2> QED
    BY <2>1, RunEventType DEF ReapEvent, Change
<1>3. \A r \in RunId : Enqueue(outbox[r], ReapEvent(runs[r])) \in Seq(Event)
  BY <1>2, EnqueueType DEF Tables
<1> QED
  BY <1>1, <1>3 DEF ReapedRuns, ReapedOutbox, WellFormed, Tables

LEMMA ReapTables ==
  ASSUME Tables, now \in Time, Reap
  PROVE  Tables'
  BY ReapedTablesType DEF Reap, Tables, WellFormed

\* One table row replaced, and one event for it.
LEMMA RowTables ==
  ASSUME NEW table \in [RunId -> Run], NEW boxes \in [RunId -> Seq(Event)],
         \A r \in RunId : LeaseColumns(table[r]),
         NEW r \in RunId, NEW next, WellFormed(next),
         NEW change \in Change, NEW previous \in Status,
         runs' = [table EXCEPT ![r] = next],
         outbox' = [boxes EXCEPT ![r] = Enqueue(@, RunEvent(next, change, previous))]
  PROVE  Tables'
<1>1. Enqueue(boxes[r], RunEvent(next, change, previous)) \in Seq(Event)
  BY RunEventType, EnqueueType DEF WellFormed
<1> QED
  BY <1>1 DEF Tables, WellFormed

LEMMA CommitTables ==
  ASSUME Tables, NEW r \in RunId, NEW next, WellFormed(next), NEW change \in Change,
         Commit(r, next, change)
  PROVE  Tables'
<1>1. runs[r].status \in Status
  BY FieldTypes DEF Tables
<1> QED
  BY <1>1, RowTables DEF Commit, Tables

\* A claim changes the tables, or only reaps, and grants what it wrote.
LEMMA ClaimType ==
  ASSUME TypeOK, NEW w \in Worker, NEW ms \in LeaseMs, ClaimRun(w, ms)
  PROVE  TypeOK'
<1>. Tables /\ now \in Time /\ nextLease \in Nat
  BY DEF TypeOK, Tables
<1>1. CASE Reap /\ UNCHANGED <<now, nextLease, granted, executed>>
  <2>1. Tables'
    BY <1>1, ReapTables
  <2> QED
    BY <1>1, <2>1 DEF TypeOK, Tables
<1>2. ASSUME NEW r \in Queue,
             runs' = [ReapedRuns EXCEPT ![r] = Leased(ReapedRuns[r], w, ms)],
             outbox' = [ReapedOutbox EXCEPT ![r] =
                Enqueue(@, RunEvent(Leased(ReapedRuns[r], w, ms), "leased", "queued"))],
             nextLease' = nextLease + 1,
             granted' = granted \cup
                {[runId |-> r, workerId |-> w, leaseId |-> nextLease,
                  fencingToken |-> Leased(ReapedRuns[r], w, ms).fencingToken]},
             UNCHANGED <<now, executed>>
      PROVE  TypeOK'
  <2>1. r \in RunId /\ WellFormed(ReapedRuns[r])
    BY ReapedTablesType DEF Queue
  <2>2. WellFormed(Leased(ReapedRuns[r], w, ms))
    BY <2>1, LeasedWellFormed DEF WellFormed
  <2>3. Tables'
    BY <1>2, <2>1, <2>2, ReapedTablesType, RowTables DEF WellFormed, Change, Status
  <2>4. [runId |-> r, workerId |-> w, leaseId |-> nextLease,
         fencingToken |-> Leased(ReapedRuns[r], w, ms).fencingToken] \in Lease
    BY <2>1, <2>2, FieldTypes DEF WellFormed, Lease
  <2> QED
    BY <1>2, <2>3, <2>4 DEF TypeOK, Tables
<1> QED
  BY <1>1, <1>2 DEF ClaimRun

\* A call that commits one record, and at most tells a holder to execute.
LEMMA CommitType ==
  ASSUME TypeOK, NEW r \in RunId, NEW next, WellFormed(next), NEW change \in Change,
         Commit(r, next, change), executed' \in SUBSET granted,
         UNCHANGED <<now, nextLease, granted>>
  PROVE  TypeOK'
<1>1. Tables
  BY DEF TypeOK, Tables
<1>2. Tables'
  BY <1>1, CommitTables
<1> QED
  BY <1>2 DEF TypeOK, Tables

LEMMA WorkerCallType ==
  ASSUME TypeOK, NEW l \in granted, WorkerCall(l)
  PROVE  TypeOK'
<1>. DEFINE r == l.runId
<1>1. /\ r \in RunId /\ runs[r] \in Run /\ LeaseColumns(runs[r])
      /\ now \in Time /\ nextLease \in Nat /\ Tables
  BY DEF TypeOK, Lease, Tables
<1>2. CASE RefuseExpired(l)
  <2>1. Tables'
    BY <1>1, <1>2, ReapTables DEF RefuseExpired
  <2> QED
    BY <1>2, <2>1 DEF RefuseExpired, TypeOK, Tables
<1>3. CASE StartRun(l)
  <2>1. CASE UNCHANGED <<runs, outbox>>
    BY <1>3, <2>1 DEF StartRun, TypeOK
  <2>2. CASE Commit(r, Started(runs[r]), "started")
    <3>1. runs[r].status \in Active
      BY <1>1, <1>3, SchedulerAssumption DEF StartRun, ActiveLease, SameLease, LeaseColumns, TypeOK, Lease
    <3>2. WellFormed(Started(runs[r]))
      BY <1>1, <3>1, StartedWellFormed
    <3> QED
      BY <1>1, <1>3, <2>2, <3>2, CommitType DEF StartRun, Change, TypeOK
  <2> QED
    BY <1>3, <2>1, <2>2 DEF StartRun
<1>4. ASSUME NEW ms \in LeaseMs, HeartbeatRun(l, ms)
      PROVE  TypeOK'
  <2>1. WellFormed(Heartbeat(runs[r], ms))
    BY <1>1, <1>4, HeartbeatWellFormed DEF HeartbeatRun
  <2> QED
    BY <1>1, <1>4, <2>1, CommitType DEF HeartbeatRun, Change, TypeOK
<1>5. ASSUME NEW status \in Terminal, NEW key \in CompletionKey,
             NEW path \in ReportPath \cup {None}, CompleteRun(l, status, key, path)
      PROVE  TypeOK'
  <2>1. WellFormed(Finished(runs[r], status, key, path))
    BY <1>1, FinishedWellFormed
  <2> QED
    BY <1>1, <1>5, <2>1, CommitType DEF CompleteRun, Change, TypeOK
<1> QED
  BY <1>2, <1>3, <1>4, <1>5 DEF WorkerCall

LEMMA OperatorCallType ==
  ASSUME TypeOK, NEW r \in RunId, OperatorCall(r)
  PROVE  TypeOK'
<1>1. /\ runs[r] \in Run /\ now \in Time
  BY DEF TypeOK
<1>2. WellFormed(Canceled(runs[r])) /\ WellFormed(Retried(runs[r]))
  BY <1>1, CanceledWellFormed, RetriedWellFormed
<1>3. ASSUME NEW v \in 1 .. runs[r].version, CancelRun(r, v)
      PROVE  TypeOK'
  BY <1>2, <1>3, CommitType DEF CancelRun, Change, TypeOK
<1>4. ASSUME NEW v \in 1 .. runs[r].version, NEW action \in {"retry", "cancel"},
             ReconcileRun(r, v, action)
      PROVE  TypeOK'
  BY <1>2, <1>4, CommitType DEF ReconcileRun, Change, TypeOK
<1> QED
  BY <1>3, <1>4 DEF OperatorCall

\* The tables keep their shape, the lease columns are set exactly while a run is
\* leased or running, and only granted identities are told to execute.
THEOREM TypeCorrect == Spec => []TypeOK
<1>1. Init => TypeOK
  BY NoRunWellFormed DEF Init, TypeOK, WellFormed, Time
<1>2. TypeOK /\ [Next]_vars => TypeOK'
  <2> SUFFICES ASSUME TypeOK, [Next]_vars PROVE TypeOK'
    OBVIOUS
  <2>1. ASSUME NEW r \in RunId, NEW p \in Priority, EnqueueRun(r, p)
        PROVE  TypeOK'
    <3>1. WellFormed(Enqueued(runs[r], p))
      BY <2>1, EnqueuedWellFormed DEF EnqueueRun, TypeOK
    <3>2. Tables'
      BY <2>1, <3>1, RowTables DEF EnqueueRun, TypeOK, Change, Status
    <3> QED
      BY <2>1, <3>2 DEF EnqueueRun, TypeOK, Tables
  <2>2. ASSUME NEW w \in Worker, NEW ms \in LeaseMs, ClaimRun(w, ms)
        PROVE  TypeOK'
    BY <2>2, ClaimType
  <2>3. CASE ReapExpiredLeases
    <3>1. Tables /\ Reap /\ now \in Time
      BY <2>3 DEF ReapExpiredLeases, TypeOK, Tables
    <3>2. Tables'
      BY <3>1, ReapTables
    <3> QED
      BY <2>3, <3>2 DEF ReapExpiredLeases, TypeOK, Tables
  <2>4. ASSUME NEW l \in granted, WorkerCall(l)
        PROVE  TypeOK'
    BY <2>4, WorkerCallType
  <2>5. ASSUME NEW r \in RunId, OperatorCall(r)
        PROVE  TypeOK'
    BY <2>5, OperatorCallType
  <2>6. CASE Tick
    BY <2>6 DEF Tick, TypeOK, Time
  <2>7. CASE UNCHANGED vars
    BY <2>7 DEF vars, TypeOK
  <2> QED
    BY <2>1, <2>2, <2>3, <2>4, <2>5, <2>6, <2>7 DEF Next
<1> QED
  BY <1>1, <1>2, PTL DEF Spec

-----------------------------------------------------------------------------
(* The fields that matter to leases and versions, step by step.            *)

SameHolder(run, next) ==
  next.workerId = run.workerId /\ next.leaseId = run.leaseId

LEMMA StepFields ==
  ASSUME NEW run \in Run
  PROVE  /\ \A p, r : LET n == Enqueued(run, p)
              IN  n.status = "queued" /\ n.version = 1 /\ n.fencingToken = run.fencingToken
         /\ \A w, ms : LET n == Leased(run, w, ms)
              IN  /\ n.status = "leased" /\ n.version = run.version + 1
                  /\ n.fencingToken = run.fencingToken + 1
                  /\ n.workerId = w /\ n.leaseId = nextLease
         /\ LET n == Started(run)
              IN  /\ n.status = "running" /\ n.version = run.version + 1
                  /\ n.fencingToken = run.fencingToken /\ SameHolder(run, n)
         /\ \A ms : LET n == Heartbeat(run, ms)
              IN  /\ n.status = run.status /\ n.version = run.version + 1
                  /\ n.fencingToken = run.fencingToken /\ SameHolder(run, n)
         /\ \A status, key, path : LET n == Finished(run, status, key, path)
              IN  /\ n.status = status /\ n.version = run.version + 1
                  /\ n.fencingToken = run.fencingToken
         /\ LET n == Canceled(run)
              IN  /\ n.status = "canceled" /\ n.version = run.version + 1
                  /\ n.fencingToken = run.fencingToken
         /\ LET n == Requeued(run)
              IN  /\ n.status = "queued" /\ n.version = run.version + 1
                  /\ n.fencingToken = run.fencingToken
         /\ LET n == Quarantined(run)
              IN  /\ n.status = "indeterminate" /\ n.version = run.version + 1
                  /\ n.fencingToken = run.fencingToken
         /\ LET n == Retried(run)
              IN  /\ n.status = "queued" /\ n.version = run.version + 1
                  /\ n.fencingToken = run.fencingToken
<1>1. \A p, r : LET n == Enqueued(run, p)
       IN  n.status = "queued" /\ n.version = 1 /\ n.fencingToken = run.fencingToken
  BY DEF Enqueued, Run
<1>2. \A w, ms : LET n == Leased(run, w, ms)
       IN  /\ n.status = "leased" /\ n.version = run.version + 1
           /\ n.fencingToken = run.fencingToken + 1
           /\ n.workerId = w /\ n.leaseId = nextLease
  BY DEF Leased, Run
<1>3. LET n == Started(run)
       IN  /\ n.status = "running" /\ n.version = run.version + 1
           /\ n.fencingToken = run.fencingToken /\ SameHolder(run, n)
  BY DEF Started, Run, SameHolder
<1>4. \A ms : LET n == Heartbeat(run, ms)
       IN  /\ n.status = run.status /\ n.version = run.version + 1
           /\ n.fencingToken = run.fencingToken /\ SameHolder(run, n)
  BY DEF Heartbeat, Run, SameHolder
<1>5. \A status, key, path : LET n == Finished(run, status, key, path)
       IN  /\ n.status = status /\ n.version = run.version + 1
           /\ n.fencingToken = run.fencingToken
  BY DEF Finished, WithoutLease, Run
<1>6. LET n == Canceled(run)
       IN  /\ n.status = "canceled" /\ n.version = run.version + 1
           /\ n.fencingToken = run.fencingToken
  BY DEF Canceled, WithoutLease, Run
<1>7. LET n == Requeued(run)
       IN  /\ n.status = "queued" /\ n.version = run.version + 1
           /\ n.fencingToken = run.fencingToken
  BY DEF Requeued, WithoutLease, Run
<1>8. LET n == Quarantined(run)
       IN  /\ n.status = "indeterminate" /\ n.version = run.version + 1
           /\ n.fencingToken = run.fencingToken
  BY DEF Quarantined, WithoutLease, Run
<1>9. LET n == Retried(run)
       IN  /\ n.status = "queued" /\ n.version = run.version + 1
           /\ n.fencingToken = run.fencingToken
  BY DEF Retried, WithoutLease, Run
<1> QED
  BY <1>1, <1>2, <1>3, <1>4, <1>5, <1>6, <1>7, <1>8, <1>9

\* Only a completion records a key, only a retry forgets one, and only the
\* enqueue gives a priority.
LEMMA StepColumns ==
  ASSUME NEW run \in Run
  PROVE  /\ \A p : LET n == Enqueued(run, p)
              IN  n.completionKey = run.completionKey /\ n.priority = p
         /\ \A w, ms : LET n == Leased(run, w, ms)
              IN  n.completionKey = run.completionKey /\ n.priority = run.priority
         /\ LET n == Started(run)
              IN  n.completionKey = run.completionKey /\ n.priority = run.priority
         /\ \A ms : LET n == Heartbeat(run, ms)
              IN  n.completionKey = run.completionKey /\ n.priority = run.priority
         /\ \A status, key, path : LET n == Finished(run, status, key, path)
              IN  n.completionKey = key /\ n.priority = run.priority
         /\ LET n == Canceled(run)
              IN  n.completionKey = run.completionKey /\ n.priority = run.priority
         /\ LET n == Requeued(run)
              IN  n.completionKey = run.completionKey /\ n.priority = run.priority
         /\ LET n == Quarantined(run)
              IN  n.completionKey = run.completionKey /\ n.priority = run.priority
         /\ LET n == Retried(run)
              IN  n.completionKey = None /\ n.priority = run.priority
<1>1. \A p : LET n == Enqueued(run, p)
       IN  n.completionKey = run.completionKey /\ n.priority = p
  BY DEF Run, Enqueued
<1>2. \A w, ms : LET n == Leased(run, w, ms)
       IN  n.completionKey = run.completionKey /\ n.priority = run.priority
  BY DEF Run, Leased
<1>3. LET n == Started(run)
       IN  n.completionKey = run.completionKey /\ n.priority = run.priority
  BY DEF Run, Started
<1>4. \A ms : LET n == Heartbeat(run, ms)
       IN  n.completionKey = run.completionKey /\ n.priority = run.priority
  BY DEF Run, Heartbeat
<1>5. \A status, key, path : LET n == Finished(run, status, key, path)
       IN  n.completionKey = key /\ n.priority = run.priority
  BY DEF Run, Finished, WithoutLease
<1>6. LET n == Canceled(run)
       IN  n.completionKey = run.completionKey /\ n.priority = run.priority
  BY DEF Run, Canceled, WithoutLease
<1>7. LET n == Requeued(run)
       IN  n.completionKey = run.completionKey /\ n.priority = run.priority
  BY DEF Run, Requeued, WithoutLease
<1>8. LET n == Quarantined(run)
       IN  n.completionKey = run.completionKey /\ n.priority = run.priority
  BY DEF Run, Quarantined, WithoutLease
<1>9. LET n == Retried(run)
       IN  n.completionKey = None /\ n.priority = run.priority
  BY DEF Run, Retried, WithoutLease
<1> QED
  BY <1>1, <1>2, <1>3, <1>4, <1>5, <1>6, <1>7, <1>8, <1>9

-----------------------------------------------------------------------------
(* The outbox mirrors the runs.  A row that takes its next version and     *)
(* enqueues the event of that version keeps mirroring.                     *)

\* The event of a version the outbox has not announced is not a duplicate.
LEMMA NextEventIsNew ==
  ASSUME NEW run \in Run, NEW box \in Seq(Event), Mirrors(run, box),
         NEW e, e.version = run.version + 1
  PROVE  Enqueue(box, e) = Append(box, e)
<1>1. run.version \in Nat
  BY FieldTypes
<1>2. \A i \in DOMAIN box : EventId(box[i]) # EventId(e)
  BY <1>1 DEF EventId, Mirrors
<1> QED
  BY <1>2 DEF Enqueue

LEMMA MirrorsNext ==
  ASSUME NEW run \in Run, NEW box \in Seq(Event), Mirrors(run, box),
         NEW next \in Run, next.version = run.version + 1,
         NEW change \in Change, NEW previous \in Status,
         run.version > 0 => previous = run.status
  PROVE  Mirrors(next, Enqueue(box, RunEvent(next, change, previous)))
<1> DEFINE e == RunEvent(next, change, previous)
<1>1. e \in Event /\ e.version = run.version + 1 /\ e.previousStatus = previous
      /\ e.status = next.status /\ e.fencingToken = next.fencingToken
      /\ e.attempt = next.attempt
  BY RunEventType DEF RunEvent
<1>. run.version \in Nat /\ next.version \in Nat
  BY FieldTypes
<1>2. Enqueue(box, e) = Append(box, e)
  BY <1>1, NextEventIsNew
<1>. HIDE DEF e
<1>3. Mirrors(next, Append(box, e))
  BY <1>1 DEF Mirrors
<1> QED
  BY <1>2, <1>3 DEF e

\* A run that was never enqueued has no history.
FreshRuns == \A r \in RunId : runs[r].status = "absent" => runs[r] = NoRun

MirrorInv == TypeOK /\ FreshRuns /\ OutboxMirrorsRun

LEMMA ReapMirrors ==
  ASSUME MirrorInv, NEW r \in RunId
  PROVE  /\ Mirrors(ReapedRuns[r], ReapedOutbox[r])
         /\ ReapedRuns[r].status = "absent" => ReapedRuns[r] = NoRun
<1> DEFINE run == runs[r]
           next == Reaped(run)
<1>1. /\ run \in Run /\ outbox[r] \in Seq(Event) /\ Mirrors(run, outbox[r])
      /\ run.status \in Status /\ now \in Time /\ WellFormed(run)
  BY FieldTypes DEF MirrorInv, TypeOK, OutboxMirrorsRun, WellFormed
<1>2. next \in Run
  BY <1>1, ReapedWellFormed DEF WellFormed
<1>3. CASE Lapsed(run)
  <2>1. next.version = run.version + 1 /\ next.status # "absent"
    BY <1>1, <1>3, StepFields DEF Reaped, Lapsed, Active
  <2>2. Mirrors(next, Enqueue(outbox[r], ReapEvent(run)))
    BY <1>1, <1>2, <2>1, MirrorsNext DEF ReapEvent, Change
  <2> QED
    BY <1>3, <2>1, <2>2 DEF ReapedRuns, ReapedOutbox
<1>4. CASE ~Lapsed(run)
  BY <1>1, <1>4 DEF ReapedRuns, ReapedOutbox, Reaped, MirrorInv, FreshRuns
<1> QED
  BY <1>3, <1>4

LEMMA RowMirrors ==
  ASSUME NEW table \in [RunId -> Run], NEW boxes \in [RunId -> Seq(Event)],
         \A s \in RunId : /\ Mirrors(table[s], boxes[s])
                          /\ table[s].status = "absent" => table[s] = NoRun,
         NEW r \in RunId, NEW next \in Run, next.version = table[r].version + 1,
         next.status # "absent", NEW change \in Change,
         runs' = [table EXCEPT ![r] = next],
         outbox' = [boxes EXCEPT ![r] = Enqueue(@, RunEvent(next, change, table[r].status))]
  PROVE  FreshRuns' /\ OutboxMirrorsRun'
<1>1. Mirrors(next, Enqueue(boxes[r], RunEvent(next, change, table[r].status)))
  BY MirrorsNext, FieldTypes
<1>2. OutboxMirrorsRun'
  BY <1>1 DEF OutboxMirrorsRun
<1> QED
  BY <1>2 DEF FreshRuns

LEMMA CommitMirrors ==
  ASSUME MirrorInv, NEW r \in RunId, NEW next \in Run, NEW change \in Change,
         next.version = runs[r].version + 1, next.status # "absent",
         Commit(r, next, change)
  PROVE  FreshRuns' /\ OutboxMirrorsRun'
  BY RowMirrors DEF Commit, MirrorInv, TypeOK, FreshRuns, OutboxMirrorsRun

-----------------------------------------------------------------------------
(* Every step is of one of four kinds: it leaves the tables alone, it only *)
(* reaps, it replaces one row by its next version, or it reaps and grants. *)

\* What a step that grants nothing may do to a row.
QuietMove(run, next) ==
  /\ next.fencingToken = run.fencingToken
  /\ run.status \notin Terminal
  /\ next.status # "absent"
  /\ next.status = "leased" => run.status = "leased" /\ SameHolder(run, next)
  /\ next.status = "running" => run.status \in Active /\ SameHolder(run, next)
  /\ next.status = "queued" => run.status \in {"absent", "leased", "indeterminate"}
  /\ next.status \in Results => run.status = "running"
  /\ next.status = "indeterminate" => run.status = "running"
  /\ next.status = "canceled" => run.status # "absent"

\* What happens to the completion key and the priority of row r.
KeptColumns(r, next) ==
  /\ next.completionKey \in {runs[r].completionKey, None} \/ KeyFree(r, next.completionKey)
  /\ IF runs[r].status = "absent"
       THEN next = runs[r] \/ next.priority \in Priority
       ELSE next.priority = runs[r].priority

\* The executed set gains at most a holder of a run that is now running.
Executes ==
  \/ executed' = executed
  \/ \E l \in granted : /\ executed' = executed \cup {l}
                        /\ runs'[l.runId].status = "running"
                        /\ SameLease(runs'[l.runId], l)

RowStep(r, next, change) ==
  /\ QuietMove(runs[r], next)
  /\ KeptColumns(r, next)
  /\ next.version = runs[r].version + 1
  /\ runs[r].status = "indeterminate" /\ next.status = "queued" => change = "reconciled"
  /\ next.status = "running" =>
       runs[r].status = "running" \/ \E l \in executed' : l.runId = r /\ SameLease(next, l)
  /\ runs' = [runs EXCEPT ![r] = next]
  /\ outbox' = [outbox EXCEPT ![r] = Enqueue(@, RunEvent(next, change, runs[r].status))]
  /\ Executes
  /\ UNCHANGED <<nextLease, granted>>

GrantStep(r, w, ms) ==
  LET next == Leased(ReapedRuns[r], w, ms)
  IN  /\ Candidate(r)
      /\ runs' = [ReapedRuns EXCEPT ![r] = next]
      /\ outbox' = [ReapedOutbox EXCEPT ![r] = Enqueue(@, RunEvent(next, "leased", "queued"))]
      /\ nextLease' = nextLease + 1
      /\ granted' = granted \cup
           {[runId |-> r, workerId |-> w, leaseId |-> nextLease,
             fencingToken |-> next.fencingToken]}
      /\ executed' = executed

AnyRowStep == \E r \in RunId, next \in Run, change \in Change : RowStep(r, next, change)
AnyGrantStep == \E r \in Queue, w \in Worker, ms \in LeaseMs : GrantStep(r, w, ms)
ReapStep == Reap /\ UNCHANGED <<nextLease, granted, executed>>
StillStep == UNCHANGED <<runs, outbox, nextLease, granted>> /\ Executes

LEMMA EnqueueStep ==
  ASSUME TypeOK, FreshRuns, NEW r \in RunId, NEW p \in Priority, EnqueueRun(r, p)
  PROVE  AnyRowStep
<1> DEFINE next == Enqueued(runs[r], p)
<1>1. /\ runs[r] \in Run /\ runs[r].status = "absent" /\ LeaseColumns(runs[r])
      /\ now \in Time /\ runs[r].version = 0
  BY DEF TypeOK, EnqueueRun, FreshRuns, NoRun
<1>2. next \in Run
  BY <1>1, EnqueuedWellFormed DEF WellFormed
<1>3. QuietMove(runs[r], next) /\ next.version = runs[r].version + 1 /\ next.status = "queued"
  BY <1>1, StepFields DEF QuietMove, Results, Terminal
<1>4. RowStep(r, next, "scheduled")
  BY <1>1, <1>3, StepColumns DEF EnqueueRun, RowStep, KeptColumns, Executes
<1> QED
  BY <1>2, <1>4 DEF AnyRowStep, Change

LEMMA ClaimStep ==
  ASSUME NEW w \in Worker, NEW ms \in LeaseMs, ClaimRun(w, ms)
  PROVE  ReapStep \/ AnyGrantStep
  BY DEF ClaimRun, ReapStep, AnyGrantStep, GrantStep

\* A commit of a row is a row step once its move is quiet.
LEMMA CommitStep ==
  ASSUME NEW r \in RunId, NEW next \in Run, NEW change \in Change,
         QuietMove(runs[r], next), KeptColumns(r, next), next.version = runs[r].version + 1,
         Commit(r, next, change), Executes, UNCHANGED <<nextLease, granted>>,
         runs[r].status = "indeterminate" /\ next.status = "queued" => change = "reconciled",
         next.status = "running" =>
           runs[r].status = "running" \/ \E l \in executed' : l.runId = r /\ SameLease(next, l)
  PROVE  AnyRowStep
<1>1. RowStep(r, next, change)
  BY DEF RowStep, Commit
<1> QED
  BY <1>1 DEF AnyRowStep

LEMMA WorkerStep ==
  ASSUME TypeOK, NEW l \in granted, WorkerCall(l)
  PROVE  StillStep \/ ReapStep \/ AnyRowStep
<1> DEFINE r == l.runId
           run == runs[r]
<1>1. /\ r \in RunId /\ run \in Run /\ LeaseColumns(run) /\ now \in Time
      /\ l.workerId \in Worker
  BY DEF TypeOK, Lease
<1>2. CASE RefuseExpired(l)
  BY <1>2 DEF RefuseExpired, ReapStep
<1>3. CASE StartRun(l)
  <2>1. CASE run.status = "running" /\ UNCHANGED <<runs, outbox>>
    BY <1>3, <2>1 DEF StartRun, StillStep, Executes, ActiveLease
  <2>2. CASE run.status # "running" /\ Commit(r, Started(run), "started")
    <3> DEFINE next == Started(run)
    <3>1. run.status \in Active
      BY <1>1, <1>3, SchedulerAssumption DEF StartRun, ActiveLease, SameLease, LeaseColumns
    <3>2. next \in Run
      BY <1>1, <3>1, StartedWellFormed DEF WellFormed
    <3>3. /\ next.status = "running" /\ next.version = run.version + 1
          /\ next.fencingToken = run.fencingToken /\ SameHolder(run, next)
          /\ KeptColumns(r, next)
      BY <1>1, <3>1, StepFields, StepColumns DEF KeptColumns, Active
    <3>. HIDE DEF next
    <3>4. QuietMove(run, next)
      BY <3>1, <3>3 DEF QuietMove, Results, Terminal, Active
    <3>5. SameLease(next, l)
      BY <1>3, <3>3 DEF StartRun, ActiveLease, SameLease, SameHolder
    <3>6. runs'[r] = next
      BY <1>1, <2>2 DEF Commit, TypeOK, next
    <3>7. Executes
      BY <1>3, <3>3, <3>5, <3>6 DEF StartRun, Executes
    <3>8. Commit(r, next, "started") /\ "started" \in Change
      BY <2>2 DEF next, Change
    <3>9. l \in executed' /\ UNCHANGED <<nextLease, granted>>
      BY <1>3 DEF StartRun
    <3> QED
      BY <1>1, <3>2, <3>3, <3>4, <3>5, <3>7, <3>8, <3>9, CommitStep
  <2> QED
    BY <1>3, <2>1, <2>2 DEF StartRun
<1>4. ASSUME NEW ms \in LeaseMs, HeartbeatRun(l, ms)
      PROVE  AnyRowStep
  <2> DEFINE next == Heartbeat(run, ms)
  <2>1. next \in Run /\ run.status \in Active
    BY <1>1, <1>4, HeartbeatWellFormed DEF HeartbeatRun, WellFormed
  <2>2. /\ next.status = run.status /\ next.version = run.version + 1
        /\ next.fencingToken = run.fencingToken /\ SameHolder(run, next)
        /\ KeptColumns(r, next)
    BY <1>1, <2>1, StepFields, StepColumns DEF KeptColumns, Active
  <2>. HIDE DEF next
  <2>3. QuietMove(run, next)
    BY <2>1, <2>2 DEF QuietMove, Results, Terminal, Active
  <2>4. Commit(r, next, "heartbeat") /\ "heartbeat" \in Change
    BY <1>4 DEF HeartbeatRun, next, Change
  <2>5. Executes /\ UNCHANGED <<nextLease, granted>>
    BY <1>4 DEF HeartbeatRun, Executes
  <2> QED
    BY <1>1, <2>1, <2>2, <2>3, <2>4, <2>5, CommitStep DEF Active
<1>5. ASSUME NEW status \in Terminal, NEW key \in CompletionKey,
             NEW path \in ReportPath \cup {None}, CompleteRun(l, status, key, path)
      PROVE  AnyRowStep
  <2> DEFINE next == Finished(run, status, key, path)
             change == IF status = "canceled" THEN "canceled" ELSE "completed"
  <2>1. next \in Run
    BY FinishedWellFormed, <1>1 DEF WellFormed
  <2>2. /\ next.status = status /\ next.version = run.version + 1
        /\ next.fencingToken = run.fencingToken /\ KeptColumns(r, next)
    BY <1>1, <1>5, StepFields, StepColumns
    DEF KeptColumns, CompleteRun, Commit, CanTransition, Transitions, Terminal
  <2>3. Commit(r, next, change) /\ change \in Change
    BY <1>5 DEF CompleteRun, Change
  <2>. HIDE DEF next, change
  <2>4. QuietMove(run, next)
    BY <1>1, <1>5, <2>2, <2>3
    DEF QuietMove, Results, Terminal, Commit, CanTransition, Transitions, CompleteRun
  <2>5. Executes /\ UNCHANGED <<nextLease, granted>>
    BY <1>5 DEF CompleteRun, Executes
  <2> QED
    BY <1>1, <2>1, <2>2, <2>3, <2>4, <2>5, CommitStep DEF Terminal
<1> QED
  BY <1>2, <1>3, <1>4, <1>5 DEF WorkerCall

LEMMA OperatorStep ==
  ASSUME TypeOK, NEW r \in RunId, OperatorCall(r)
  PROVE  AnyRowStep
<1> DEFINE run == runs[r]
<1>1. run \in Run /\ now \in Time
  BY DEF TypeOK
<1>2. /\ Canceled(run) \in Run /\ Retried(run) \in Run
  BY <1>1, CanceledWellFormed, RetriedWellFormed DEF WellFormed
<1>3. /\ Canceled(run).status = "canceled" /\ Canceled(run).version = run.version + 1
      /\ Canceled(run).fencingToken = run.fencingToken
      /\ Retried(run).status = "queued" /\ Retried(run).version = run.version + 1
      /\ Retried(run).fencingToken = run.fencingToken
  BY <1>1, StepFields
<1>4. run.status \notin Terminal \cup {"absent"} => QuietMove(run, Canceled(run))
  BY <1>3 DEF QuietMove, Results, Terminal
<1>5. run.status # "absent" => KeptColumns(r, Canceled(run)) /\ KeptColumns(r, Retried(run))
  BY <1>1, StepColumns DEF KeptColumns
<1>6. ASSUME NEW v \in 1 .. runs[r].version, CancelRun(r, v)
      PROVE  AnyRowStep
  BY <1>2, <1>3, <1>4, <1>5, <1>6, CommitStep DEF CancelRun, Change, Executes
<1>7. ASSUME NEW v \in 1 .. runs[r].version, NEW action \in {"retry", "cancel"},
             ReconcileRun(r, v, action)
      PROVE  AnyRowStep
  <2>1. Executes /\ UNCHANGED <<nextLease, granted>> /\ "reconciled" \in Change
    BY <1>7 DEF ReconcileRun, Executes, Change
  <2>2. CASE action = "retry"
    <3>1. QuietMove(run, Retried(run))
      BY <1>3, <1>7 DEF QuietMove, Results, Terminal, ReconcileRun
    <3> QED
      BY <1>2, <1>3, <1>5, <1>7, <2>1, <2>2, <3>1, CommitStep DEF ReconcileRun
  <2>3. CASE action # "retry"
    BY <1>2, <1>3, <1>4, <1>5, <1>7, <2>1, <2>3, CommitStep DEF ReconcileRun, Terminal
  <2> QED
    BY <2>2, <2>3
<1> QED
  BY <1>6, <1>7 DEF OperatorCall

LEMMA StepKinds ==
  ASSUME TypeOK, FreshRuns, [Next]_vars
  PROVE  StillStep \/ ReapStep \/ AnyRowStep \/ AnyGrantStep
<1>1. CASE Tick \/ UNCHANGED vars
  BY <1>1 DEF Tick, vars, StillStep, Executes
<1>2. CASE ReapExpiredLeases
  BY <1>2 DEF ReapExpiredLeases, ReapStep
<1> QED
  BY <1>1, <1>2, EnqueueStep, ClaimStep, WorkerStep, OperatorStep DEF Next

\* A reaped row is unchanged, or was lapsed and moves quietly.
LEMMA ReapedRow ==
  ASSUME TypeOK, NEW r \in RunId
  PROVE  /\ ReapedRuns[r] \in Run
         /\ ReapedRuns[r].completionKey = runs[r].completionKey
         /\ ReapedRuns[r].priority = runs[r].priority
         /\ \/ ~Lapsed(runs[r]) /\ ReapedRuns[r] = runs[r] /\ ReapedOutbox[r] = outbox[r]
            \/ /\ Lapsed(runs[r]) /\ QuietMove(runs[r], ReapedRuns[r])
               /\ ReapedRuns[r].status \in {"queued", "indeterminate"}
               /\ ReapedRuns[r].status = "queued" => runs[r].status = "leased"
               /\ ReapedRuns[r].version = runs[r].version + 1
               /\ ReapedOutbox[r] = Enqueue(outbox[r], ReapEvent(runs[r]))
<1> DEFINE run == runs[r]
<1>1. run \in Run /\ now \in Time /\ WellFormed(run)
  BY DEF TypeOK, WellFormed
<1>2. ReapedRuns[r] = Reaped(run) /\ Reaped(run) \in Run
  BY <1>1, ReapedWellFormed DEF ReapedRuns, WellFormed
<1>3. CASE Lapsed(run)
  <2>1. ReapedOutbox[r] = Enqueue(outbox[r], ReapEvent(run))
    BY <1>3 DEF ReapedOutbox
  <2>2. CASE run.status = "leased"
    <3>1. Reaped(run) = Requeued(run)
      BY <1>3, <2>2 DEF Reaped
    <3> QED
      BY <1>1, <1>2, <1>3, <2>1, <2>2, <3>1, StepFields, StepColumns
      DEF QuietMove, Active, Results, Terminal
  <2>3. CASE run.status = "running"
    <3>1. Reaped(run) = Quarantined(run)
      BY <1>3, <2>3 DEF Reaped
    <3> QED
      BY <1>1, <1>2, <1>3, <2>1, <2>3, <3>1, StepFields, StepColumns
      DEF QuietMove, Active, Results, Terminal
  <2> QED
    BY <1>3, <2>2, <2>3 DEF Lapsed, Active
<1>4. CASE ~Lapsed(run)
  BY <1>2, <1>4 DEF ReapedOutbox, Reaped
<1> QED
  BY <1>2, <1>3, <1>4

-----------------------------------------------------------------------------
(* OutboxMirrorsRun.                                                       *)

LEMMA MirrorStep ==
  ASSUME MirrorInv, [Next]_vars
  PROVE  FreshRuns' /\ OutboxMirrorsRun'
<1>. TypeOK /\ FreshRuns /\ OutboxMirrorsRun
  BY DEF MirrorInv
<1>1. CASE StillStep
  BY <1>1 DEF StillStep, FreshRuns, OutboxMirrorsRun
<1>2. CASE ReapStep
  BY <1>2, ReapMirrors DEF ReapStep, Reap, FreshRuns, OutboxMirrorsRun
<1>3. ASSUME NEW r \in RunId, NEW next \in Run, NEW change \in Change, RowStep(r, next, change)
      PROVE  FreshRuns' /\ OutboxMirrorsRun'
  BY <1>3, RowMirrors DEF RowStep, QuietMove, TypeOK, FreshRuns, OutboxMirrorsRun
<1>4. ASSUME NEW r \in Queue, NEW w \in Worker, NEW ms \in LeaseMs, GrantStep(r, w, ms)
      PROVE  FreshRuns' /\ OutboxMirrorsRun'
  <2> DEFINE next == Leased(ReapedRuns[r], w, ms)
  <2>1. r \in RunId /\ ReapedRuns[r].status = "queued"
    BY DEF Queue
  <2>2. now \in Time /\ nextLease \in Nat /\ Tables
    BY DEF TypeOK, Tables
  <2>3. /\ ReapedRuns \in [RunId -> Run] /\ ReapedOutbox \in [RunId -> Seq(Event)]
        /\ ReapedRuns[r] \in Run
    BY <2>1, <2>2, ReapedTablesType
  <2>4. next \in Run
    BY <2>2, <2>3, LeasedWellFormed DEF WellFormed
  <2>5. next.version = ReapedRuns[r].version + 1 /\ next.status # "absent"
    BY <2>3, StepFields
  <2>6. /\ runs' = [ReapedRuns EXCEPT ![r] = next]
        /\ outbox' = [ReapedOutbox EXCEPT ![r] =
                        Enqueue(@, RunEvent(next, "leased", ReapedRuns[r].status))]
    BY <1>4, <2>1 DEF GrantStep
  <2>. HIDE DEF next
  <2>7. "leased" \in Change
    BY DEF Change
  <2> QED
    BY <2>1, <2>3, <2>4, <2>5, <2>6, <2>7, ReapMirrors, RowMirrors
<1> QED
  BY <1>1, <1>2, <1>3, <1>4, StepKinds DEF AnyRowStep, AnyGrantStep

\* Every version of every run is announced by exactly one event, in order.
THEOREM OutboxCorrect == Spec => []OutboxMirrorsRun
<1>1. Init => FreshRuns /\ OutboxMirrorsRun
  BY DEF Init, FreshRuns, OutboxMirrorsRun, Mirrors, NoRun
<1>2. TypeOK /\ FreshRuns /\ OutboxMirrorsRun /\ [Next]_vars => FreshRuns' /\ OutboxMirrorsRun'
  BY MirrorStep DEF MirrorInv
<1> QED
  BY <1>1, <1>2, TypeCorrect, PTL DEF Spec

LEMMA FreshCorrect == Spec => []FreshRuns
<1>1. Init => FreshRuns /\ OutboxMirrorsRun
  BY DEF Init, FreshRuns, OutboxMirrorsRun, Mirrors, NoRun
<1>2. TypeOK /\ FreshRuns /\ OutboxMirrorsRun /\ [Next]_vars => FreshRuns' /\ OutboxMirrorsRun'
  BY MirrorStep DEF MirrorInv
<1> QED
  BY <1>1, <1>2, TypeCorrect, PTL DEF Spec

-----------------------------------------------------------------------------
(* SingleLeaseHolder, strengthened by: no grant carries the token 0 of a   *)
(* run that was never claimed.                                             *)

GrantsNumbered == \A l \in granted : l.fencingToken > 0

HolderInv == SingleLeaseHolder /\ GrantsNumbered

\* A step that grants nothing and moves every row quietly.
LEMMA QuietHolder ==
  ASSUME TypeOK, HolderInv, granted' = granted,
         \A r \in RunId : runs'[r] = runs[r] \/ QuietMove(runs[r], runs'[r])
  PROVE  HolderInv'
<1>1. \A r \in RunId : runs'[r].fencingToken = runs[r].fencingToken
  BY DEF QuietMove
<1>2. \A r \in RunId : runs'[r].status \in Active =>
        runs[r].status \in Active /\ SameHolder(runs[r], runs'[r])
  BY DEF QuietMove, SameHolder, Active
<1>3. \A l \in granted : l.runId \in RunId
  BY DEF TypeOK, Lease
<1>4. \A r \in RunId : runs'[r].status \in Active =>
        \E l \in granted' : l.runId = r /\ SameLease(runs'[r], l)
  BY <1>1, <1>2 DEF HolderInv, SingleLeaseHolder, SameLease, SameHolder
<1> QED
  BY <1>1, <1>3, <1>4 DEF HolderInv, SingleLeaseHolder, GrantsNumbered

LEMMA HolderStep ==
  ASSUME TypeOK, FreshRuns, HolderInv, [Next]_vars
  PROVE  HolderInv'
<1>1. CASE StillStep
  BY <1>1, QuietHolder DEF StillStep
<1>2. CASE ReapStep
  BY <1>2, ReapedRow, QuietHolder DEF ReapStep, Reap
<1>3. ASSUME NEW r \in RunId, NEW next \in Run, NEW change \in Change, RowStep(r, next, change)
      PROVE  HolderInv'
  BY <1>3, QuietHolder DEF RowStep, TypeOK
<1>4. ASSUME NEW r \in Queue, NEW w \in Worker, NEW ms \in LeaseMs, GrantStep(r, w, ms)
      PROVE  HolderInv'
  <2> DEFINE next == Leased(ReapedRuns[r], w, ms)
             g == [runId |-> r, workerId |-> w, leaseId |-> nextLease,
                   fencingToken |-> next.fencingToken]
  <2>1. r \in RunId
    BY DEF Queue
  <2>2. \A s \in RunId : /\ ReapedRuns[s] \in Run /\ runs[s].fencingToken \in Nat
                         /\ ReapedRuns[s].fencingToken = runs[s].fencingToken
                         /\ ReapedRuns[s].status \in Active =>
                              runs[s].status \in Active /\ SameHolder(runs[s], ReapedRuns[s])
    BY ReapedRow, FieldTypes DEF QuietMove, SameHolder, TypeOK, Active
  <2>3. /\ next.fencingToken = runs[r].fencingToken + 1
        /\ next.workerId = w /\ next.leaseId = nextLease
    BY <2>1, <2>2, StepFields
  <2>4. /\ \A s \in RunId : runs'[s] = IF s = r THEN next ELSE ReapedRuns[s]
        /\ granted' = granted \cup {g}
    BY <1>4 DEF GrantStep, ReapedRuns
  <2>. HIDE DEF next
  <2>5. \A l \in granted : /\ l.runId \in RunId /\ l.fencingToken \in Nat
                           /\ l.fencingToken <= runs[l.runId].fencingToken
    BY DEF TypeOK, Lease, HolderInv, SingleLeaseHolder
  <2>6. \A l \in granted : l.runId = r => l.fencingToken < g.fencingToken
    BY <2>1, <2>2, <2>3, <2>5
  <2>7. \A l, m \in granted' :
          l.runId = m.runId /\ l.fencingToken = m.fencingToken => l = m
    <3>1. \A l, m \in granted :
            l.runId = m.runId /\ l.fencingToken = m.fencingToken => l = m
      BY DEF HolderInv, SingleLeaseHolder
    <3>2. g.runId = r
      OBVIOUS
    <3>. HIDE DEF g
    <3> QED
      BY <2>4, <2>5, <2>6, <2>3, <2>1, <2>2, <3>1, <3>2
  <2>8. \A l \in granted' : l.fencingToken <= runs'[l.runId].fencingToken /\ l.fencingToken > 0
    BY <2>1, <2>2, <2>3, <2>4, <2>5 DEF HolderInv, GrantsNumbered
  <2>9. \A s \in RunId : runs'[s].status \in Active =>
          \E l \in granted' : l.runId = s /\ SameLease(runs'[s], l)
    <3> SUFFICES ASSUME NEW s \in RunId, runs'[s].status \in Active
                 PROVE  \E l \in granted' : l.runId = s /\ SameLease(runs'[s], l)
      OBVIOUS
    <3>1. CASE s = r
      <4>1. g \in granted' /\ g.runId = s /\ SameLease(next, g)
        BY <2>3, <2>4, <3>1 DEF SameLease
      <4> QED
        BY <2>4, <3>1, <4>1
    <3>2. CASE s # r
      BY <2>2, <2>4, <3>2 DEF HolderInv, SingleLeaseHolder, SameLease, SameHolder
    <3> QED
      BY <3>1, <3>2
  <2> QED
    BY <2>7, <2>8, <2>9 DEF HolderInv, SingleLeaseHolder, GrantsNumbered
<1> QED
  BY <1>1, <1>2, <1>3, <1>4, StepKinds DEF AnyRowStep, AnyGrantStep

LEMMA HolderCorrect == Spec => []HolderInv
<1>1. Init => HolderInv
  BY DEF Init, HolderInv, SingleLeaseHolder, GrantsNumbered, NoRun, Active
<1>2. TypeOK /\ FreshRuns /\ HolderInv /\ [Next]_vars => HolderInv'
  BY HolderStep
<1> QED
  BY <1>1, <1>2, TypeCorrect, FreshCorrect, PTL DEF Spec

\* One holder at a time, and a fresh token for every grant.
THEOREM LeaseCorrect == Spec => []SingleLeaseHolder
<1>1. HolderInv => SingleLeaseHolder
  BY DEF HolderInv
<1> QED
  BY <1>1, HolderCorrect, PTL

-----------------------------------------------------------------------------
(* ReexecutionNeedsOperator and ResultFromLastLease, from one invariant    *)
(* about every lease that was told to execute.                             *)

\* The work of lease l is behind a retry, or still the run's latest work: then
\* the run is not leased again, and is queued again only by a retry.
Accounted(l) ==
  LET run == runs[l.runId]
  IN  /\ l.fencingToken < run.fencingToken =>
           RetriedBetween(outbox[l.runId], l.fencingToken, run.fencingToken)
      /\ l.fencingToken = run.fencingToken =>
           /\ run.status # "leased"
           /\ run.status = "queued" =>
                RetriedBetween(outbox[l.runId], l.fencingToken, l.fencingToken + 1)

\* Work in progress, and every result, belong to an executed lease.
HasExecuted(r) ==
  runs[r].status \in {"running"} \cup Results =>
    \E l \in executed : l.runId = r /\ l.fencingToken = runs[r].fencingToken

ExecInv ==
  /\ \A l \in executed : Accounted(l)
  /\ \A r \in RunId : HasExecuted(r)
  /\ ReexecutionNeedsOperator

\* No step removes or rewrites an event.
Grown ==
  \A r \in RunId : \A i \in DOMAIN outbox[r] :
    i \in DOMAIN outbox'[r] /\ outbox'[r][i] = outbox[r][i]

LEMMA EnqueueGrows ==
  ASSUME NEW box \in Seq(Event), NEW e
  PROVE  \A i \in DOMAIN box : i \in DOMAIN Enqueue(box, e) /\ Enqueue(box, e)[i] = box[i]
  BY DEF Enqueue

LEMMA OutboxGrows ==
  ASSUME TypeOK, FreshRuns, [Next]_vars
  PROVE  Grown
<1>. now \in Time /\ Tables
  BY DEF TypeOK, Tables
<1>1. CASE StillStep
  BY <1>1 DEF StillStep, Grown
<1>2. \A r \in RunId : \A i \in DOMAIN outbox[r] :
        i \in DOMAIN ReapedOutbox[r] /\ ReapedOutbox[r][i] = outbox[r][i]
  BY ReapedRow, EnqueueGrows DEF TypeOK
<1>3. CASE ReapStep
  BY <1>2, <1>3 DEF ReapStep, Reap, Grown
<1>4. ASSUME NEW r \in RunId, NEW next \in Run, NEW change \in Change, RowStep(r, next, change)
      PROVE  Grown
  BY <1>4, EnqueueGrows DEF RowStep, Grown, TypeOK
<1>5. ASSUME NEW r \in Queue, NEW w \in Worker, NEW ms \in LeaseMs, GrantStep(r, w, ms)
      PROVE  Grown
  <2> DEFINE e == RunEvent(Leased(ReapedRuns[r], w, ms), "leased", "queued")
  <2>1. r \in RunId /\ ReapedOutbox \in [RunId -> Seq(Event)]
    BY ReapedTablesType DEF Queue
  <2>2. \A i \in DOMAIN ReapedOutbox[r] :
          /\ i \in DOMAIN Enqueue(ReapedOutbox[r], e)
          /\ Enqueue(ReapedOutbox[r], e)[i] = ReapedOutbox[r][i]
    BY <2>1, EnqueueGrows
  <2>3. outbox' = [ReapedOutbox EXCEPT ![r] = Enqueue(@, e)]
    BY <1>5 DEF GrantStep
  <2>. HIDE DEF e
  <2> QED
    BY <1>2, <2>1, <2>2, <2>3 DEF Grown
<1> QED
  BY <1>1, <1>3, <1>4, <1>5, StepKinds DEF AnyRowStep, AnyGrantStep

LEMMA RetriedStays ==
  ASSUME Grown, NEW r \in RunId, NEW lo, NEW hi, RetriedBetween(outbox[r], lo, hi)
  PROVE  RetriedBetween(outbox'[r], lo, hi)
  BY DEF Grown, RetriedBetween

LEMMA RetriedWidens ==
  ASSUME NEW box \in Seq(Event), NEW lo, NEW hi \in Nat, NEW hi2 \in Nat, hi <= hi2,
         RetriedBetween(box, lo, hi)
  PROVE  RetriedBetween(box, lo, hi2)
<1>1. \A i \in DOMAIN box : box[i] \in Event
  OBVIOUS
<1>2. \A e \in Event : e.fencingToken \in Nat
  BY DEF Event
<1> QED
  BY <1>1, <1>2 DEF RetriedBetween

\* What a step that grants nothing does to a row, with the evidence it leaves.
EvidentMove(r) ==
  \/ runs'[r] = runs[r]
  \/ /\ QuietMove(runs[r], runs'[r])
     /\ runs[r].status = "indeterminate" /\ runs'[r].status = "queued" =>
          RetriedBetween(outbox'[r], runs[r].fencingToken, runs[r].fencingToken + 1)
     /\ runs'[r].status = "running" =>
          runs[r].status = "running" \/ \E l \in executed' : l.runId = r /\ SameLease(runs'[r], l)

LEMMA QuietExec ==
  ASSUME TypeOK, FreshRuns, HolderInv, ExecInv, Grown, Executes,
         \A r \in RunId : EvidentMove(r)
  PROVE  ExecInv'
<1>1. \A r \in RunId : runs'[r].fencingToken = runs[r].fencingToken
  BY DEF EvidentMove, QuietMove
<1>2. \A l \in granted : /\ l.runId \in RunId /\ l.fencingToken \in Nat
                         /\ l.fencingToken > 0
                         /\ l.fencingToken <= runs[l.runId].fencingToken
  BY DEF TypeOK, Lease, HolderInv, SingleLeaseHolder, GrantsNumbered
<1>3. executed \subseteq granted /\ executed' \subseteq granted /\ executed \subseteq executed'
  BY DEF TypeOK, Executes
<1>4. ASSUME NEW l \in executed PROVE Accounted(l)'
  <2> DEFINE r == l.runId
  <2>1. /\ r \in RunId /\ Accounted(l) /\ EvidentMove(r)
        /\ runs[r].status = "absent" => runs[r] = NoRun
    BY <1>2, <1>3 DEF ExecInv, FreshRuns
  <2>2. l.fencingToken < runs'[r].fencingToken =>
          RetriedBetween(outbox'[r], l.fencingToken, runs[r].fencingToken)
    BY <1>1, <2>1, RetriedStays DEF Accounted
  <2>3. ASSUME l.fencingToken = runs'[r].fencingToken
        PROVE  /\ runs'[r].status # "leased"
               /\ runs'[r].status = "queued" =>
                    RetriedBetween(outbox'[r], l.fencingToken, l.fencingToken + 1)
    <3>1. l.fencingToken = runs[r].fencingToken
      BY <1>1, <2>1, <2>3
    <3>2. runs[r].status # "absent"
      BY <1>2, <1>3, <2>1, <3>1 DEF NoRun
    <3>3. /\ runs[r].status # "leased"
          /\ runs[r].status = "queued" =>
               RetriedBetween(outbox[r], l.fencingToken, l.fencingToken + 1)
      BY <2>1, <3>1 DEF Accounted
    <3>4. runs[r].status = "queued" =>
            RetriedBetween(outbox'[r], l.fencingToken, l.fencingToken + 1)
      BY <2>1, <3>3, RetriedStays
    <3> QED
      BY <2>1, <3>1, <3>2, <3>3, <3>4 DEF EvidentMove, QuietMove
  <2> QED
    BY <1>1, <2>1, <2>2, <2>3 DEF Accounted
<1>5. ASSUME NEW l \in executed', l \notin executed
      PROVE  l.fencingToken = runs'[l.runId].fencingToken /\ runs'[l.runId].status = "running"
  BY <1>5 DEF Executes, SameLease
<1>6. ASSUME NEW l \in executed' PROVE Accounted(l)'
  <2>1. CASE l \in executed
    BY <1>4, <2>1
  <2>2. CASE l \notin executed
    <3>1. l.runId \in RunId /\ l.fencingToken \in Nat
      BY <1>2, <1>3
    <3>2. l.fencingToken = runs'[l.runId].fencingToken /\ runs'[l.runId].status = "running"
      BY <1>5, <2>2
    <3> QED
      BY <3>1, <3>2 DEF Accounted
  <2> QED
    BY <2>1, <2>2
<1>7. ASSUME NEW r \in RunId PROVE HasExecuted(r)'
  <2>1. HasExecuted(r) /\ EvidentMove(r)
    BY DEF ExecInv
  <2> QED
    BY <1>1, <1>3, <2>1 DEF HasExecuted, EvidentMove, QuietMove, SameLease, Results, Terminal
<1>8. ASSUME NEW l \in executed', NEW m \in executed', l.runId = m.runId,
             l.fencingToken < m.fencingToken
      PROVE  RetriedBetween(outbox'[l.runId], l.fencingToken, m.fencingToken)
  <2>1. l \in granted /\ m \in granted
    BY <1>3
  <2>2. CASE m \notin executed
    <3>1. m.fencingToken = runs'[m.runId].fencingToken
      BY <1>5, <2>2
    <3> QED
      BY <1>6, <1>8, <3>1 DEF Accounted
  <2>3. CASE m \in executed /\ l \in executed
    BY <1>2, <1>8, <2>1, <2>3, RetriedStays DEF ExecInv, ReexecutionNeedsOperator
  <2>4. CASE l \notin executed
    <3>1. l.fencingToken = runs[m.runId].fencingToken
      BY <1>1, <1>2, <1>5, <1>8, <2>1, <2>4
    <3> QED
      BY <1>2, <1>8, <2>1, <3>1
  <2> QED
    BY <2>2, <2>3, <2>4
<1> QED
  BY <1>6, <1>7, <1>8 DEF ExecInv, ReexecutionNeedsOperator

\* Reconciliation by retry leaves its event behind.
LEMMA RowEvident ==
  ASSUME TypeOK, OutboxMirrorsRun, NEW r \in RunId, NEW next \in Run, NEW change \in Change,
         RowStep(r, next, change)
  PROVE  \A s \in RunId : EvidentMove(s)
<1> DEFINE e == RunEvent(next, change, runs[r].status)
<1>1. /\ runs[r] \in Run /\ outbox[r] \in Seq(Event) /\ Mirrors(runs[r], outbox[r])
      /\ runs[r].status \in Status
  BY FieldTypes DEF TypeOK, OutboxMirrorsRun
<1>2. /\ e \in Event /\ e.version = runs[r].version + 1 /\ e.change = change
      /\ e.status = next.status /\ e.fencingToken = next.fencingToken
  BY <1>1, RunEventType DEF RunEvent, RowStep
<1>. HIDE DEF e
<1>3. /\ \A s \in RunId : s # r => runs'[s] = runs[s]
      /\ runs'[r] = next /\ outbox'[r] = Append(outbox[r], e)
  <2>1. Enqueue(outbox[r], e) = Append(outbox[r], e)
    BY <1>1, <1>2, NextEventIsNew
  <2> QED
    BY <2>1 DEF RowStep, TypeOK, e
<1>4. ASSUME runs[r].status = "indeterminate", next.status = "queued"
      PROVE  RetriedBetween(outbox'[r], runs[r].fencingToken, runs[r].fencingToken + 1)
  <2> DEFINE i == Len(outbox[r]) + 1
  <2>1. i \in DOMAIN outbox'[r] /\ outbox'[r][i] = e
    BY <1>1, <1>2, <1>3
  <2>2. e.change = "reconciled" /\ e.status = "queued" /\ e.fencingToken = runs[r].fencingToken
    BY <1>2, <1>4 DEF RowStep, QuietMove
  <2>3. runs[r].fencingToken \in Nat /\ runs'[r].fencingToken = runs[r].fencingToken
    BY <1>1, <1>3, FieldTypes DEF RowStep, QuietMove
  <2> QED
    BY <2>1, <2>2, <2>3 DEF RetriedBetween
<1> QED
  BY <1>3, <1>4 DEF EvidentMove, RowStep

LEMMA ReapEvident ==
  ASSUME TypeOK, ReapStep
  PROVE  \A r \in RunId : EvidentMove(r)
  BY ReapedRow DEF ReapStep, Reap, EvidentMove, QuietMove, Lapsed, Active

\* A grant: what executed before it stays behind a retry.
LEMMA GrantExec ==
  ASSUME TypeOK, FreshRuns, HolderInv, ExecInv, Grown,
         NEW r \in Queue, NEW w \in Worker, NEW ms \in LeaseMs, GrantStep(r, w, ms)
  PROVE  ExecInv'
<1> DEFINE next == Leased(ReapedRuns[r], w, ms)
<1>1. r \in RunId /\ ReapedRuns[r].status = "queued" /\ ReapedRuns[r] \in Run
  BY ReapedRow DEF Queue
<1>2. \A s \in RunId :
        /\ ReapedRuns[s].fencingToken = runs[s].fencingToken /\ runs[s].fencingToken \in Nat
        /\ \/ ReapedRuns[s] = runs[s]
           \/ ReapedRuns[s].status = "queued" /\ runs[s].status = "leased"
           \/ ReapedRuns[s].status \notin {"queued", "leased", "running"} \cup Results
  BY ReapedRow, FieldTypes DEF QuietMove, TypeOK, Lapsed, Active, Results, Terminal
<1>3. next.fencingToken = runs[r].fencingToken + 1 /\ next.status = "leased"
  BY <1>1, <1>2, StepFields
<1>4. /\ \A s \in RunId : runs'[s] = IF s = r THEN next ELSE ReapedRuns[s]
      /\ executed' = executed
  BY DEF GrantStep, ReapedRuns
<1>. HIDE DEF next
<1>5. \A l \in executed : /\ l.runId \in RunId /\ l.fencingToken \in Nat
                          /\ l.fencingToken <= runs[l.runId].fencingToken
                          /\ Accounted(l)
  BY DEF TypeOK, Lease, HolderInv, SingleLeaseHolder, ExecInv
<1>6. outbox' \in [RunId -> Seq(Event)]
  <2>1. TypeOK /\ Tables /\ now \in Time /\ nextLease \in Nat
    BY DEF TypeOK, Tables
  <2>2. next \in Run /\ ReapedOutbox \in [RunId -> Seq(Event)]
    BY <1>1, <2>1, ReapedTablesType, LeasedWellFormed DEF next, WellFormed
  <2>3. RunEvent(next, "leased", "queued") \in Event
    BY <2>2, RunEventType DEF Change, Status
  <2>4. Enqueue(ReapedOutbox[r], RunEvent(next, "leased", "queued")) \in Seq(Event)
    BY <1>1, <2>2, <2>3, EnqueueType
  <2> QED
    BY <1>1, <2>2, <2>4 DEF GrantStep, next
<1>7. ASSUME NEW l \in executed PROVE Accounted(l)'
  <2> DEFINE s == l.runId
  <2>1. s \in RunId /\ Accounted(l) /\ l.fencingToken \in Nat
    BY <1>5
  <2>2. CASE s # r
    <3>1. /\ runs'[s] = ReapedRuns[s] /\ runs'[s].fencingToken = runs[s].fencingToken
      BY <1>2, <1>4, <2>1, <2>2
    <3>2. l.fencingToken < runs[s].fencingToken =>
            RetriedBetween(outbox'[s], l.fencingToken, runs[s].fencingToken)
      BY <2>1, RetriedStays DEF Accounted
    <3>3. l.fencingToken = runs[s].fencingToken =>
            /\ runs[s].status # "leased"
            /\ runs[s].status = "queued" =>
                 RetriedBetween(outbox'[s], l.fencingToken, l.fencingToken + 1)
      BY <2>1, RetriedStays DEF Accounted
    <3> QED
      BY <1>2, <2>1, <3>1, <3>2, <3>3 DEF Accounted
  <2>3. CASE s = r
    <3>1. /\ runs'[s].fencingToken = runs[s].fencingToken + 1
          /\ runs[s].fencingToken \in Nat
          /\ l.fencingToken <= runs[s].fencingToken
      BY <1>2, <1>3, <1>4, <1>5, <2>1, <2>3
    <3>2. CASE l.fencingToken < runs[s].fencingToken
      <4>1. RetriedBetween(outbox'[s], l.fencingToken, runs[s].fencingToken)
        BY <2>1, <3>2, RetriedStays DEF Accounted
      <4>2. /\ outbox'[s] \in Seq(Event) /\ runs[s].fencingToken + 1 \in Nat
            /\ runs[s].fencingToken <= runs[s].fencingToken + 1
        BY <1>6, <2>1, <3>1
      <4>3. RetriedBetween(outbox'[s], l.fencingToken, runs[s].fencingToken + 1)
        BY <3>1, <4>1, <4>2, RetriedWidens
      <4> QED
        BY <2>1, <3>1, <3>2, <4>3 DEF Accounted
    <3>3. CASE l.fencingToken = runs[s].fencingToken
      <4>1. runs[s].status = "queued"
        BY <1>1, <1>2, <2>1, <2>3, <3>3 DEF Accounted
      <4>2. RetriedBetween(outbox'[s], l.fencingToken, l.fencingToken + 1)
        BY <2>1, <3>3, <4>1, RetriedStays DEF Accounted
      <4> QED
        BY <2>1, <3>1, <3>3, <4>2 DEF Accounted
    <3> QED
      BY <2>1, <3>1, <3>2, <3>3
  <2> QED
    BY <2>2, <2>3
<1>8. ASSUME NEW s \in RunId PROVE HasExecuted(s)'
  <2>1. HasExecuted(s)
    BY DEF ExecInv
  <2> QED
    BY <1>2, <1>3, <1>4, <2>1 DEF HasExecuted, Results, Terminal
<1>9. ReexecutionNeedsOperator'
  BY <1>4, <1>5, RetriedStays DEF ExecInv, ReexecutionNeedsOperator
<1> QED
  BY <1>4, <1>7, <1>8, <1>9 DEF ExecInv

LEMMA ExecStep ==
  ASSUME TypeOK, FreshRuns, OutboxMirrorsRun, HolderInv, ExecInv, [Next]_vars
  PROVE  ExecInv'
<1>1. Grown
  BY OutboxGrows
<1>2. CASE StillStep
  BY <1>1, <1>2, QuietExec DEF StillStep, EvidentMove
<1>3. CASE ReapStep
  BY <1>1, <1>3, ReapEvident, QuietExec DEF ReapStep, Executes
<1>4. CASE AnyRowStep
  BY <1>1, <1>4, RowEvident, QuietExec DEF AnyRowStep, RowStep
<1>5. CASE AnyGrantStep
  BY <1>1, <1>5, GrantExec DEF AnyGrantStep
<1> QED
  BY <1>2, <1>3, <1>4, <1>5, StepKinds

LEMMA ExecCorrect == Spec => []ExecInv
<1>1. Init => ExecInv
  BY DEF Init, ExecInv, HasExecuted, ReexecutionNeedsOperator, NoRun, Results, Terminal
<1>2. TypeOK /\ FreshRuns /\ OutboxMirrorsRun /\ HolderInv /\ ExecInv /\ [Next]_vars => ExecInv'
  BY ExecStep
<1> QED
  BY <1>1, <1>2, TypeCorrect, FreshCorrect, OutboxCorrect, HolderCorrect, PTL DEF Spec

\* Work that may have started runs again only after an operator's retry.
THEOREM ReexecutionCorrect == Spec => []ReexecutionNeedsOperator
<1>1. ExecInv => ReexecutionNeedsOperator
  BY DEF ExecInv
<1> QED
  BY <1>1, ExecCorrect, PTL

\* A result comes from the newest lease of the run, which had started the work.
THEOREM ResultCorrect == Spec => []ResultFromLastLease
<1>1. ExecInv => ResultFromLastLease
  BY DEF ExecInv, HasExecuted, ResultFromLastLease, Results
<1> QED
  BY <1>1, ExecCorrect, PTL
-----------------------------------------------------------------------------
(* What any step does to any one row, and what follows for final records,  *)
(* completion keys, the claim order and the refinement.                    *)

\* A grant takes a waiting run, or one whose lease the same call reaped.
GrantMove(run, next) ==
  /\ run.status \in {"queued", "leased"} /\ next.status = "leased"
  /\ next.fencingToken = run.fencingToken + 1

LEMMA RowFate ==
  ASSUME TypeOK, FreshRuns, [Next]_vars, NEW r \in RunId
  PROVE  /\ \/ runs'[r] = runs[r]
            \/ QuietMove(runs[r], runs'[r])
            \/ GrantMove(runs[r], runs'[r])
         /\ KeptColumns(r, runs'[r])
<1>1. runs \in [RunId -> Run] /\ runs[r] \in Run /\ nextLease \in Nat
  BY DEF TypeOK
<1>2. CASE StillStep
  BY <1>2 DEF StillStep, KeptColumns
<1>3. CASE ReapStep
  <2>1. runs'[r] = ReapedRuns[r]
    BY <1>3 DEF ReapStep, Reap
  <2> QED
    BY <2>1, ReapedRow DEF KeptColumns, Lapsed, Active
<1>4. ASSUME NEW t \in RunId, NEW next \in Run, NEW change \in Change, RowStep(t, next, change)
      PROVE  /\ runs'[r] = runs[r] \/ QuietMove(runs[r], runs'[r])
             /\ KeptColumns(r, runs'[r])
  <2>1. CASE r = t
    <3>1. runs'[r] = next
      BY <1>1, <1>4, <2>1 DEF RowStep
    <3> QED
      BY <1>4, <2>1, <3>1 DEF RowStep
  <2>2. CASE r # t
    <3>1. runs'[r] = runs[r]
      BY <1>1, <1>4, <2>2 DEF RowStep
    <3> QED
      BY <3>1 DEF KeptColumns
  <2> QED
    BY <2>1, <2>2
<1>5. ASSUME NEW t \in Queue, NEW w \in Worker, NEW ms \in LeaseMs, GrantStep(t, w, ms)
      PROVE  /\ \/ runs'[r] = runs[r]
                \/ QuietMove(runs[r], runs'[r])
                \/ GrantMove(runs[r], runs'[r])
             /\ KeptColumns(r, runs'[r])
  <2> DEFINE next == Leased(ReapedRuns[t], w, ms)
  <2>1. t \in RunId /\ ReapedRuns[t].status = "queued" /\ runs' = [ReapedRuns EXCEPT ![t] = next]
    BY <1>5 DEF Queue, GrantStep
  <2>2. ReapedRuns[r] \in Run /\ DOMAIN ReapedRuns = RunId
    BY ReapedRow DEF ReapedRuns
  <2>3. CASE r # t
    <3>1. runs'[r] = ReapedRuns[r]
      BY <2>1, <2>2, <2>3
    <3> QED
      BY <3>1, ReapedRow DEF KeptColumns, Lapsed, Active
  <2>4. CASE r = t
    <3>1. runs'[r] = Leased(ReapedRuns[r], w, ms)
      BY <2>1, <2>2, <2>4
    <3>2. /\ runs'[r].status = "leased"
          /\ runs'[r].fencingToken = ReapedRuns[r].fencingToken + 1
          /\ runs'[r].completionKey = runs[r].completionKey
          /\ runs'[r].priority = runs[r].priority
      BY <2>2, <3>1, StepFields, StepColumns, ReapedRow
    <3>3. /\ runs[r].status \in {"queued", "leased"}
          /\ ReapedRuns[r].fencingToken = runs[r].fencingToken
      BY <2>1, <2>4, ReapedRow DEF QuietMove
    <3> QED
      BY <3>2, <3>3 DEF GrantMove, KeptColumns
  <2> QED
    BY <2>3, <2>4
<1> QED
  BY <1>2, <1>3, <1>4, <1>5, StepKinds DEF AnyRowStep, AnyGrantStep

\* A terminal record is never rewritten, whoever calls with whatever identity
\* or version.
THEOREM FinalCorrect == Spec => TerminalIsFinal
<1>1. TypeOK /\ FreshRuns /\ [Next]_vars
        => [\A r \in RunId : runs[r].status \in Terminal => runs'[r] = runs[r]]_vars
  BY RowFate DEF QuietMove, GrantMove, Terminal
<1> QED
  BY <1>1, TypeCorrect, FreshCorrect, PTL DEF Spec, TerminalIsFinal

\* Two runs never record the same completion key: a completion compares its key
\* with every other row, and no other step gives a run a key.
LEMMA KeyStep ==
  ASSUME TypeOK, FreshRuns, CompletionKeyUnique, [Next]_vars
  PROVE  CompletionKeyUnique'
<1>1. CASE AnyRowStep
  <2>1. PICK t \in RunId, next \in Run, change \in Change : RowStep(t, next, change)
    BY <1>1 DEF AnyRowStep
  <2>2. \A r \in RunId : runs'[r] = IF r = t THEN next ELSE runs[r]
    BY <2>1 DEF RowStep, TypeOK
  <2> QED
    BY <2>1, <2>2 DEF RowStep, KeptColumns, KeyFree, CompletionKeyUnique
<1>2. ASSUME \A r \in RunId : runs'[r].completionKey = runs[r].completionKey
      PROVE  CompletionKeyUnique'
  BY <1>2 DEF CompletionKeyUnique
<1>3. CASE StillStep
  BY <1>2, <1>3 DEF StillStep
<1>4. CASE ReapStep
  BY <1>2, <1>4, ReapedRow DEF ReapStep, Reap
<1>5. CASE AnyGrantStep
  <2>1. PICK t \in Queue, w \in Worker, ms \in LeaseMs : GrantStep(t, w, ms)
    BY <1>5 DEF AnyGrantStep
  <2>2. /\ DOMAIN ReapedRuns = RunId /\ t \in RunId
        /\ runs' = [ReapedRuns EXCEPT ![t] = Leased(ReapedRuns[t], w, ms)]
    BY <2>1 DEF ReapedRuns, Queue, GrantStep
  <2>3. \A r \in RunId : runs'[r].completionKey = ReapedRuns[r].completionKey
    BY <2>2, StepColumns, ReapedRow
  <2> QED
    BY <1>2, <2>3, ReapedRow
<1> QED
  BY <1>1, <1>3, <1>4, <1>5, StepKinds

THEOREM KeysCorrect == Spec => []CompletionKeyUnique
<1>1. Init => CompletionKeyUnique
  BY DEF Init, CompletionKeyUnique, NoRun
<1>2. TypeOK /\ FreshRuns /\ CompletionKeyUnique /\ [Next]_vars => CompletionKeyUnique'
  BY KeyStep
<1> QED
  BY <1>1, <1>2, TypeCorrect, FreshCorrect, PTL DEF Spec

\* A run in the table has a priority.
Prioritized == \A r \in RunId : runs[r].status # "absent" => runs[r].priority \in Priority

LEMMA PriorityStep ==
  ASSUME TypeOK, FreshRuns, Prioritized, [Next]_vars
  PROVE  Prioritized'
  BY RowFate DEF Prioritized, KeptColumns, QuietMove, GrantMove

LEMMA PriorityCorrect == Spec => []Prioritized
<1>1. Init => Prioritized
  BY DEF Init, Prioritized, NoRun
<1>2. TypeOK /\ FreshRuns /\ Prioritized /\ [Next]_vars => Prioritized'
  BY PriorityStep
<1> QED
  BY <1>1, <1>2, TypeCorrect, FreshCorrect, PTL DEF Spec

\* Only a grant advances a token, and its candidate precedes what it leaves.
LEMMA ClaimOrder ==
  ASSUME TypeOK, FreshRuns, Prioritized, [Next]_vars,
         NEW r \in RunId, NEW s \in RunId,
         runs'[r].fencingToken > runs[r].fencingToken, runs'[s].status = "queued"
  PROVE  runs'[s].priority <= runs'[r].priority
<1>1. /\ \A x \in RunId : runs[x] \in Run /\ runs[x].fencingToken \in Nat
      /\ runs \in [RunId -> Run]
  BY DEF TypeOK, Run
<1>2. \A x \in RunId : ReapedRuns[x].fencingToken = runs[x].fencingToken
  BY ReapedRow DEF QuietMove
<1>3. ~StillStep
  BY <1>1 DEF StillStep
<1>4. ~ReapStep
  BY <1>1, <1>2 DEF ReapStep, Reap
<1>5. ~AnyRowStep
  BY <1>1 DEF AnyRowStep, RowStep, QuietMove
<1>6. PICK t \in Queue, w \in Worker, ms \in LeaseMs : GrantStep(t, w, ms)
  BY <1>3, <1>4, <1>5, StepKinds DEF AnyGrantStep
<1>7. /\ DOMAIN ReapedRuns = RunId /\ t \in RunId /\ Candidate(t)
      /\ runs' = [ReapedRuns EXCEPT ![t] = Leased(ReapedRuns[t], w, ms)]
  BY <1>6 DEF ReapedRuns, Queue, GrantStep
<1>8. r = t
  BY <1>1, <1>2, <1>7
<1>9. ReapedRuns[t] \in Run
  BY <1>7, ReapedRow
<1>10. /\ runs'[t].status = "leased" /\ runs'[t].priority = ReapedRuns[t].priority
       /\ nextLease \in Nat
  BY <1>7, <1>9, StepFields, StepColumns DEF TypeOK
<1>11. s # t /\ runs'[s] = ReapedRuns[s]
  BY <1>7, <1>10
<1>12. s \in Queue \ {t}
  BY <1>11 DEF Queue
<1>13. Before(ReapedRuns[t], t, ReapedRuns[s], s)
  BY <1>7, <1>12 DEF Candidate
<1>14. ReapedRuns[s].priority \in Int /\ ReapedRuns[t].priority \in Int
  <2>1. \A x \in Queue : runs[x].status # "absent"
    BY ReapedRow DEF Queue, QuietMove, Lapsed, Active
  <2>2. \A x \in Queue : runs[x].priority \in Priority /\ x \in RunId
    BY <2>1 DEF Prioritized, Queue
  <2> QED
    BY <1>12, <2>2, ReapedRow, SchedulerAssumption
<1> QED
  BY <1>8, <1>10, <1>11, <1>13, <1>14 DEF Before

\* A claim passes over no work of higher priority, the work its own reap put
\* back included.
THEOREM OrderCorrect == Spec => NoPriorityInversion
<1>1. TypeOK /\ FreshRuns /\ Prioritized /\ [Next]_vars
        => [\A r, s \in RunId :
              /\ runs'[r].fencingToken > runs[r].fencingToken
              /\ runs'[s].status = "queued"
              => runs'[s].priority <= runs'[r].priority]_vars
  BY ClaimOrder
<1> QED
  BY <1>1, TypeCorrect, FreshCorrect, PriorityCorrect, PTL DEF Spec, NoPriorityInversion

-----------------------------------------------------------------------------
(* The scheduler implements FencedWork.                                    *)

LEMMA PhaseValues ==
  /\ PhaseOf("absent") = "none" /\ PhaseOf("queued") = "waiting"
  /\ PhaseOf("leased") = "held" /\ PhaseOf("running") = "working"
  /\ PhaseOf("indeterminate") = "unknown"
  /\ \A status \in Terminal : PhaseOf(status) = "done"
  /\ \A status \in Status : PhaseOf(status) \in Promise!Phase
BY DEF PhaseOf, Terminal, Active, Status, Promise!Phase

\* Each row moves as a piece of work may.
LEMMA RowPromise ==
  ASSUME TypeOK, TypeOK', FreshRuns, [Next]_vars, NEW r \in RunId
  PROVE  Promise!Grant(r) \/ Promise!SameEpoch(r) \/ Promise!Stays(r)
<1> DEFINE run == runs[r]
           next == runs'[r]
<1>1. /\ WorkPhase[r] = PhaseOf(run.status) /\ WorkPhase'[r] = PhaseOf(next.status)
      /\ WorkEpoch[r] = run.fencingToken /\ WorkEpoch'[r] = next.fencingToken
      /\ WorkOutcome[r] = IF run.status \in Results THEN run.status ELSE None
      /\ WorkOutcome'[r] = IF next.status \in Results THEN next.status ELSE None
  BY DEF WorkPhase, WorkEpoch, WorkOutcome
<1>2. run \in Run /\ next \in Run /\ run.status \in Status /\ next.status \in Status
  BY DEF TypeOK, Run
<1> HIDE DEF run, next
<1> USE DEF Promise!Moves
<1>3. CASE next = run
  BY <1>1, <1>3 DEF Promise!Stays
<1>4. CASE GrantMove(run, next)
  BY <1>1, <1>4, PhaseValues DEF GrantMove, Promise!Grant, Results, Terminal
<1>5. CASE QuietMove(run, next)
  <2>1. WorkEpoch'[r] = WorkEpoch[r] /\ run.status \notin Results /\ WorkOutcome[r] = None
    BY <1>1, <1>5 DEF QuietMove, Results
  <2>2. CASE next.status = "leased"
    BY <1>1, <1>5, <2>1, <2>2 DEF QuietMove, Promise!Stays, Results, Terminal
  <2>3. CASE next.status = "running"
    BY <1>1, <1>5, <2>1, <2>3, PhaseValues
    DEF QuietMove, Promise!Stays, Promise!SameEpoch, Promise!Begin, Active, Results, Terminal
  <2>4. CASE next.status = "queued"
    BY <1>1, <1>5, <2>1, <2>4, PhaseValues
    DEF QuietMove, Promise!SameEpoch, Promise!Admit, Promise!Release, Promise!Retry,
        Results, Terminal
  <2>5. CASE next.status = "indeterminate"
    BY <1>1, <1>5, <2>1, <2>5, PhaseValues
    DEF QuietMove, Promise!SameEpoch, Promise!FallSilent, Results, Terminal
  <2>6. CASE next.status \in Results
    BY <1>1, <1>5, <2>1, <2>6, PhaseValues
    DEF QuietMove, Promise!SameEpoch, Promise!Report, Results
  <2>7. CASE next.status = "canceled"
    <3>1. run.status \in {"queued", "leased", "running", "indeterminate"}
      BY <1>2, <1>5, <2>7 DEF QuietMove, Status, Active
    <3> QED
      BY <1>1, <2>1, <2>7, <3>1, PhaseValues
      DEF Promise!SameEpoch, Promise!Abandon, Results, Terminal
  <2> QED
    BY <1>2, <1>5, <2>2, <2>3, <2>4, <2>5, <2>6, <2>7
    DEF QuietMove, Status, Active, Terminal, Results
<1> QED
  BY <1>3, <1>4, <1>5, RowFate DEF run, next

LEMMA PromiseShape ==
  ASSUME TypeOK'
  PROVE  Promise!Shape
<1>1. \A r \in RunId : runs'[r].status \in Status /\ runs'[r].fencingToken \in Nat
  BY DEF TypeOK, Run
<1>2. WorkPhase' \in [RunId -> Promise!Phase]
  BY <1>1, PhaseValues DEF WorkPhase
<1>3. WorkEpoch' \in [RunId -> Nat]
  BY <1>1 DEF WorkEpoch
<1>4. WorkOutcome' \in [RunId -> Results \cup {None}]
  BY DEF WorkOutcome
<1> QED
  BY <1>2, <1>3, <1>4 DEF Promise!Shape

\* The scheduler, with its clock, reaper, queue, versions and outbox, keeps the
\* promise of FencedWork: every step moves each run as a piece of fenced work.
THEOREM PromiseKept == Spec => ImplementsFencedWork
<1>1. Init => Promise!Init
  BY PhaseValues
  DEF Init, Promise!Init, WorkPhase, WorkEpoch, WorkOutcome, NoRun, Results, Terminal
<1>2. TypeOK /\ TypeOK' /\ FreshRuns /\ [Next]_vars => [Promise!Next]_(Promise!vars)
  BY RowPromise, PromiseShape DEF Promise!Next
<1> QED
  BY <1>1, <1>2, TypeCorrect, FreshCorrect, PTL DEF Spec, ImplementsFencedWork, Promise!Spec
=============================================================================
