--------------------------- MODULE AgentConnection ---------------------------
(***************************************************************************)
(* One connection of the agent server (services/agent-server connection.ts)*)
(* and the other replicas that restore its sessions.  The requests of a    *)
(* connection are not serialized: newSession, prompt, cancel, permission   *)
(* answers, the idle, permission and lease timers, the lease refresh and   *)
(* the closing of the socket interleave at every await of the others.      *)
(* finishSession closes the durable row.  restoreSession, called on another *)
(* replica, reads the row, the size of the log and the clock one after the *)
(* other and then closes the session or marks it interrupted.              *)
(*                                                                         *)
(* Abstracted: validation of parameters, models, manifests and workspaces; *)
(* one lease is live until the clock passes its expiry, at any moment      *)
(* (Expire); a lease number stands for the metadata a renewal replaces.    *)
(* The process of the connection may crash (Crash) at any time.            *)
(***************************************************************************)
EXTENDS AgentLoop, FiniteSets

CONSTANTS
  Replica,      \* restore calls running on other replicas
  MaxSessions,  \* maxSessionsPerConnection
  Toolsets,     \* what a session's registry of tools may be
  MaxLease      \* bound: no lease refresh once the lease number reaches this

ASSUME ConnectionAssumption ==
  /\ MaxSessions \in Nat \ {0}
  /\ MaxLease \in Nat

VARIABLES
  conn,     \* "new", "open" (initialize was called), "closed" (close ran) or
            \* "down" (the process is gone)
  restore,  \* per replica, its restoreSession call
  answers   \* per session, the statuses restoreSession has answered

vars == <<ses, row, log, conn, restore, answers>>
others == <<conn, restore, answers>>

NoSession ==
  [state |-> "none", call |-> "none", aborted |-> FALSE, failed |-> FALSE,
   idle |-> FALSE, lease |-> "off", finish |-> "no",
   pc |-> "idle", stored |-> FALSE, plan |-> "none", steps |-> 0, calls |-> 0,
   effects |-> 0, ok |-> FALSE, void |-> FALSE,
   asks |-> 0, pending |-> FALSE, verdict |-> "none", told |-> "none",
   intent |-> "none", grants |-> {}, granted |-> {},
   wire |-> "none", tools |-> {}, tool |-> "none", meant |-> "none"]

NoRow == [status |-> "none", lease |-> 0, live |-> FALSE]
NoRestore == [at |-> "idle"]

Init ==
  /\ ses = [s \in Session |-> NoSession]
  /\ row = [s \in Session |-> NoRow]
  /\ log = [s \in Session |-> <<>>]
  /\ conn = "new"
  /\ restore = [r \in Replica |-> NoRestore]
  /\ answers = [s \in Session |-> {}]

Up == conn # "down"

\* route: nothing but initialize before initialize.
Receiving == conn = "open"

\* The sessions of the connection's map; none is ever taken out.
Sessions == {s \in Session : ses[s].state # "none"}

Remember(s, x) == ses' = [ses EXCEPT ![s] = x] /\ UNCHANGED <<row, log, others>>

-----------------------------------------------------------------------------
(* The transactions of the session store that the connection calls, beside *)
(* the appends of the loop; each locks the session's row.                  *)

CreatedRow == [status |-> "active", lease |-> 1, live |-> TRUE]

\* An active row is closed, for an owner only if its lease is live; a row that
\* is closed already stays as it is.
TransitionSession(s, owned) ==
  row' = IF row[s].status = "active" /\ (owned => row[s].live)
         THEN [row EXCEPT ![s].status = "closed"] ELSE row

SetMetadata(s) ==
  CanAppend(s) /\ row' = [row EXCEPT ![s].lease = @ + 1]

\* recoverInterrupted may go ahead: the metadata is what was read, and its lease
\* is over.
Recoverable(x) == row[x.s].lease = x.lease /\ ~row[x.s].live

-----------------------------------------------------------------------------
(* Permissions.                                                            *)

\* A pending request is settled: its promise keeps the first answer.
Settle(x, decision) ==
  [x EXCEPT !.pending = FALSE,
            !.verdict = IF x.pending /\ @ = "none" THEN decision ELSE @]

\* Mutant: the entry is left in the map when the request times out.
TimeoutKeepsEntry(s) ==
  /\ Up /\ ses[s].pending
  /\ Remember(s, [Settle(ses[s], "deny") EXCEPT !.pending = TRUE])

\* The timer of awaitPermission.
PermissionTimeout(s) ==
  /\ Up /\ ses[s].pending
  /\ Remember(s, Settle(ses[s], "deny"))

\* The client answers a request it has been sent; told is what it was told was
\* accepted.  An allow of an intent with scope "run" is a grant for later asks
\* of the sandboxed tool; the loop keeps its own (grants).
RespondPermission(s) ==
  /\ Receiving /\ ses[s].pending
  /\ ses[s].pc \in {"asked", "await", "inAwait"}
  /\ \E decision \in {"allow", "deny"} :
       Remember(s, [Settle(ses[s], decision) EXCEPT
                      !.told = decision,
                      !.granted = IF decision = "allow" THEN @ \cup ({ses[s].intent} \cap Commands)
                                                        ELSE @])

-----------------------------------------------------------------------------
(* The life of a session.                                                  *)

\* initialize: once, of a version and with the capabilities it must have;
\* otherwise it is refused and the connection stays as it is.
Initialize ==
  /\ conn = "new" /\ conn' = "open"
  /\ UNCHANGED <<ses, row, log, restore, answers>>

\* finishSession up to its await: timers off, pending requests denied.
Finishing(x, closeDurable) ==
  [Settle(x, "deny") EXCEPT
     !.idle = FALSE,
     !.lease = IF @ = "armed" THEN "off" ELSE @,
     !.finish = IF closeDurable THEN "closing" ELSE "done"]

Canceled(x) == Finishing([x EXCEPT !.state = "canceled"], TRUE)

\* newSession, up to its first await: the cap is looked at here.
NewSession(s) ==
  /\ Receiving /\ ses[s].call = "none"
  /\ Cardinality(Sessions) < MaxSessions
  /\ Remember(s, [ses[s] EXCEPT !.call = "create"])

\* createSession, with the lease; it may also fail.
CreateSession(s) ==
  /\ Up /\ ses[s].call = "create"
  /\ \/ /\ row' = [row EXCEPT ![s] = CreatedRow]
        /\ ses' = [ses EXCEPT ![s].call = "insert"]
     \/ /\ ses' = [ses EXCEPT ![s].call = "refused"]
        /\ UNCHANGED row
  /\ UNCHANGED <<log, others>>

\* The end of newSession: idle timer, lease timer, and into the map, also when
\* the connection was closed meanwhile.
InsertSession(s) ==
  /\ Up /\ ses[s].call = "insert"
  /\ Remember(s, [ses[s] EXCEPT !.call = "done", !.state = "created",
                                !.idle = TRUE, !.lease = "armed"])

\* prompt: only a created session, and at once running.
Prompt(s) ==
  /\ Receiving /\ ses[s].state = "created"
  /\ \E tools \in Toolsets :
       Remember(s, [ses[s] EXCEPT !.state = "running", !.idle = FALSE, !.pc = "created",
                                  !.tools = tools])

\* The end of prompt: the state the session ends in, and its row is closed
\* unless an event could not be recorded.
PromptEnds(s) ==
  LET x == ses[s] IN
  /\ Up /\ x.pc = "ended" /\ x.state = "running"
  /\ Remember(s, Finishing([x EXCEPT !.state = IF x.failed THEN "failed"
                                               ELSE IF x.aborted THEN "canceled"
                                               ELSE IF x.ok THEN "completed"
                                               ELSE "failed"],
                           ~x.failed))

\* A created session nobody prompts.
IdleTimeout(s) ==
  /\ Up /\ ses[s].idle /\ ses[s].state = "created"
  /\ Remember(s, Canceled([ses[s] EXCEPT !.aborted = TRUE]))

\* cancelSession of one that is not over, and what close does to each session.
Cancel(x) ==
  LET y == [Settle(x, "deny") EXCEPT !.aborted = TRUE] IN
  IF x.state = "created" THEN Canceled(y) ELSE y

CancelSession(s) ==
  /\ Receiving /\ ses[s].state \in {"created", "running"}
  /\ Remember(s, Cancel(ses[s]))

Close ==
  /\ conn \in {"new", "open"}
  /\ conn' = "closed"
  /\ ses' = [s \in Session |-> IF s \in Sessions THEN Cancel(ses[s]) ELSE ses[s]]
  /\ UNCHANGED <<row, log, restore, answers>>

\* finishSession's transaction, fenced by the owner: the row is closed, was
\* closed already, or the call is refused and the row left to a restore.
CloseRow(s) ==
  /\ Up /\ ses[s].finish = "closing"
  /\ ses' = [ses EXCEPT ![s].finish = "done"]
  /\ TransitionSession(s, TRUE)
  /\ UNCHANGED <<log, others>>

-----------------------------------------------------------------------------
(* The lease.                                                              *)

LeaseTimer(s) ==
  /\ Up /\ ses[s].lease = "armed"
  /\ Remember(s, [ses[s] EXCEPT !.lease = IF ses[s].state \in Over THEN "off" ELSE "renew"])

\* setMetadata after the clock was read: renewed and armed again, or refused,
\* which aborts the run.
RefreshLease(s) ==
  /\ Up /\ ses[s].lease = "renew"
  /\ \/ /\ row[s].lease < MaxLease /\ SetMetadata(s)
        /\ ses' = [ses EXCEPT ![s].lease = "armed"]
     \/ /\ ~CanAppend(s)
        /\ ses' = [ses EXCEPT ![s] = [@ EXCEPT !.lease = "off", !.failed = TRUE, !.aborted = TRUE]]
        /\ UNCHANGED row
  /\ UNCHANGED <<log, others>>

Expire(s) ==
  /\ row[s].live
  /\ row' = [row EXCEPT ![s].live = FALSE]
  /\ UNCHANGED <<ses, log, others>>

\* The memory of the process is lost.
Crash ==
  /\ Up
  /\ conn' = "down"
  /\ ses' = [s \in Session |-> NoSession]
  /\ UNCHANGED <<row, log, restore, answers>>

-----------------------------------------------------------------------------
(* restoreSession on another replica r.                                    *)

At(r, where) == restore[r].at = where
Restoring(r, x) == restore' = [restore EXCEPT ![r] = x] /\ UNCHANGED <<ses, conn>>

Answer(r, s, status) ==
  /\ answers' = [answers EXCEPT ![s] = @ \cup {status}]
  /\ Restoring(r, NoRestore)

\* session.restored
Marker == [kind |-> "restored", intent |-> "none"]

\* readSessionEvents: a page of the log, whose sequence numbers begin with 0.
ReadEvents(s, afterSeq, limit) == SubSeq(log[s], afterSeq + 2, afterSeq + 1 + limit)

\* The last event of the log is of one of the kinds.
LastEventIn(s, kinds) ==
  LET size == Len(log[s]) IN
  size > 0 /\ ReadEvents(s, size - 2, 1)[1].kind \in kinds

\* Mutant: every log that does not end with a stop was interrupted.
StatusByStop(s) ==
  IF log[s] # <<>> /\ Last(log[s]).kind \in Stops THEN "completed" ELSE "interrupted"

\* restoredStatus: the tail of the log tells.
RestoredStatus(s) ==
  IF LastEventIn(s, {"restored"}) THEN "interrupted" ELSE "completed"

ReadRow(r) ==
  /\ At(r, "idle")
  /\ \E s \in Session :
       /\ row[s].status # "none"
       /\ Restoring(r, [at |-> "size", s |-> s, status |-> row[s].status,
                        lease |-> row[s].lease, stopped |-> FALSE])
  /\ UNCHANGED <<row, log, answers>>

\* log.size(), and whether the last event of that size, which never changes and
\* is read once the clock allows it, is agent.stopped.
ReadSize(r) ==
  LET x == restore[r] IN
  /\ At(r, "size")
  /\ Restoring(r, IF x.status = "active"
                  THEN [x EXCEPT !.at = "clock",
                                 !.stopped = LastEventIn(x.s, Stops)]
                  ELSE [x EXCEPT !.at = "status"])
  /\ UNCHANGED <<row, log, answers>>

\* The clock against the expiry that was read, which may be behind it although
\* the lease, renewed since, is live.
ReadClock(r) ==
  LET x == restore[r] IN
  /\ At(r, "clock")
  /\ \/ /\ row[x.s].live
        /\ Restoring(r, NoRestore)
     \/ /\ ~row[x.s].live \/ row[x.s].lease # x.lease
        /\ Restoring(r, [x EXCEPT !.at = IF x.stopped THEN "close" ELSE "mark"])
  /\ UNCHANGED <<row, log, answers>>

\* agent.stopped was durable and only the closing lost: transitionSession with
\* no owner.
RestoreCloses(r) ==
  LET s == restore[r].s IN
  /\ At(r, "close")
  /\ \/ /\ row[s].status = "active"
        /\ TransitionSession(s, FALSE)
        /\ Answer(r, s, "completed")
     \/ /\ row[s].status = "closed"
        /\ Restoring(r, [restore[r] EXCEPT !.at = "status"])
        /\ UNCHANGED <<row, answers>>
  /\ UNCHANGED log

\* Mutant: the marker is written whoever holds the lease now.
MarkUnfenced(r) ==
  LET x == restore[r] IN
  /\ At(r, "mark")
  /\ row' = [row EXCEPT ![x.s].status = "closed"]
  /\ log' = [log EXCEPT ![x.s] = Append(@, Marker)]
  /\ Answer(r, x.s, "interrupted")

\* recoverInterrupted: a conflict when the metadata is not what was read or the
\* lease is live; the marker and the closing, unless another closer was first.
RestoreMarks(r) ==
  LET x == restore[r] IN
  /\ At(r, "mark")
  /\ \/ /\ ~Recoverable(x)
        /\ Restoring(r, NoRestore)
        /\ UNCHANGED <<row, log, answers>>
     \/ /\ Recoverable(x) /\ row[x.s].status = "active"
        /\ row' = [row EXCEPT ![x.s].status = "closed"]
        /\ log' = [log EXCEPT ![x.s] = Append(@, Marker)]
        /\ Answer(r, x.s, "interrupted")
     \/ /\ Recoverable(x) /\ row[x.s].status = "closed"
        /\ Restoring(r, [x EXCEPT !.at = "status"])
        /\ UNCHANGED <<row, log, answers>>

ReadStatus(r) ==
  /\ At(r, "status")
  /\ Answer(r, restore[r].s, RestoredStatus(restore[r].s))
  /\ UNCHANGED <<row, log>>

-----------------------------------------------------------------------------
Loop(s) == Up /\ LoopStep(s) /\ UNCHANGED others
Answered(s) == Up /\ Provider(s) /\ UNCHANGED others

Next ==
  \/ \E s \in Session :
       \/ Loop(s) \/ Answered(s)
       \/ NewSession(s) \/ CreateSession(s) \/ InsertSession(s)
       \/ Prompt(s) \/ PromptEnds(s) \/ IdleTimeout(s) \/ CancelSession(s) \/ CloseRow(s)
       \/ PermissionTimeout(s) \/ RespondPermission(s)
       \/ LeaseTimer(s) \/ RefreshLease(s) \/ Expire(s)
  \/ Initialize \/ Close \/ Crash
  \/ \E r \in Replica :
       \/ ReadRow(r) \/ ReadSize(r) \/ ReadClock(r)
       \/ RestoreCloses(r) \/ RestoreMarks(r) \/ ReadStatus(r)

Spec == Init /\ [][Next]_vars

\* The event loop runs what is ready, promises settle, timers fire, and the
\* store answers; a tool ends, a sandboxed one by its timeout.  Nothing is
\* asked of the provider.
Fairness ==
  \A s \in Session :
    /\ WF_vars(Loop(s))
    /\ WF_vars(CreateSession(s)) /\ WF_vars(InsertSession(s))
    /\ WF_vars(PromptEnds(s)) /\ WF_vars(IdleTimeout(s))
    /\ WF_vars(PermissionTimeout(s))

FairSpec == Spec /\ Fairness

-----------------------------------------------------------------------------
\* The last index at which the log of s has one of the kinds; 0 for none.
LastOf(s, kinds) == SelectLastInSubSeq(log[s], 1, Len(log[s]), LAMBDA e : e.kind \in kinds)

\* The last decision about a call of the loop allows it: the policy, the operator
\* asked about it, or, where the policy asks, an operator who was asked about the
\* same command earlier in this run.
Decisions == {"policyAllow", "policyAsk", "policyDeny", "asked", "allowed", "denied"}

Authorized(s) ==
  LET i == LastOf(s, Decisions) IN
  /\ i > LastOf(s, {"call"})
  /\ \/ log[s][i].kind \in {"policyAllow", "allowed"}
     \/ /\ log[s][i].kind = "policyAsk" /\ log[s][i].intent \in Commands
        /\ [kind |-> "allowed", intent |-> log[s][i].intent] \in Range(log[s])

\* A tool begins only behind the durability fence: its call is in the log with
\* no result yet, and so is what allows it, for this call or for the run; the run
\* is not aborted, no event of the session failed to be recorded, and it is the
\* tool the provider was shown under the name it called (run.ts, its
\* runPermissionGrants, connection.ts recordEvent, openai-compatible.ts complete).
EffectsAreDurable ==
  [][\A s \in Session : ses'[s].effects > ses[s].effects =>
       /\ ~ses[s].aborted /\ ~ses[s].failed
       /\ LastOf(s, {"call"}) > LastOf(s, {"result"})
       /\ Authorized(s)
       /\ ses[s].tool = ses[s].meant]_vars

\* An answer the client was told was accepted is the one the asker gets, however
\* the timeout, a cancel and the end of the session race with it
\* (respondPermission, awaitPermission, denyPending).
AcceptedAnswerStands ==
  \A s \in Session : ses[s].told # "none" => ses[s].verdict = ses[s].told

\* Whatever restoreSession has answered about a session, on any replica and at
\* any time, agrees with the log it leaves: interrupted exactly when the log
\* ends with the marker (restoreSession, restoredStatus, recoverInterrupted).
RestoresAgree ==
  \A s \in Session : \A status \in answers[s] :
    /\ row[s].status = "closed"
    /\ status = "interrupted" <=> log[s] # <<>> /\ Last(log[s]).kind = "restored"

\* A restore does not end the work of an owner whose lease is live, unless the
\* log said that it was over.
RestoreSparesLiveOwner ==
  [][\A s \in Session :
       row[s].status = "active" /\ row'[s].status = "closed" /\ row[s].live
         => ses[s].finish = "closing" \/ LastOf(s, Stops) > 0]_vars

\* A session that was created or is running ends, unless the process does:
\* nobody waits forever for a permission, a prompt, a tool or a provider that
\* stalls anywhere in its answer.
SessionsEnd ==
  \A s \in Session :
    ses[s].state \in {"created", "running"} ~> (~Up \/ ses[s].state \in Over)
=============================================================================
