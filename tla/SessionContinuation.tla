------------------------- MODULE SessionContinuation -------------------------
(***************************************************************************)
(* One turn of the kernel's runtime over a durable session, and its        *)
(* continuation by another process (packages/kernel runtime.ts and         *)
(* checkpoint.ts, packages/sessions runtime-event-store.ts).               *)
(*                                                                         *)
(* A turn writes, through its SessionEventStore, a safe checkpoint, the    *)
(* intent to call the model, a model checkpoint, and only then calls the   *)
(* model and runs the tools it asked for: a round.  Appending a checkpoint *)
(* event and saving the checkpoint are two transactions.  When the owner   *)
(* is gone, another process may continue() from a safe checkpoint that is  *)
(* the end of the log; in every other case the session is marked           *)
(* interrupted and closed.  continue() reads the checkpoint, the row and   *)
(* the log one after the other and decides on what it read.                *)
(*                                                                         *)
(* A process may crash between any two steps, which also stands for an     *)
(* append whose answer was lost: the runtime writes nothing after it.      *)
(***************************************************************************)
EXTENDS SessionStore

CONSTANTS
  First,      \* the owner that creates the session and begins the turn
  Steady,     \* the processes that do not crash
  MaxRounds,  \* bound: the model rounds of a turn
  MaxLease    \* bound: no renewal once the lease number reaches this

ASSUME TurnAssumption ==
  /\ First \in Owner
  /\ Steady \subseteq Owner
  /\ MaxRounds \in Nat \ {0}
  /\ MaxLease \in Nat

VARIABLES
  pc,        \* per process, its next step: of its turn, of continue(), or none
  work,      \* per process, its turn: the round, the checkpoint revision its
             \* adapter knows, and the seq of the last checkpoint event
  view,      \* per process, what continue() has read so far
  executed   \* the rounds whose model call was made, in order

store == <<row, events>>
vars == <<row, events, pc, work, view, executed>>

NoView == [round |-> 0, revision |-> 0, lease |-> 0]

Appending == {"start", "safe", "request", "model", "result", "terminal", "completed", "stopped"}
Saving == {"saveSafe", "saveModel", "saveTerminal"}
Turn == Appending \cup Saving \cup {"stream"}

Goto(o, where) == pc' = [pc EXCEPT ![o] = where]

-----------------------------------------------------------------------------
(* The turn: produce, runRounds, requestModelRound, publishTerminal.       *)

\* One event that is not a checkpoint.
Publish(o, from, kind, to) ==
  /\ pc[o] = from
  /\ AppendEvent(o, kind, work[o].round)
  /\ Goto(o, to)
  /\ UNCHANGED <<row, view, executed>>

Start(o) == Publish(o, "start", "started", "safe") /\ UNCHANGED work
Request(o) == Publish(o, "request", "request", "model") /\ UNCHANGED work
Complete(o) == Publish(o, "completed", "completed", "stopped") /\ UNCHANGED work
Stopped(o) == Publish(o, "stopped", "stopped", "done") /\ UNCHANGED work

\* Mutant: the checkpoint is saved for the seq before its event's.
CheckpointOneBehind(o, from, phase, to) ==
  /\ Publish(o, from, phase, to)
  /\ work' = [work EXCEPT ![o].at = Len(events)]

\* persistCheckpoint, first half: the runtime.checkpoint event.
Checkpoint(o, from, phase, to) ==
  /\ Publish(o, from, phase, to)
  /\ work' = [work EXCEPT ![o].at = Len(events) + 1]

\* Second half, in the same queued append of the adapter.  A checkpoint the row
\* is already ahead of is not saved.
Save(o, from, phase, to) ==
  /\ pc[o] = from
  /\ \/ /\ row.after > work[o].at
        /\ work' = [work EXCEPT ![o].revision = row.revision]
        /\ UNCHANGED row
     \/ /\ row.after <= work[o].at
        /\ SaveCheckpoint(o, work[o].revision, work[o].at, phase, work[o].round)
        /\ work' = [work EXCEPT ![o].revision = @ + 1]
  /\ Goto(o, to)
  /\ UNCHANGED <<events, view, executed>>

\* The model is called, and the tools it asks for are run.
Stream(o) ==
  /\ pc[o] = "stream"
  /\ executed' = Append(executed, work[o].round)
  /\ Goto(o, "result")
  /\ UNCHANGED <<store, work, view>>

\* The round's response and observations; then another round, or the end.
Result(o) ==
  /\ \/ work[o].round < MaxRounds /\ Publish(o, "result", "result", "safe")
     \/ Publish(o, "result", "result", "terminal")
  /\ work' = [work EXCEPT ![o].round = @ + 1]

\* Cancellation, an exhausted budget or a failed model call, wherever the
\* runtime looks for one: the turn ends without the rest of its round.
Stop(o) ==
  /\ pc[o] \in {"safe", "request", "model", "stream", "result"}
  /\ Goto(o, "terminal")
  /\ UNCHANGED <<store, work, view, executed>>

\* A refused append or save poisons the writer: nothing follows.
Refused(o) ==
  /\ \/ pc[o] \in Appending /\ ~CanAppend(o)
     \/ /\ pc[o] \in Saving
        /\ row.after <= work[o].at
        /\ ~CanSave(o, work[o].revision, work[o].at)
  /\ Goto(o, "failed")
  /\ UNCHANGED <<store, work, view, executed>>

\* The host closes the session of a finished turn, if the lease still allows.
Close(o) ==
  /\ pc[o] = "done"
  /\ CloseSession(o)
  /\ UNCHANGED <<pc, work, view, executed>>

Renew(o) ==
  /\ pc[o] \in Turn \cup {"done"}
  /\ row.lease < MaxLease
  /\ RenewLease(o)
  /\ UNCHANGED <<pc, work, view, executed>>

-----------------------------------------------------------------------------
(* continue(): loadCheckpoint, claimContinuation, markInterrupted.         *)

\* loadCheckpoint.  A terminal checkpoint is refused and nothing is marked.
Load(o) ==
  /\ pc[o] = "idle"
  /\ \/ row.phase = "safe" /\ Goto(o, "revision")
     \/ row.phase \in {"none", "model"} /\ Goto(o, "mark")
     \/ row.phase = "terminal" /\ UNCHANGED pc
  /\ view' = [view EXCEPT ![o].round = row.round]
  /\ UNCHANGED <<store, work, executed>>

\* claimContinuation reads the checkpoint ...
ReadRevision(o) ==
  /\ pc[o] = "revision"
  /\ view' = [view EXCEPT ![o].revision = row.revision]
  /\ Goto(o, "record")
  /\ UNCHANGED <<store, work, executed>>

\* ... then the row ...
ReadRecord(o) ==
  /\ pc[o] = "record"
  /\ view' = [view EXCEPT ![o].lease = row.lease]
  /\ Goto(o, "claim")
  /\ UNCHANGED <<store, work, executed>>

\* ... and claims.  The claimed payload must be the one that was loaded; when it
\* is not, the session is owned and its turn is not run.
Claim(o) ==
  /\ pc[o] = "claim"
  /\ ContinueSession(o, view[o].lease, view[o].revision)
  /\ work' = [work EXCEPT ![o] = [round |-> row.round, revision |-> row.revision + 1, at |-> 0]]
  /\ Goto(o, IF row.round = view[o].round THEN "safe" ELSE "idle")
  /\ view' = [view EXCEPT ![o] = NoView]
  /\ UNCHANGED executed

\* Mutant: a refused claim is only reported.
ClaimRefusedUnmarked(o) ==
  /\ pc[o] = "claim"
  /\ ~Continuable(o, view[o].lease, view[o].revision)
  /\ Goto(o, "idle")
  /\ view' = [view EXCEPT ![o] = NoView]
  /\ UNCHANGED <<store, work, executed>>

ClaimRefused(o) ==
  /\ pc[o] = "claim"
  /\ ~Continuable(o, view[o].lease, view[o].revision)
  /\ Goto(o, "mark")
  /\ UNCHANGED <<store, work, view, executed>>

\* markInterrupted reads the row; the log and the checkpoint, read next, only
\* fill in the marker's fields.
ReadMetadata(o) ==
  /\ pc[o] = "mark"
  /\ view' = [view EXCEPT ![o] = [NoView EXCEPT !.lease = row.lease]]
  /\ Goto(o, "recover")
  /\ UNCHANGED <<store, work, executed>>

\* With the lease it read expired, the session is marked and closed.  A lease
\* still live is left alone, and one renewed or replaced since is a conflict.
MarkInterrupted(o) ==
  /\ pc[o] = "recover"
  /\ \/ RecoverInterrupted(view[o].lease)
     \/ (row.lease # view[o].lease \/ row.live) /\ UNCHANGED store
  /\ Goto(o, "idle")
  /\ view' = [view EXCEPT ![o] = NoView]
  /\ UNCHANGED <<work, executed>>

-----------------------------------------------------------------------------
Crash(o) ==
  /\ o \notin Steady
  /\ pc[o] # "down"
  /\ Goto(o, "down")
  /\ UNCHANGED <<store, work, view, executed>>

LeaseExpires == Expire /\ UNCHANGED <<pc, work, view, executed>>

Init ==
  /\ row = Created(First)
  /\ events = <<>>
  /\ pc = [o \in Owner |-> IF o = First THEN "start" ELSE "idle"]
  /\ work = [o \in Owner |-> [round |-> 1, revision |-> 0, at |-> 0]]
  /\ view = [o \in Owner |-> NoView]
  /\ executed = <<>>

TurnStep(o) ==
  \/ Start(o)
  \/ Checkpoint(o, "safe", "safe", "saveSafe")
  \/ Save(o, "saveSafe", "safe", "request")
  \/ Request(o)
  \/ Checkpoint(o, "model", "model", "saveModel")
  \/ Save(o, "saveModel", "model", "stream")
  \/ Stream(o)
  \/ Result(o)
  \/ Checkpoint(o, "terminal", "terminal", "saveTerminal")
  \/ Save(o, "saveTerminal", "terminal", "completed")
  \/ Complete(o)
  \/ Stopped(o)

RecoveryStep(o) ==
  \/ Load(o)
  \/ ReadRevision(o) \/ ReadRecord(o) \/ Claim(o) \/ ClaimRefused(o)
  \/ ReadMetadata(o) \/ MarkInterrupted(o)

Next ==
  \/ \E o \in Owner :
       \/ TurnStep(o) \/ Stop(o) \/ Refused(o) \/ Close(o) \/ Renew(o)
       \/ RecoveryStep(o)
       \/ Crash(o)
  \/ LeaseExpires

Spec == Init /\ [][Next]_vars

\* Leases run out, and a process that does not crash retries continue().
Fairness == WF_vars(LeaseExpires) /\ \A o \in Steady : WF_vars(RecoveryStep(o))

FairSpec == Spec /\ Fairness

-----------------------------------------------------------------------------
(* Properties.                                                             *)

\* Uncertain work is never repeated (EVENTS.md, M14 and M15): whatever crashes,
\* stale owners and competing recoveries there were, the rounds were run in
\* order, each of them once.
RoundsExecutedOnce == \A i \in 1 .. Len(executed) : executed[i] = i

\* The checkpoint is the one its event announced, or was taken over with it:
\* row, cursor and log agree although they are written in two transactions.
CheckpointNamesItsEvent ==
  row.phase # "none" =>
    LET e == events[row.after]
    IN  /\ row.after > 0
        /\ e.round = row.round
        /\ e.kind = row.phase \/ (e.kind = "continued" /\ row.phase = "safe")

\* Stale owners cannot append (EVENTS.md, M15): the log passes from one writer to
\* another only by runtime.continued, and to nobody by session.restored.
WritersChangeByContinuation ==
  \A i \in 2 .. Len(events) :
    events[i].by # events[i - 1].by => events[i].kind \in {"continued", "restored"}

\* A continuation resumes a round of which nothing, not even the intent to call
\* the model, is in the log.
ContinuedFromSafeTail ==
  \A i \in 1 .. Len(events) :
    events[i].kind = "continued" =>
      /\ i > 1
      /\ events[i - 1].kind \in {"safe", "continued"}
      /\ events[i - 1].round = events[i].round

\* The marker of an interrupted session is its last event, hence its only one,
\* however many processes try to recover the session, and it closes it.
RestoredIsLast ==
  \A i \in 1 .. Len(events) :
    events[i].kind = "restored" => i = Len(events) /\ row.status = "closed"

\* A session whose owner is gone in the middle of its turn is in the end continued
\* or closed, as long as one process keeps trying to continue it.
SessionResolved ==
  (/\ row.status = "active"
   /\ row.phase # "terminal"
   /\ pc[row.owner] \in {"failed", "down"}
   /\ \E s \in Steady : pc[s] = "idle")
    ~> (row.status = "closed" \/ row.phase = "terminal" \/ pc[row.owner] \in Turn)

\* "If an expired active row already ends in a terminal agent.stopped, recovery
\* closes it as completed without manufacturing a restore marker" (EVENTS.md,
\* "Scheduling and replay ordering").
MarkerOnlyAfterNonterminalTail ==
  \A i \in 1 .. Len(events) :
    events[i].kind = "restored" =>
      \A j \in 1 .. i - 1 : events[j].kind # "stopped"
=============================================================================
