---------------------------- MODULE SessionStore ----------------------------
(***************************************************************************)
(* The durable store of one session (packages/sessions): a row with its    *)
(* status, its owner's lease and its checkpoint, and the append-only event *)
(* log.  Every operator below is one transaction, taken under the session  *)
(* row's lock (SQLite: BEGIN IMMEDIATE; Postgres: SELECT ... FOR UPDATE);  *)
(* the modules of the processes that use the store extend this one.        *)
(*                                                                         *)
(* Clock readings are abstracted: the row says whether its lease is still  *)
(* live, and Expire, at any moment, ends it.  A lease number stands for    *)
(* the metadata value (owner and expiry), which a renewal makes different. *)
(* A checkpoint payload is its phase and the model round it resumes at.    *)
(* Sequence numbers start at 1 here, at 0 in the code.                     *)
(***************************************************************************)
EXTENDS Naturals, Sequences

CONSTANTS
  Owner,   \* owner ids, one process each
  None     \* written by nobody's lease

ASSUME StoreAssumption == None \notin Owner

VARIABLES
  row,     \* the sessions row
  events   \* the events of the session, in seq order

\* Phases of a checkpoint: "none" when there is none, "safe", "model" (the model
\* was called) and "terminal".
NewEvent(kind, o, r) == [kind |-> kind, by |-> o, round |-> r]

Created(o) ==
  [status |-> "active", owner |-> o, lease |-> 1, live |-> TRUE,
   revision |-> 0, after |-> 0, phase |-> "none", round |-> 0]

\* Mutant: a live lease is enough, whoever holds it.
OwnsByLease(o) == row.live

\* assertAppendOwnership
Owns(o) == row.owner = o /\ row.live

CanAppend(o) == row.status = "active" /\ Owns(o)

\* appendEvent through an owner-bound log; every event has an id of its own.
AppendEvent(o, kind, r) ==
  /\ CanAppend(o)
  /\ events' = Append(events, NewEvent(kind, o, r))

\* saveCheckpoint: compare-and-swap on the revision, never backwards, never
\* ahead of the log.
CanSave(o, expected, after) ==
  /\ CanAppend(o)
  /\ row.revision = expected
  /\ row.after <= after
  /\ after <= Len(events)

SaveCheckpoint(o, expected, after, phase, r) ==
  /\ CanSave(o, expected, after)
  /\ row' = [row EXCEPT !.revision = expected + 1, !.after = after,
                        !.phase = phase, !.round = r]

\* Mutant: work that may have begun is continued too.
ContinuableInAnyPhase(o, lease, revision) ==
  /\ row.status = "active" /\ row.lease = lease
  /\ ~row.live
  /\ row.owner # o
  /\ row.phase # "none"
  /\ row.revision = revision
  /\ row.after = Len(events)

\* Mutant: a tail behind the checkpoint is overlooked.
ContinuableWithTail(o, lease, revision) ==
  /\ row.status = "active" /\ row.lease = lease
  /\ ~row.live
  /\ row.owner # o
  /\ row.phase = "safe"
  /\ row.revision = revision

\* assertContinuation: the row is as it was read, its lease has expired, the
\* claimant is new, and the safe checkpoint is the end of the log.
Continuable(o, lease, revision) ==
  /\ row.status = "active" /\ row.lease = lease
  /\ ~row.live
  /\ row.owner # o
  /\ row.phase = "safe"
  /\ row.revision = revision
  /\ row.after = Len(events)

Continued(o) ==
  [row EXCEPT !.owner = o, !.lease = @ + 1, !.live = TRUE,
              !.revision = @ + 1, !.after = Len(events) + 1]

\* continueSession
ContinueSession(o, lease, revision) ==
  /\ Continuable(o, lease, revision)
  /\ events' = Append(events, NewEvent("continued", o, row.round))
  /\ row' = Continued(o)

\* Mutant: the status is not looked at.
RecoverClosedToo(lease) ==
  /\ row.lease = lease /\ ~row.live
  /\ events' = Append(events, NewEvent("restored", None, 0))
  /\ row' = [row EXCEPT !.status = "closed"]

\* recoverInterrupted: the row is as it was read and its lease has expired; a
\* session closed meanwhile stays as it is.
RecoverInterrupted(lease) ==
  /\ row.lease = lease /\ ~row.live
  /\ IF row.status = "active"
       THEN /\ events' = Append(events, NewEvent("restored", None, 0))
            /\ row' = [row EXCEPT !.status = "closed"]
       ELSE UNCHANGED <<row, events>>

\* transitionSession from active to closed, fenced by the owner.
CloseSession(o) ==
  /\ CanAppend(o)
  /\ row' = [row EXCEPT !.status = "closed"]
  /\ UNCHANGED events

\* setMetadata by the owner: the same lease, with a later expiry.
RenewLease(o) ==
  /\ CanAppend(o)
  /\ row' = [row EXCEPT !.lease = @ + 1]
  /\ UNCHANGED events

Expire ==
  /\ row.live
  /\ row' = [row EXCEPT !.live = FALSE]
  /\ UNCHANGED events
=============================================================================
