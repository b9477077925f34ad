------------------------------- MODULE Outbox -------------------------------
(***************************************************************************)
(* The control plane's event outbox (services/control-plane): mutations    *)
(* insert events in the transaction that changes the record, and one       *)
(* OutboxPublisher per replica copies them, in order and under a fenced    *)
(* claim, into the durable stream.  The tables follow the Postgres         *)
(* repository; the in-memory one differs only in having no open            *)
(* transactions.                                                           *)
(*                                                                         *)
(* Durations are abstracted: a claim that was not ended in time lapses, and *)
(* a released event becomes due again.  Storage calls and sink calls may   *)
(* fail before or after they took effect, and a sink call given up on may  *)
(* take effect later still.                                                *)
(***************************************************************************)
EXTENDS Integers, Sequences, FiniteSets

CONSTANTS
  Writer,      \* concurrent mutations of the control plane
  Publisher,   \* publisher ids, one OutboxPublisher each
  Steady,      \* the publishers that neither crash nor close
  None,        \* no claim
  MaxEvents,   \* bound: the events ever committed
  MaxFaults    \* bound: failed calls, crashes and overrun claims

ASSUME OutboxAssumption ==
  /\ Steady \subseteq Publisher
  /\ None \notin Publisher
  /\ MaxEvents \in Nat
  /\ MaxFaults \in Nat

VARIABLES
  nextSequence,  \* control_event_outbox_sequence.next_sequence
  allocated,     \* per writer, the sequence its open transaction took, or 0
  entries,       \* control_event_outbox: sequence -> row
  stream,        \* the durable stream, in append order
  inFlight,      \* events of sink calls nobody waits for any more
  pc,            \* per publisher, where its drain pass is
  claim,         \* per publisher, the claim it works on
  requested,     \* per publisher, the `requested` flag
  flushing,      \* per publisher, the pass was begun by flush, not by kick
  stopped,       \* per publisher, the `stopped` flag
  faults         \* how many faults have happened

tables == <<nextSequence, allocated, entries>>
sink == <<stream, inFlight>>
control == <<pc, claim, requested, flushing, stopped>>
vars == <<tables, sink, control, faults>>

Sequence == 1 .. MaxEvents

\* An entry: its state ("absent", "pending" or "published"), the publisher that
\* claims it, the fence of the claim, and whether claim_expires_at (lapsed) and
\* available_at (due) have passed.
NoEntry == [state |-> "absent", publisher |-> None, fence |-> 0, lapsed |-> FALSE, due |-> FALSE]

\* A pass claims, sends, marks or releases, and settles when its promise is
\* done and `running` is about to be cleared.
Passing == {"claiming", "sending", "marking", "releasing", "settling"}

Fault == faults < MaxFaults /\ faults' = faults + 1
NoFault == UNCHANGED faults

-----------------------------------------------------------------------------
(* Writers: enqueueOutboxWith.                                             *)

\* Mutant: the sequence is allocated without waiting for open transactions.
AllocateUnlocked(w) ==
  /\ nextSequence <= MaxEvents
  /\ allocated[w] = 0
  /\ allocated' = [allocated EXCEPT ![w] = nextSequence]
  /\ nextSequence' = nextSequence + 1
  /\ UNCHANGED <<entries, sink, control, faults>>

\* The singleton row is updated before the insert, and its lock is held to the
\* end of the transaction: a second writer waits here.
Allocate(w) ==
  /\ nextSequence <= MaxEvents
  /\ \A v \in Writer : allocated[v] = 0
  /\ allocated' = [allocated EXCEPT ![w] = nextSequence]
  /\ nextSequence' = nextSequence + 1
  /\ UNCHANGED <<entries, sink, control, faults>>

Commit(w) ==
  /\ allocated[w] # 0
  /\ entries' = [entries EXCEPT ![allocated[w]] =
                   [NoEntry EXCEPT !.state = "pending", !.due = TRUE]]
  /\ allocated' = [allocated EXCEPT ![w] = 0]
  /\ UNCHANGED <<nextSequence, sink, control, faults>>

\* The allocation is undone with the rest of the transaction.
Rollback(w) ==
  /\ allocated[w] # 0
  /\ nextSequence' = nextSequence - 1
  /\ allocated' = [allocated EXCEPT ![w] = 0]
  /\ UNCHANGED <<entries, sink, control, faults>>

-----------------------------------------------------------------------------
(* Repository calls of a publisher.                                        *)

\* Mutant: any unpublished event may be claimed.
AnyUnpublished(e) == entries[e].state = "pending"

\* Only the first unpublished event can be claimed.
FirstUnpublished(e) ==
  /\ entries[e].state = "pending"
  /\ \A f \in Sequence : f < e => entries[f].state # "pending"

\* Mutant: a lapsed claim is not taken over.
ClaimableIfFree(e) == FirstUnpublished(e) /\ entries[e].due /\ entries[e].publisher = None

Claimable(e) ==
  /\ FirstUnpublished(e)
  /\ entries[e].due
  /\ entries[e].publisher = None \/ entries[e].lapsed

TakenBy(entry, p) == [entry EXCEPT !.publisher = p, !.lapsed = FALSE, !.fence = @ + 1]
Claimed(p, e) == [entries EXCEPT ![e] = TakenBy(@, p)]

\* Mutant: the claim's fence is not compared.
HoldsAnyClaim(p) == entries[claim[p].event].state = "pending"

\* markOutboxPublished and releaseOutbox match the publisher and its fence; the
\* claim's expiry is not consulted.
HoldsClaim(p) ==
  LET e == claim[p].event
  IN  /\ entries[e].state = "pending"
      /\ entries[e].publisher = p
      /\ entries[e].fence = claim[p].fence

Published(entry) == [entry EXCEPT !.state = "published", !.publisher = None, !.lapsed = FALSE]
Freed(entry) == [entry EXCEPT !.publisher = None, !.lapsed = FALSE, !.due = FALSE]

Marked(p) ==
  IF HoldsClaim(p) THEN [entries EXCEPT ![claim[p].event] = Published(@)] ELSE entries

Released(p) ==
  IF HoldsClaim(p) THEN [entries EXCEPT ![claim[p].event] = Freed(@)] ELSE entries

-----------------------------------------------------------------------------
(* Control of a publisher: kick, flush, drainRequested, drainAvailable.    *)

Goto(p, where) == pc' = [pc EXCEPT ![p] = where]

\* drainRequested clears `requested` before its first claim.
BeginPass(p, byFlush) ==
  /\ Goto(p, "claiming")
  /\ requested' = [requested EXCEPT ![p] = FALSE]
  /\ flushing' = [flushing EXCEPT ![p] = byFlush]

\* A kick from an API call, the poll timer or the retry timer.
Kick(p) ==
  /\ ~stopped[p]
  /\ \/ pc[p] = "idle" /\ BeginPass(p, FALSE)
     \/ /\ pc[p] \in Passing
        /\ requested' = [requested EXCEPT ![p] = TRUE]
        /\ UNCHANGED <<pc, flushing>>
  /\ UNCHANGED <<tables, sink, claim, stopped, faults>>

Flush(p) ==
  /\ ~stopped[p]
  /\ \/ pc[p] = "idle" /\ BeginPass(p, TRUE)
     \/ /\ pc[p] \in Passing
        /\ requested' = [requested EXCEPT ![p] = TRUE]
        /\ UNCHANGED <<pc, flushing>>
  /\ UNCHANGED <<tables, sink, claim, stopped, faults>>

\* The pass has drained what it could: once more if another request came in.
Drained(p) ==
  /\ requested' = [requested EXCEPT ![p] = @ /\ stopped[p]]
  /\ Goto(p, IF requested[p] /\ ~stopped[p] THEN "claiming" ELSE "settling")
  /\ UNCHANGED flushing

\* `running` is cleared; only a pass begun by kick looks at `requested` again.
Settle(p) ==
  /\ pc[p] = "settling"
  /\ IF requested[p] /\ ~stopped[p] /\ ~flushing[p]
       THEN BeginPass(p, FALSE)
       ELSE Goto(p, "idle") /\ UNCHANGED <<requested, flushing>>
  /\ UNCHANGED <<tables, sink, claim, stopped, faults>>

\* One turn of drainAvailable: an event is claimed, or there is none.
ClaimNext(p) ==
  /\ pc[p] = "claiming"
  /\ \/ /\ stopped[p] \/ \A e \in Sequence : ~Claimable(e)
        /\ Drained(p)
        /\ UNCHANGED <<tables, claim>>
     \/ /\ ~stopped[p]
        /\ \E e \in Sequence :
             /\ Claimable(e)
             /\ entries' = Claimed(p, e)
             /\ claim' = [claim EXCEPT ![p] = [event |-> e, fence |-> entries[e].fence + 1]]
        /\ Goto(p, "sending")
        /\ UNCHANGED <<nextSequence, allocated, requested, flushing>>
  /\ UNCHANGED <<sink, stopped, faults>>

\* The claim call fails; it may have claimed an event nobody will then send.
ClaimFails(p) ==
  /\ pc[p] = "claiming"
  /\ ~stopped[p]
  /\ Fault
  /\ \/ UNCHANGED entries
     \/ \E e \in Sequence : Claimable(e) /\ entries' = Claimed(p, e)
  /\ Goto(p, "settling")
  /\ UNCHANGED <<nextSequence, allocated, sink, claim, requested, flushing, stopped>>

\* The sink ignores an event whose id it has already stored.
Stored(e) == IF \E i \in DOMAIN stream : stream[i] = e THEN stream ELSE Append(stream, e)

SinkAccepts(p) ==
  /\ pc[p] = "sending"
  /\ stream' = Stored(claim[p].event)
  /\ Goto(p, "marking")
  /\ UNCHANGED <<tables, inFlight, claim, requested, flushing, stopped, faults>>

\* Mutant: the sink's rejection is swallowed and the event marked.
SinkFailureIgnored(p) ==
  /\ pc[p] = "sending"
  /\ Fault
  /\ Goto(p, "marking")
  /\ UNCHANGED <<tables, sink, claim, requested, flushing, stopped>>

\* The sink call rejects: it had no effect, its answer was lost, or it is still
\* under way.
SinkFails(p) ==
  /\ pc[p] = "sending"
  /\ Fault
  /\ \/ UNCHANGED sink
     \/ stream' = Stored(claim[p].event) /\ UNCHANGED inFlight
     \/ inFlight' = inFlight \cup {claim[p].event} /\ UNCHANGED stream
  /\ Goto(p, "releasing")
  /\ UNCHANGED <<tables, claim, requested, flushing, stopped>>

\* A stale claim is refused, and the pass ends with the error.
MarkPublished(p) ==
  /\ pc[p] = "marking"
  /\ entries' = Marked(p)
  /\ Goto(p, IF HoldsClaim(p) THEN "claiming" ELSE "settling")
  /\ UNCHANGED <<nextSequence, allocated, sink, claim, requested, flushing, stopped, faults>>

MarkFails(p) ==
  /\ pc[p] = "marking"
  /\ Fault
  /\ entries' \in {entries, Marked(p)}
  /\ Goto(p, "settling")
  /\ UNCHANGED <<nextSequence, allocated, sink, claim, requested, flushing, stopped>>

Release(p) ==
  /\ pc[p] = "releasing"
  /\ entries' = Released(p)
  /\ IF HoldsClaim(p) THEN Drained(p)
                      ELSE Goto(p, "settling") /\ UNCHANGED <<requested, flushing>>
  /\ UNCHANGED <<nextSequence, allocated, sink, claim, stopped, faults>>

ReleaseFails(p) ==
  /\ pc[p] = "releasing"
  /\ Fault
  /\ entries' \in {entries, Released(p)}
  /\ Goto(p, "settling")
  /\ UNCHANGED <<nextSequence, allocated, sink, claim, requested, flushing, stopped>>

\* close: the pass in progress ends by itself, nothing begins another one.
Close(p) ==
  /\ p \notin Steady
  /\ pc[p] # "down"
  /\ ~stopped[p]
  /\ stopped' = [stopped EXCEPT ![p] = TRUE]
  /\ UNCHANGED <<tables, sink, pc, claim, requested, flushing, faults>>

\* A sink call the process was waiting for may still arrive.
Crash(p) ==
  /\ p \notin Steady
  /\ pc[p] # "down"
  /\ Fault
  /\ Goto(p, "down")
  /\ requested' = [requested EXCEPT ![p] = FALSE]
  /\ IF pc[p] = "sending" THEN inFlight' = inFlight \cup {claim[p].event}
                          ELSE UNCHANGED inFlight
  /\ UNCHANGED <<tables, stream, claim, flushing, stopped>>

\* A replica comes back and start() kicks it.  It keeps its publisher id, as the
\* constructor allows, so that its own old claims are still in its name; cli.ts
\* draws a new id, which leaves them in nobody's.
Restart(p) ==
  /\ pc[p] = "down"
  /\ BeginPass(p, FALSE)
  /\ stopped' = [stopped EXCEPT ![p] = FALSE]
  /\ UNCHANGED <<tables, sink, claim, faults>>

-----------------------------------------------------------------------------
(* The environment.                                                        *)

LateDelivery(e) ==
  /\ e \in inFlight
  /\ stream' = Stored(e)
  /\ inFlight' = inFlight \ {e}
  /\ UNCHANGED <<tables, control, faults>>

WorkedOn(e) ==
  \E p \in Publisher : /\ pc[p] \in {"sending", "marking", "releasing"}
                       /\ claim[p].event = e
                       /\ HoldsClaim(p)

Lapsing(e) ==
  /\ entries[e].publisher # None
  /\ ~entries[e].lapsed
  /\ entries' = [entries EXCEPT ![e].lapsed = TRUE]
  /\ UNCHANGED <<nextSequence, allocated, sink, control>>

\* A claim nobody works on lapses; one that is worked on, by an overrun.
Lapse(e) == ~WorkedOn(e) /\ NoFault /\ Lapsing(e)
Overrun(e) == WorkedOn(e) /\ Fault /\ Lapsing(e)

BecomeDue(e) ==
  /\ entries[e].state = "pending"
  /\ ~entries[e].due
  /\ entries' = [entries EXCEPT ![e].due = TRUE]
  /\ UNCHANGED <<nextSequence, allocated, sink, control, faults>>

-----------------------------------------------------------------------------
Init ==
  /\ nextSequence = 1
  /\ allocated = [w \in Writer |-> 0]
  /\ entries = [e \in Sequence |-> NoEntry]
  /\ stream = <<>>
  /\ inFlight = {}
  /\ pc = [p \in Publisher |-> "idle"]
  /\ claim = [p \in Publisher |-> [event |-> 1, fence |-> 0]]
  /\ requested = [p \in Publisher |-> FALSE]
  /\ flushing = [p \in Publisher |-> FALSE]
  /\ stopped = [p \in Publisher |-> FALSE]
  /\ faults = 0

WriterStep(w) == Allocate(w) \/ Commit(w) \/ Rollback(w)

\* The steps of a pass, which the event loop takes by itself.
Advance(p) ==
  \/ ClaimNext(p) \/ Settle(p)
  \/ SinkAccepts(p)
  \/ MarkPublished(p) \/ Release(p)

Failure(p) ==
  \/ ClaimFails(p) \/ SinkFails(p) \/ MarkFails(p) \/ ReleaseFails(p) \/ Crash(p)

Next ==
  \/ \E w \in Writer : WriterStep(w)
  \/ \E p \in Publisher :
       Kick(p) \/ Flush(p) \/ Advance(p) \/ Failure(p) \/ Close(p) \/ Restart(p)
  \/ \E e \in Sequence : LateDelivery(e) \/ Lapse(e) \/ Overrun(e) \/ BecomeDue(e)

Spec == Init /\ [][Next]_vars

\* A steady publisher keeps polling (start's interval), every call a running
\* process makes returns, and as time passes claims expire and released events
\* become due.
Fairness ==
  /\ \A p \in Steady : WF_vars(Kick(p))
  /\ \A p \in Publisher : WF_vars(Advance(p))
  /\ \A e \in Sequence : WF_vars(Lapse(e)) /\ WF_vars(BecomeDue(e))

FairSpec == Spec /\ Fairness

-----------------------------------------------------------------------------
(* Properties.                                                             *)

\* Publishers preserve outbox order (EVENTS.md, "Scheduling and replay
\* ordering"): the stream is the committed events from the first on, with no
\* gap, no repetition and no exchange, whoever sent them and however often.
StreamInOrder == \A i \in 1 .. Len(stream) : stream[i] = i

\* An event is only written off once the stream has it, although acknowledgements
\* are lost, sink calls are given up on and claims change hands.
PublishedIsDelivered ==
  \A e \in Sequence : entries[e].state = "published" => e <= Len(stream)

\* A claim that has not lapsed ends by a step of the publisher that holds it: a
\* stale publisher cannot end, or take over, the claim of its successor.
ClaimEndsByHolder ==
  [][\A e \in Sequence : \A p \in Publisher :
       /\ entries[e].publisher = p
       /\ ~entries[e].lapsed
       /\ entries'[e].publisher # p
       => pc'[p] # pc[p]]_vars

(* The refinement: OrderedDelivery of the events in commit order.          *)

Visible == {e \in Sequence : entries[e].state # "absent"}
CommitLog == [i \in 1 .. Cardinality(Visible) |->
                CHOOSE e \in Visible : Cardinality({f \in Visible : f <= e}) = i]
Delivery == INSTANCE OrderedDelivery
  WITH Event <- Sequence, log <- CommitLog, stream <- stream,
       settled <- Cardinality({e \in Sequence : entries[e].state = "published"})

\* The replicas together behave as one ordered delivery, and, while one of them
\* stays up and polls, deliver and settle everything that was committed.
ImplementsOrderedDelivery == Delivery!Spec
=============================================================================
