--------------------------- MODULE OrderedDelivery ---------------------------
(***************************************************************************)
(* What the event outbox promises to the readers of the durable stream,    *)
(* with no publishers, claims, failures or retries: events are committed   *)
(* to a log, the stream is a growing prefix of the log without gaps or     *)
(* repetitions, and an event is settled (never sent again) only after it   *)
(* is in the stream.  Everything committed is in the end delivered and     *)
(* settled.                                                                *)
(***************************************************************************)
EXTENDS Naturals, Sequences

CONSTANT Event

VARIABLES log, stream, settled

vars == <<log, stream, settled>>

Init == log = <<>> /\ stream = <<>> /\ settled = 0

Commit ==
  /\ \E e \in Event : log' = Append(log, e)
  /\ UNCHANGED <<stream, settled>>

Deliver ==
  /\ Len(stream) < Len(log)
  /\ stream' = Append(stream, log[Len(stream) + 1])
  /\ UNCHANGED <<log, settled>>

Settle ==
  /\ settled < Len(stream)
  /\ settled' = settled + 1
  /\ UNCHANGED <<log, stream>>

Next == Commit \/ Deliver \/ Settle

Spec == Init /\ [][Next]_vars /\ WF_vars(Deliver) /\ WF_vars(Settle)
=============================================================================
