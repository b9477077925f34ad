---------------------- MODULE SessionContinuationProofs ----------------------
(***************************************************************************)
(* Proofs about SessionContinuation, for any number of processes, rounds   *)
(* and lease renewals: no model round is run twice, and row, cursor, log   *)
(* and writer agree, whatever crashes and whoever competes to recover.     *)
(***************************************************************************)
EXTENDS SessionContinuation, TLAPS

-----------------------------------------------------------------------------
(* The invariant.                                                          *)
OwnKinds == {"started", "safe", "request", "model", "result", "terminal", "completed", "stopped"}
Kinds == OwnKinds \union {"continued", "restored"}
Places == {"start", "safe", "saveSafe", "request", "model", "saveModel", "stream", "result", "terminal",
           "saveTerminal", "completed", "stopped", "done", "failed", "down",
           "idle", "revision", "record", "claim", "mark", "recover"}
Event == [kind : Kinds, by : Owner \union {None}, round : Nat]
Row == [status : {"active", "closed"}, owner : Owner, lease : Nat, live : BOOLEAN,
        revision : Nat, after : Nat, phase : {"none", "safe", "model", "terminal"}, round : Nat]

Types ==
  /\ row \in Row
  /\ events \in Seq(Event)
  /\ pc \in [Owner -> Places]
  /\ work \in [Owner -> [round : Nat, revision : Nat, at : Nat]]
  /\ executed \in Seq(Nat)

\* The log is the row owner's to write, and a checkpoint is in it.
LogInv ==
  /\ row.after <= Len(events)
  /\ CheckpointNamesItsEvent
  /\ WritersChangeByContinuation
  /\ ContinuedFromSafeTail
  /\ RestoredIsLast
  /\ row.status = "active" /\ Len(events) > 0 => events[Len(events)].by = row.owner

\* Who has work in the log that the checkpoint does not cover, or a model call
\* under way, owns the row still: nobody can continue past it.
SavedPhase(where) == CASE where = "saveSafe" -> "safe"
                       [] where = "saveModel" -> "model"
                       [] where = "saveTerminal" -> "terminal"
Before == {"start", "safe", "saveSafe", "request", "model", "saveModel", "stream"}

Pinned(o) ==
  /\ pc[o] = "start" => row.owner = o /\ row.phase = "none"
  /\ pc[o] \in {"stream", "result"} => row.owner = o /\ row.phase = "model"
  /\ pc[o] \in Saving \union {"model"} => row.owner = o /\ row.after < Len(events)
  /\ pc[o] \in Saving =>
       /\ row.after < work[o].at /\ work[o].at <= Len(events)
       /\ events[work[o].at].kind = SavedPhase(pc[o])
       /\ events[work[o].at].round = work[o].round

\* The owner's round is the one after the last that was run, until it has run it.
InRound(o) ==
  row.owner = o =>
    /\ pc[o] \in Before => work[o].round = Len(executed) + 1
    /\ pc[o] = "result" => work[o].round = Len(executed)

TurnInv ==
  /\ \A o \in Owner : Pinned(o) /\ InRound(o)
  /\ row.phase = "safe" => row.round = Len(executed) + 1
  /\ RoundsExecutedOnce

TurnsInv == Types /\ LogInv /\ TurnInv

-----------------------------------------------------------------------------
(* What the store's transactions do to the log.                            *)
LEMMA Appended ==
  ASSUME NEW s \in Seq(Event), NEW e \in Event
  PROVE  /\ Append(s, e) \in Seq(Event) /\ Len(s) \in Nat
         /\ Len(Append(s, e)) = Len(s) + 1
         /\ Append(s, e)[Len(s) + 1] = e
         /\ \A i \in 1 .. Len(s) : Append(s, e)[i] = s[i]
OBVIOUS

LEMMA EventIs ==
  ASSUME NEW k \in Kinds, NEW o \in Owner \union {None}, NEW r \in Nat
  PROVE  /\ NewEvent(k, o, r) \in Event
         /\ NewEvent(k, o, r).kind = k /\ NewEvent(k, o, r).by = o /\ NewEvent(k, o, r).round = r
BY DEF NewEvent, Event, Kinds

\* The log stays in order when its next event may follow the last one.
LEMMA LogGrows ==
  ASSUME Types, LogInv, NEW e \in Event, events' = Append(events, e),
         Len(events) > 0 /\ e.by # events[Len(events)].by => e.kind \in {"continued", "restored"},
         e.kind = "continued" =>
           /\ Len(events) > 0 /\ events[Len(events)].kind \in {"safe", "continued"}
           /\ events[Len(events)].round = e.round
  PROVE  /\ events' \in Seq(Event) /\ Len(events) \in Nat /\ Len(events') = Len(events) + 1
         /\ events'[Len(events) + 1] = e
         /\ \A i \in 1 .. Len(events) : events'[i] = events[i]
         /\ WritersChangeByContinuation' /\ ContinuedFromSafeTail'
<1> DEFINE n == Len(events)
<1>1. events \in Seq(Event)
  BY DEF Types
<1>2. /\ events' \in Seq(Event) /\ n \in Nat /\ Len(events') = n + 1 /\ events'[n + 1] = e
      /\ \A i \in 1 .. n : events'[i] = events[i]
  BY <1>1, Appended
<1>3. WritersChangeByContinuation'
  <2> SUFFICES ASSUME NEW i \in 2 .. n + 1, events'[i].by # events'[i - 1].by
               PROVE  events'[i].kind \in {"continued", "restored"}
    BY <1>2 DEF WritersChangeByContinuation
  <2>1. CASE i = n + 1
    BY <1>2, <2>1
  <2>2. CASE i # n + 1
    <3>1. i \in 2 .. n /\ i \in 1 .. n /\ i - 1 \in 1 .. n
      BY <1>2, <2>2
    <3> QED
      BY <1>2, <3>1 DEF LogInv, WritersChangeByContinuation
  <2> QED
    BY <2>1, <2>2
<1>4. ContinuedFromSafeTail'
  <2> SUFFICES ASSUME NEW i \in 1 .. n + 1, events'[i].kind = "continued"
               PROVE  /\ i > 1
                      /\ events'[i - 1].kind \in {"safe", "continued"}
                      /\ events'[i - 1].round = events'[i].round
    BY <1>2 DEF ContinuedFromSafeTail
  <2>1. CASE i = n + 1
    BY <1>2, <2>1
  <2>2. CASE i # n + 1
    <3>1. i \in 1 .. n /\ events[i].kind = "continued"
      BY <1>2, <2>2
    <3>2. i > 1
      BY <3>1 DEF LogInv, ContinuedFromSafeTail
    <3>3. i - 1 \in 1 .. n
      BY <1>2, <3>1, <3>2
    <3> QED
      BY <1>2, <3>1, <3>2, <3>3 DEF LogInv, ContinuedFromSafeTail
  <2> QED
    BY <2>1, <2>2
<1> QED
  BY <1>2, <1>3, <1>4

\* An event of the owner's turn.
LEMMA AppendLog ==
  ASSUME Types, LogInv, NEW o \in Owner, NEW k \in OwnKinds, NEW r \in Nat,
         AppendEvent(o, k, r), row' = row
  PROVE  /\ LogInv' /\ events' \in Seq(Event) /\ Len(events') = Len(events) + 1
         /\ events'[Len(events')].kind = k /\ events'[Len(events')].round = r
         /\ \A i \in 1 .. Len(events) : events'[i] = events[i]
<1> DEFINE n == Len(events)
           e == NewEvent(k, o, r)
<1>1. /\ row.owner = o /\ row.status = "active" /\ events' = Append(events, e)
      /\ row.after \in Nat
  BY DEF AppendEvent, CanAppend, Owns, Types, Row
<1>2. e \in Event /\ e.kind = k /\ e.by = o /\ e.round = r
         /\ k \notin {"continued", "restored"}
  BY EventIs DEF OwnKinds, Kinds
<1> HIDE DEF e
<1>3. /\ events' \in Seq(Event) /\ n \in Nat /\ Len(events') = n + 1 /\ events'[n + 1] = e
      /\ \A i \in 1 .. n : events'[i] = events[i]
      /\ WritersChangeByContinuation' /\ ContinuedFromSafeTail'
  BY <1>1, <1>2, LogGrows DEF LogInv
<1>4. CheckpointNamesItsEvent' /\ (row.after <= Len(events))'
  BY <1>1, <1>3 DEF LogInv, CheckpointNamesItsEvent
<1>5. RestoredIsLast'
  <2>1. \A i \in 1 .. n + 1 : events'[i].kind # "restored"
    BY <1>1, <1>2, <1>3 DEF LogInv, RestoredIsLast
  <2> QED
    BY <1>3, <2>1 DEF RestoredIsLast
<1>6. (row.status = "active" /\ Len(events) > 0 => events[Len(events)].by = row.owner)'
  BY <1>1, <1>2, <1>3
<1> QED
  BY <1>2, <1>3, <1>4, <1>5, <1>6 DEF LogInv

\* runtime.continued: the log's last event is the safe checkpoint.
LEMMA ContinueLog ==
  ASSUME Types, LogInv, NEW o \in Owner, NEW lease, NEW revision, ContinueSession(o, lease, revision)
  PROVE  /\ LogInv' /\ events' \in Seq(Event) /\ row' \in Row
         /\ row'.owner = o /\ row'.phase = "safe" /\ row'.round = row.round
<1> DEFINE n == Len(events)
           e == NewEvent("continued", o, row.round)
<1>1. /\ row.status = "active" /\ row.phase = "safe" /\ row.after = n
      /\ events' = Append(events, e) /\ row \in Row /\ events \in Seq(Event)
  BY DEF ContinueSession, Continuable, Types
<1>2. e \in Event /\ e.kind = "continued" /\ e.by = o /\ e.round = row.round
  BY <1>1 DEF Row, NewEvent, Event, Kinds
<1>3. /\ row' \in Row /\ row'.owner = o /\ row'.phase = "safe" /\ row'.round = row.round
      /\ row'.after = n + 1 /\ row'.status = "active"
  <2>1. row.lease + 1 \in Nat /\ row.revision + 1 \in Nat /\ n + 1 \in Nat
    BY <1>1 DEF Row
  <2>2. row' = [row EXCEPT !.owner = o, !.lease = row.lease + 1, !.live = TRUE,
                           !.revision = row.revision + 1, !.after = n + 1]
    BY DEF ContinueSession, Continued
  <2> QED
    BY <1>1, <2>1, <2>2 DEF Row
<1>4. n > 0 /\ events[n].kind \in {"safe", "continued"} /\ events[n].round = row.round
  BY <1>1 DEF LogInv, CheckpointNamesItsEvent
<1> HIDE DEF e
<1>5. /\ events' \in Seq(Event) /\ n \in Nat /\ Len(events') = n + 1 /\ events'[n + 1] = e
      /\ \A i \in 1 .. n : events'[i] = events[i]
      /\ WritersChangeByContinuation' /\ ContinuedFromSafeTail'
  BY <1>1, <1>2, <1>4, LogGrows
<1>6. CheckpointNamesItsEvent' /\ (row.after <= Len(events))'
  BY <1>2, <1>3, <1>5 DEF CheckpointNamesItsEvent
<1>7. RestoredIsLast'
  <2>1. \A i \in 1 .. n + 1 : events'[i].kind # "restored"
    BY <1>1, <1>2, <1>5 DEF LogInv, RestoredIsLast
  <2> QED
    BY <1>5, <2>1 DEF RestoredIsLast
<1>8. (row.status = "active" /\ Len(events) > 0 => events[Len(events)].by = row.owner)'
  BY <1>2, <1>3, <1>5
<1> QED
  BY <1>3, <1>5, <1>6, <1>7, <1>8 DEF LogInv

\* session.restored, or nothing when the session was closed meanwhile.
LEMMA RestoreLog ==
  ASSUME Types, LogInv, NEW lease, RecoverInterrupted(lease), row.status = "active"
  PROVE  /\ LogInv' /\ events' \in Seq(Event) /\ row' = [row EXCEPT !.status = "closed"]
         /\ Len(events') = Len(events) + 1
         /\ \A i \in 1 .. Len(events) : events'[i] = events[i]
<1> DEFINE n == Len(events)
           e == NewEvent("restored", None, 0)
<1>1. events' = Append(events, e) /\ row' = [row EXCEPT !.status = "closed"] /\ row \in Row
  BY DEF RecoverInterrupted, Types
<1>2. e \in Event /\ e.kind = "restored"
  BY DEF NewEvent, Event, Kinds
<1> HIDE DEF e
<1>3. /\ events' \in Seq(Event) /\ n \in Nat /\ Len(events') = n + 1 /\ events'[n + 1] = e
      /\ \A i \in 1 .. n : events'[i] = events[i]
      /\ WritersChangeByContinuation' /\ ContinuedFromSafeTail'
  BY <1>1, <1>2, LogGrows
<1>4. /\ row'.after = row.after /\ row'.phase = row.phase /\ row'.round = row.round
      /\ row'.status = "closed" /\ row.after \in Nat
  BY <1>1 DEF Row
<1>5. CheckpointNamesItsEvent' /\ (row.after <= Len(events))'
  BY <1>3, <1>4 DEF LogInv, CheckpointNamesItsEvent
<1>6. RestoredIsLast'
  <2>1. \A i \in 1 .. n : events'[i].kind # "restored"
    BY <1>3 DEF LogInv, RestoredIsLast
  <2> QED
    BY <1>3, <1>4, <2>1 DEF RestoredIsLast
<1> QED
  BY <1>1, <1>3, <1>4, <1>5, <1>6 DEF LogInv

\* A change of the row that leaves the checkpoint and the owner.
LEMMA RowLog ==
  ASSUME Types, LogInv, events' = events,
         row'.after = row.after, row'.phase = row.phase, row'.round = row.round,
         row'.owner = row.owner, row'.status \in {row.status, "closed"}
  PROVE  LogInv'
BY DEF LogInv, CheckpointNamesItsEvent, WritersChangeByContinuation, ContinuedFromSafeTail, RestoredIsLast

\* A save of a checkpoint whose event is in the log.
LEMMA SaveLog ==
  ASSUME Types, LogInv, NEW o \in Owner, NEW expected \in Nat, NEW after \in Nat,
         NEW phase \in {"safe", "model", "terminal"}, NEW r \in Nat,
         SaveCheckpoint(o, expected, after, phase, r), events' = events,
         after > 0, events[after].kind = phase, events[after].round = r
  PROVE  /\ LogInv' /\ row' \in Row
         /\ row'.owner = o /\ row'.phase = phase /\ row'.round = r /\ row'.after = after
<1>1. row \in Row /\ row.owner = o /\ row.status = "active" /\ after <= Len(events)
  BY DEF Types, SaveCheckpoint, CanSave, CanAppend, Owns
<1>2. /\ row' \in Row
      /\ row'.owner = o /\ row'.phase = phase /\ row'.round = r /\ row'.after = after
      /\ row'.status = row.status
  <2>1. expected + 1 \in Nat
    OBVIOUS
  <2>2. row' = [row EXCEPT !.revision = expected + 1, !.after = after, !.phase = phase, !.round = r]
    BY DEF SaveCheckpoint
  <2> QED
    BY <1>1, <2>1, <2>2 DEF Row
<1>3. CheckpointNamesItsEvent'
  BY <1>2 DEF CheckpointNamesItsEvent
<1> QED
  BY <1>1, <1>2, <1>3 DEF LogInv, WritersChangeByContinuation, ContinuedFromSafeTail, RestoredIsLast

-----------------------------------------------------------------------------
(* What a step does to the turns.                                          *)
LEMMA InitInv == Init => TurnsInv
<1> SUFFICES ASSUME Init PROVE TurnsInv
  OBVIOUS
<1> USE TurnAssumption DEF Init, Created
<1>1. Types
  BY DEF Types, Row, Event, Places
<1>2. LogInv
  BY DEF LogInv, CheckpointNamesItsEvent, WritersChangeByContinuation, ContinuedFromSafeTail, RestoredIsLast
<1>3. TurnInv
  BY DEF TurnInv, Pinned, InRound, RoundsExecutedOnce, Saving, Before
<1> QED
  BY <1>1, <1>2, <1>3 DEF TurnsInv

\* While one process owns the row, the others hold nothing.
LEMMA OthersHoldNothing ==
  ASSUME TurnInv, NEW o \in Owner, row.owner = o, row'.owner = o,
         NEW q \in Owner, q # o, pc'[q] = pc[q]
  PROVE  Pinned(q)' /\ InRound(q)'
<1>1. pc[q] \notin {"start", "stream", "result", "model"} \union Saving
  BY DEF TurnInv, Pinned
<1> QED
  BY <1>1 DEF Pinned, InRound

\* What an appended event leaves: its owner holds the row and moves on.
Published(o, from, k, to) ==
  /\ row.owner = o /\ pc[o] = from /\ row' = row /\ executed' = executed
  /\ pc' \in [Owner -> Places] /\ pc'[o] = to
  /\ \A q \in Owner : q # o => Pinned(q)' /\ InRound(q)'
  /\ LogInv' /\ events' \in Seq(Event) /\ Len(events') = Len(events) + 1
  /\ events'[Len(events')].kind = k /\ events'[Len(events')].round = work[o].round

LEMMA PublishStep ==
  ASSUME TurnsInv, NEW o \in Owner, NEW from \in Places, NEW k \in OwnKinds, NEW to \in Places,
         Publish(o, from, k, to)
  PROVE  Published(o, from, k, to)
<1> USE DEF TurnsInv
<1>1. /\ row.owner = o /\ pc[o] = from /\ row' = row /\ executed' = executed
      /\ pc' = [pc EXCEPT ![o] = to] /\ AppendEvent(o, k, work[o].round)
  BY DEF Publish, AppendEvent, CanAppend, Owns, Goto
<1>2. pc' \in [Owner -> Places] /\ pc'[o] = to /\ \A q \in Owner : q # o => pc'[q] = pc[q]
  BY <1>1 DEF Types
<1>3. work[o].round \in Nat
  BY DEF Types
<1>4. /\ LogInv' /\ events' \in Seq(Event) /\ Len(events') = Len(events) + 1
      /\ events'[Len(events')].kind = k /\ events'[Len(events')].round = work[o].round
  BY <1>1, <1>3, AppendLog
<1> QED
  BY <1>1, <1>2, <1>4, OthersHoldNothing DEF Published

\* An event that is not a checkpoint.
LEMMA PlainInv ==
  ASSUME TurnsInv, NEW o \in Owner, Start(o) \/ Request(o) \/ Complete(o) \/ Stopped(o)
  PROVE  TurnsInv'
<1>1. \/ Published(o, "start", "started", "safe")
      \/ Published(o, "request", "request", "model")
      \/ Published(o, "completed", "completed", "stopped")
      \/ Published(o, "stopped", "stopped", "done")
  <2>1. CASE Start(o)
    BY <2>1, PublishStep DEF Start, Places, OwnKinds
  <2>2. CASE Request(o)
    BY <2>2, PublishStep DEF Request, Places, OwnKinds
  <2>3. CASE Complete(o)
    BY <2>3, PublishStep DEF Complete, Places, OwnKinds
  <2>4. CASE Stopped(o)
    BY <2>4, PublishStep DEF Stopped, Places, OwnKinds
  <2> QED
    BY <2>1, <2>2, <2>3, <2>4
<1> work' = work
  BY DEF Start, Request, Complete, Stopped
<1> USE DEF Published
<1>2. Types'
  BY <1>1 DEF TurnsInv, Types
<1>3. Pinned(o)' /\ InRound(o)'
  <2>1. row.after <= Len(events) /\ row.after \in Nat /\ Len(events) \in Nat
    BY DEF TurnsInv, LogInv, Types, Row
  <2>2. Pinned(o) /\ InRound(o)
    BY DEF TurnsInv, TurnInv
  <2>3. row'.after < Len(events') /\ pc'[o] \in {"safe", "model", "stopped", "done"}
    BY <1>1, <2>1
  <2>4. Pinned(o)'
    <3>1. \A place \in Saving : place \notin {"safe", "model", "stopped", "done"}
      BY DEF Saving
    <3> QED
      BY <1>1, <2>1, <2>2, <2>3, <3>1 DEF Pinned
  <2>5. InRound(o)'
    BY <1>1, <2>2, <2>3 DEF InRound, Before
  <2> QED
    BY <2>4, <2>5
<1>4. (row.phase = "safe" => row.round = Len(executed) + 1)' /\ RoundsExecutedOnce'
  BY <1>1 DEF TurnsInv, TurnInv, RoundsExecutedOnce
<1> QED
  BY <1>1, <1>2, <1>3, <1>4 DEF TurnsInv, TurnInv

LEMMA CheckpointInv ==
  ASSUME TurnsInv, NEW o \in Owner,
         \/ Checkpoint(o, "safe", "safe", "saveSafe")
         \/ Checkpoint(o, "model", "model", "saveModel")
         \/ Checkpoint(o, "terminal", "terminal", "saveTerminal")
  PROVE  TurnsInv'
<1>1. \/ Published(o, "safe", "safe", "saveSafe")
      \/ Published(o, "model", "model", "saveModel")
      \/ Published(o, "terminal", "terminal", "saveTerminal")
  <2>1. CASE Checkpoint(o, "safe", "safe", "saveSafe")
    <3>1. "safe" \in Places /\ "safe" \in OwnKinds /\ "saveSafe" \in Places
      BY DEF Places, OwnKinds
    <3>2. Publish(o, "safe", "safe", "saveSafe")
      BY <2>1 DEF Checkpoint
    <3> QED
      BY <3>1, <3>2, PublishStep
  <2>2. CASE Checkpoint(o, "model", "model", "saveModel")
    <3>1. "model" \in Places /\ "model" \in OwnKinds /\ "saveModel" \in Places
      BY DEF Places, OwnKinds
    <3>2. Publish(o, "model", "model", "saveModel")
      BY <2>2 DEF Checkpoint
    <3> QED
      BY <3>1, <3>2, PublishStep
  <2>3. CASE Checkpoint(o, "terminal", "terminal", "saveTerminal")
    <3>1. "terminal" \in Places /\ "terminal" \in OwnKinds /\ "saveTerminal" \in Places
      BY DEF Places, OwnKinds
    <3>2. Publish(o, "terminal", "terminal", "saveTerminal")
      BY <2>3 DEF Checkpoint
    <3> QED
      BY <3>1, <3>2, PublishStep
  <2> QED
    BY <2>1, <2>2, <2>3
<1> USE DEF Published
<1>2. row.after <= Len(events) /\ row.after \in Nat /\ Len(events) \in Nat
  BY DEF TurnsInv, LogInv, Types, Row
<1>3. /\ work' \in [Owner -> [round : Nat, revision : Nat, at : Nat]]
      /\ work'[o].round = work[o].round /\ work'[o].at = Len(events) + 1
  <2>1. work' = [work EXCEPT ![o].at = Len(events) + 1] /\ Len(events) + 1 \in Nat
    BY <1>2 DEF Checkpoint
  <2>2. work \in [Owner -> [round : Nat, revision : Nat, at : Nat]]
    BY DEF TurnsInv, Types
  <2> QED
    BY <2>1, <2>2
<1>4. Types'
  BY <1>1, <1>3 DEF TurnsInv, Types
<1>5. Pinned(o)'
  BY <1>1, <1>2, <1>3 DEF Pinned, Saving, SavedPhase
<1>6. InRound(o)'
  BY <1>1, <1>3 DEF TurnsInv, TurnInv, InRound, Before
<1>7. (row.phase = "safe" => row.round = Len(executed) + 1)' /\ RoundsExecutedOnce'
  BY <1>1 DEF TurnsInv, TurnInv, RoundsExecutedOnce
<1> QED
  BY <1>1, <1>4, <1>5, <1>6, <1>7 DEF TurnsInv, TurnInv

LEMMA ResultInv ==
  ASSUME TurnsInv, NEW o \in Owner, Result(o)
  PROVE  TurnsInv'
<1>1. \/ Published(o, "result", "result", "safe")
      \/ Published(o, "result", "result", "terminal")
  <2>1. CASE Publish(o, "result", "result", "safe")
    BY <2>1, PublishStep DEF Places, OwnKinds
  <2>2. CASE Publish(o, "result", "result", "terminal")
    BY <2>2, PublishStep DEF Places, OwnKinds
  <2> QED
    BY <2>1, <2>2 DEF Result
<1> USE DEF Published
<1>2. work' = [work EXCEPT ![o].round = work[o].round + 1] /\ work[o].round + 1 \in Nat
  BY DEF Result, TurnsInv, Types
<1>3. /\ work' \in [Owner -> [round : Nat, revision : Nat, at : Nat]]
      /\ work'[o].round = work[o].round + 1
  BY <1>2 DEF TurnsInv, Types
<1>4. Types'
  BY <1>1, <1>3 DEF TurnsInv, Types
<1>5. Pinned(o)' /\ InRound(o)'
  BY <1>1, <1>3 DEF TurnsInv, TurnInv, Pinned, InRound, Saving, Before
<1>6. (row.phase = "safe" => row.round = Len(executed) + 1)' /\ RoundsExecutedOnce'
  BY <1>1 DEF TurnsInv, TurnInv, RoundsExecutedOnce
<1> QED
  BY <1>1, <1>4, <1>5, <1>6 DEF TurnsInv, TurnInv

\* The row was not ahead of the event, so that it is saved; the round it names
\* has not been run when the phase is safe.
LEMMA SaveInv ==
  ASSUME TurnsInv, NEW o \in Owner,
         \/ Save(o, "saveSafe", "safe", "request")
         \/ Save(o, "saveModel", "model", "stream")
         \/ Save(o, "saveTerminal", "terminal", "completed")
  PROVE  TurnsInv'
<1>1. PICK from \in Saving, to \in {"request", "stream", "completed"} :
        /\ Save(o, from, SavedPhase(from), to)
        /\ to = "stream" <=> from = "saveModel"
        /\ to = "request" <=> from = "saveSafe"
  BY DEF SavedPhase, Saving
<1>2. /\ pc[o] = from /\ row.owner = o /\ row.after < work[o].at
      /\ work[o].at \in Nat /\ work[o].revision \in Nat /\ work[o].round \in Nat /\ row.after \in Nat
      /\ events[work[o].at].kind = SavedPhase(from) /\ events[work[o].at].round = work[o].round
  BY <1>1 DEF Save, TurnsInv, TurnInv, Pinned, Types, Row
<1>3. /\ SaveCheckpoint(o, work[o].revision, work[o].at, SavedPhase(from), work[o].round)
      /\ work' = [work EXCEPT ![o].revision = work[o].revision + 1]
      /\ pc' = [pc EXCEPT ![o] = to] /\ events' = events /\ executed' = executed
  BY <1>1, <1>2 DEF Save, Goto
<1>4. SavedPhase(from) \in {"safe", "model", "terminal"}
  BY <1>1 DEF SavedPhase, Saving
<1>5. /\ LogInv' /\ row' \in Row
      /\ row'.owner = o /\ row'.phase = SavedPhase(from) /\ row'.round = work[o].round
  BY <1>2, <1>3, <1>4, SaveLog DEF TurnsInv
<1>6. /\ work' \in [Owner -> [round : Nat, revision : Nat, at : Nat]]
      /\ work'[o].round = work[o].round
      /\ pc' \in [Owner -> Places] /\ pc'[o] = to
      /\ \A q \in Owner : q # o => pc'[q] = pc[q]
  <2>1. work[o].revision + 1 \in Nat
    BY <1>2
  <2> QED
    BY <1>3, <2>1 DEF TurnsInv, Types, Places
<1>7. Types'
  BY <1>3, <1>5, <1>6 DEF TurnsInv, Types
<1>8. Pinned(o)' /\ InRound(o)'
  <2>1. from \in Before => work[o].round = Len(executed) + 1
    BY <1>2 DEF TurnsInv, TurnInv, InRound
  <2>2. to \in {"request", "stream"} => from \in Before
    BY <1>1 DEF Before, Saving
  <2>3. to = "stream" => SavedPhase(from) = "model"
    BY <1>1 DEF SavedPhase
  <2> QED
    BY <1>3, <1>5, <1>6, <2>1, <2>2, <2>3 DEF Pinned, InRound, Saving, Before
<1>9. \A q \in Owner : q # o => Pinned(q)' /\ InRound(q)'
  BY <1>2, <1>5, <1>6, OthersHoldNothing DEF TurnsInv
<1>10. (row.phase = "safe" => row.round = Len(executed) + 1)' /\ RoundsExecutedOnce'
  <2>1. SavedPhase(from) = "safe" => from = "saveSafe"
    BY <1>1 DEF SavedPhase, Saving
  <2> QED
    BY <1>2, <1>3, <1>5, <2>1 DEF TurnsInv, TurnInv, InRound, Before, RoundsExecutedOnce
<1> QED
  BY <1>5, <1>7, <1>8, <1>9, <1>10 DEF TurnsInv, TurnInv

\* The owner runs the round after the last one.
LEMMA StreamInv ==
  ASSUME TurnsInv, NEW o \in Owner, Stream(o)
  PROVE  TurnsInv'
<1>1. /\ row.owner = o /\ row.phase = "model" /\ work[o].round = Len(executed) + 1
      /\ executed \in Seq(Nat) /\ Len(executed) \in Nat
  BY DEF TurnsInv, TurnInv, Pinned, InRound, Stream, Before, Types
<1>2. /\ row' = row /\ events' = events /\ work' = work
      /\ executed' = Append(executed, Len(executed) + 1)
      /\ pc' = [pc EXCEPT ![o] = "result"]
  BY <1>1 DEF Stream, store, Goto
<1>3. /\ executed' \in Seq(Nat) /\ Len(executed') = Len(executed) + 1
      /\ executed'[Len(executed) + 1] = Len(executed) + 1
      /\ \A i \in 1 .. Len(executed) : executed'[i] = executed[i]
  BY <1>1, <1>2
<1>4. /\ pc' \in [Owner -> Places] /\ pc'[o] = "result"
      /\ \A q \in Owner : q # o => pc'[q] = pc[q]
  BY <1>2 DEF TurnsInv, Types, Places
<1>5. Types'
  BY <1>2, <1>3, <1>4 DEF TurnsInv, Types
<1>6. LogInv'
  BY <1>2, RowLog DEF TurnsInv
<1>7. RoundsExecutedOnce'
  <2>1. executed \in Seq(Nat) /\ RoundsExecutedOnce
    BY DEF TurnsInv, TurnInv, Types
  <2> HIDE DEF TurnsInv
  <2>2. DOMAIN executed = 1 .. Len(executed) /\ Len(executed) \in Nat
    BY <2>1
  <2>3. DOMAIN executed' = 1 .. Len(executed) + 1
    BY <1>3
  <2> QED
    BY <1>3, <2>1, <2>2, <2>3 DEF RoundsExecutedOnce
<1>8. Pinned(o)' /\ InRound(o)'
  BY <1>1, <1>2, <1>3, <1>4 DEF Pinned, InRound, Saving, Before
<1>9. \A q \in Owner : q # o => Pinned(q)' /\ InRound(q)'
  BY <1>1, <1>2, <1>4, OthersHoldNothing DEF TurnsInv
<1> QED
  BY <1>1, <1>2, <1>5, <1>6, <1>7, <1>8, <1>9 DEF TurnsInv, TurnInv

\* A claim finds the checkpoint at the end of the log: nobody holds anything.
LEMMA ClaimInv ==
  ASSUME TurnsInv, NEW o \in Owner, Claim(o)
  PROVE  TurnsInv'
<1>1. /\ row.phase = "safe" /\ row.after = Len(events) /\ row.round = Len(executed) + 1
      /\ row.revision \in Nat /\ row.round \in Nat /\ Len(events) \in Nat
  BY DEF Claim, ContinueSession, Continuable, TurnsInv, TurnInv, Types, Row
<1>2. PICK to \in {"safe", "idle"} : pc' = [pc EXCEPT ![o] = to]
  BY DEF Claim, Goto
<1>3. /\ LogInv' /\ events' \in Seq(Event) /\ row' \in Row
      /\ row'.owner = o /\ row'.phase = "safe" /\ row'.round = row.round
  BY ContinueLog DEF Claim, TurnsInv
<1>4. /\ work' = [work EXCEPT ![o] = [round |-> row.round, revision |-> row.revision + 1, at |-> 0]]
      /\ executed' = executed
  BY DEF Claim
<1>5. /\ pc' \in [Owner -> Places] /\ pc'[o] \in {"safe", "idle"}
      /\ \A q \in Owner : q # o => pc'[q] = pc[q]
  BY <1>2 DEF TurnsInv, Types, Places
<1>6. /\ work' \in [Owner -> [round : Nat, revision : Nat, at : Nat]]
      /\ work'[o].round = row.round
  <2>1. row.revision + 1 \in Nat
    BY <1>1
  <2>2. [round |-> row.round, revision |-> row.revision + 1, at |-> 0]
           \in [round : Nat, revision : Nat, at : Nat]
    BY <1>1, <2>1
  <2> QED
    BY <1>4, <2>2 DEF TurnsInv, Types
<1>7. Types'
  BY <1>3, <1>4, <1>5, <1>6 DEF TurnsInv, Types
<1>8. Pinned(o)' /\ InRound(o)'
  BY <1>1, <1>3, <1>4, <1>5, <1>6 DEF Pinned, InRound, Saving, Before
<1>9. ASSUME NEW q \in Owner, q # o
      PROVE  Pinned(q)' /\ InRound(q)'
  <2>1. pc[q] \notin {"start", "stream", "result", "model"} \union Saving
    BY <1>1 DEF TurnsInv, TurnInv, Pinned
  <2> QED
    BY <1>3, <1>5, <1>9, <2>1 DEF Pinned, InRound
<1>10. (row.phase = "safe" => row.round = Len(executed) + 1)' /\ RoundsExecutedOnce'
  BY <1>1, <1>3, <1>4 DEF TurnsInv, TurnInv, RoundsExecutedOnce
<1> QED
  BY <1>3, <1>7, <1>8, <1>9, <1>10 DEF TurnsInv, TurnInv

\* A process goes where nothing is held.
Loose == {"terminal", "failed", "down", "idle", "revision", "record", "claim", "mark", "recover"}

LEMMA LooseTurns ==
  ASSUME TurnsInv, NEW o \in Owner, NEW to \in Loose, pc' = [pc EXCEPT ![o] = to],
         work' = work, executed' = executed, row' \in Row, events' \in Seq(Event),
         row'.after = row.after, row'.phase = row.phase, row'.round = row.round, row'.owner = row.owner,
         Len(events') >= Len(events), \A i \in 1 .. Len(events) : events'[i] = events[i]
  PROVE  Types' /\ TurnInv'
<1>1. /\ pc' \in [Owner -> Places] /\ pc'[o] = to
      /\ \A q \in Owner : q # o => pc'[q] = pc[q]
  BY DEF TurnsInv, Types, Places, Loose
<1>2. Types'
  BY <1>1 DEF TurnsInv, Types
<1>3. Pinned(o)' /\ InRound(o)'
  BY <1>1 DEF Pinned, InRound, Loose, Saving, Before
<1>4. ASSUME NEW q \in Owner, q # o
      PROVE  Pinned(q)' /\ InRound(q)'
  <2>1. /\ row.after \in Nat /\ work[q].at \in Nat
        /\ Len(events) \in Nat /\ Len(events') \in Nat
    <3>1. row \in Row /\ events \in Seq(Event) /\ events' \in Seq(Event)
      BY DEF TurnsInv, Types
    <3>2. work[q] \in [round : Nat, revision : Nat, at : Nat]
      BY DEF TurnsInv, Types
    <3> QED
      BY <3>1, <3>2 DEF Row
  <2>2. Pinned(q) /\ InRound(q) /\ pc'[q] = pc[q]
    BY <1>1, <1>4 DEF TurnsInv, TurnInv
  <2>3. pc[q] \in Saving => events'[work[q].at] = events[work[q].at]
    BY <2>1, <2>2 DEF Pinned
  <2>4. Pinned(q)'
    BY <2>1, <2>2, <2>3 DEF Pinned
  <2> QED
    BY <2>2, <2>4 DEF InRound
<1> QED
  BY <1>2, <1>3, <1>4 DEF TurnsInv, TurnInv, RoundsExecutedOnce

LEMMA LooseInv ==
  ASSUME TurnsInv, NEW o \in Owner,
         Stop(o) \/ Refused(o) \/ Load(o) \/ ReadRevision(o) \/ ReadRecord(o) \/ ClaimRefused(o)
           \/ ReadMetadata(o) \/ MarkInterrupted(o) \/ Crash(o)
  PROVE  TurnsInv'
<1>1. work' = work /\ executed' = executed
  BY DEF Stop, Refused, Load, ReadRevision, ReadRecord, ClaimRefused, ReadMetadata, MarkInterrupted, Crash
<1>2. row \in Row /\ events \in Seq(Event) /\ Len(events) \in Nat /\ pc \in [Owner -> Places]
  BY DEF TurnsInv, Types
<1>3. PICK to \in Loose : pc' = [pc EXCEPT ![o] = to]
  <2>1. Load(o) /\ UNCHANGED pc => pc' = [pc EXCEPT ![o] = "idle"]
    BY <1>2 DEF Load
  <2> QED
    BY <2>1 DEF Loose, Goto,
       Stop, Refused, Load, ReadRevision, ReadRecord, ClaimRefused, ReadMetadata, MarkInterrupted, Crash
<1>4. CASE UNCHANGED store
  <2>1. row' = row /\ events' = events
    BY <1>4 DEF store
  <2>2. LogInv'
    BY <2>1, RowLog DEF TurnsInv
  <2>3. Len(events') >= Len(events) /\ \A i \in 1 .. Len(events) : events'[i] = events[i]
    BY <1>2, <2>1
  <2>4. Types' /\ TurnInv'
    BY <1>1, <1>2, <1>3, <2>1, <2>3, LooseTurns
  <2> QED
    BY <2>2, <2>4 DEF TurnsInv
<1>5. CASE RecoverInterrupted(view[o].lease) /\ row.status = "active"
  <2>1. /\ LogInv' /\ events' \in Seq(Event) /\ row' = [row EXCEPT !.status = "closed"]
        /\ Len(events') = Len(events) + 1
        /\ \A i \in 1 .. Len(events) : events'[i] = events[i]
    BY <1>5, RestoreLog DEF TurnsInv
  <2>2. /\ row' \in Row /\ row'.after = row.after /\ row'.phase = row.phase
        /\ row'.round = row.round /\ row'.owner = row.owner
    BY <1>2, <2>1 DEF Row
  <2>3. Len(events') >= Len(events)
    BY <1>2, <2>1
  <2>4. Types' /\ TurnInv'
    BY <1>1, <1>3, <2>1, <2>2, <2>3, LooseTurns
  <2> QED
    BY <2>1, <2>4 DEF TurnsInv
<1> QED
  BY <1>4, <1>5 DEF store, RecoverInterrupted,
     Stop, Refused, Load, ReadRevision, ReadRecord, ClaimRefused, ReadMetadata, MarkInterrupted, Crash

\* The lease is renewed, expires, or the session is closed.
LEMMA RowInv ==
  ASSUME TurnsInv, LeaseExpires \/ \E o \in Owner : Close(o) \/ Renew(o)
  PROVE  TurnsInv'
<1>1. row \in Row /\ row.lease + 1 \in Nat
  BY DEF TurnsInv, Types, Row
<1>2. /\ events' = events /\ pc' = pc /\ work' = work /\ executed' = executed
      /\ \/ row' = [row EXCEPT !.live = FALSE]
         \/ row' = [row EXCEPT !.status = "closed"]
         \/ row' = [row EXCEPT !.lease = row.lease + 1]
  BY DEF LeaseExpires, Expire, Close, CloseSession, Renew, RenewLease
<1>3. /\ row' \in Row /\ row'.after = row.after /\ row'.phase = row.phase
      /\ row'.round = row.round /\ row'.owner = row.owner /\ row'.status \in {row.status, "closed"}
  BY <1>1, <1>2 DEF Row
<1>4. LogInv'
  BY <1>2, <1>3, RowLog DEF TurnsInv
<1>5. Types'
  BY <1>2, <1>3 DEF TurnsInv, Types
<1>6. \A q \in Owner : Pinned(q)' /\ InRound(q)'
  BY <1>2, <1>3 DEF TurnsInv, TurnInv, Pinned, InRound
<1> QED
  BY <1>2, <1>3, <1>4, <1>5, <1>6 DEF TurnsInv, TurnInv, RoundsExecutedOnce

LEMMA NextInv == TurnsInv /\ [Next]_vars => TurnsInv'
<1> SUFFICES ASSUME TurnsInv, [Next]_vars PROVE TurnsInv'
  OBVIOUS
<1>1. ASSUME NEW o \in Owner, TurnStep(o) PROVE TurnsInv'
  BY <1>1, PlainInv, CheckpointInv, ResultInv, SaveInv, StreamInv DEF TurnStep
<1>2. ASSUME NEW o \in Owner, RecoveryStep(o) \/ Stop(o) \/ Refused(o) \/ Crash(o) PROVE TurnsInv'
  BY <1>2, LooseInv, ClaimInv DEF RecoveryStep
<1>3. CASE LeaseExpires \/ \E o \in Owner : Close(o) \/ Renew(o)
  BY <1>3, RowInv
<1>4. CASE UNCHANGED vars
  BY <1>4 DEF vars, TurnsInv, Types, LogInv, TurnInv, Pinned, InRound, RoundsExecutedOnce,
     CheckpointNamesItsEvent, WritersChangeByContinuation, ContinuedFromSafeTail, RestoredIsLast
<1> QED
  BY <1>1, <1>2, <1>3, <1>4 DEF Next

-----------------------------------------------------------------------------
(* The theorems.                                                           *)

\* Row, cursor, log and turns agree, whatever crashes and whoever recovers.
THEOREM TurnsCorrect == Spec => []TurnsInv
BY InitInv, NextInv, PTL DEF Spec

\* RoundsExecutedOnce: no model round is run twice, and none is left out.
THEOREM RoundsCorrect == Spec => []RoundsExecutedOnce
<1>1. TurnsInv => RoundsExecutedOnce
  BY DEF TurnsInv, TurnInv
<1> QED
  BY <1>1, TurnsCorrect, PTL

\* CheckpointNamesItsEvent: the checkpoint is the one its event announced,
\* although the two are written in two transactions.
THEOREM CheckpointCorrect == Spec => []CheckpointNamesItsEvent
<1>1. TurnsInv => CheckpointNamesItsEvent
  BY DEF TurnsInv, LogInv
<1> QED
  BY <1>1, TurnsCorrect, PTL

\* WritersChangeByContinuation: stale owners cannot append.
THEOREM WritersCorrect == Spec => []WritersChangeByContinuation
<1>1. TurnsInv => WritersChangeByContinuation
  BY DEF TurnsInv, LogInv
<1> QED
  BY <1>1, TurnsCorrect, PTL

\* ContinuedFromSafeTail: a continuation resumes where nothing was begun.
THEOREM ContinuationCorrect == Spec => []ContinuedFromSafeTail
<1>1. TurnsInv => ContinuedFromSafeTail
  BY DEF TurnsInv, LogInv
<1> QED
  BY <1>1, TurnsCorrect, PTL

\* RestoredIsLast: an interrupted session is marked once, and closed by it.
THEOREM RestoredCorrect == Spec => []RestoredIsLast
<1>1. TurnsInv => RestoredIsLast
  BY DEF TurnsInv, LogInv
<1> QED
  BY <1>1, TurnsCorrect, PTL
==============================================================================
