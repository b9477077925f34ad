---------------------------- MODULE RuntimeProofs ----------------------------
(***************************************************************************)
(* Proofs about the host process of an agent: KernelTurn, the turn of its  *)
(* runtime, for any calls of steer and cancel and any budgets, and         *)
(* McpClient, the client of its tool servers, for any number of requests,  *)
(* of remembered ids and of frames that answer nothing.  The two share     *)
(* nothing: a theorem about one uses the assumption of its own constants   *)
(* only.                                                                   *)
(***************************************************************************)
EXTENDS KernelTurn, McpClient, FiniteSetTheorems, SequenceTheorems, TLAPS

-----------------------------------------------------------------------------
(* KernelTurn: the invariant.                                              *)

\* What the log keeps of an event.
Entry == ({"queued"} \X {{s} : s \in Steer}) \cup ({"applied", "checkpoint"} \X SUBSET Steer)
           \cup ({"turn", "stopped"} \X Settled)

KernelTypes ==
  /\ {cancelRequested, appendFailure, inFlight} \subseteq BOOLEAN
  /\ queue \in Seq(Steer \cup {"turn"}) /\ pending \in Seq(Steer) /\ log \in Seq(Entry)
  /\ outcome \in Settled
  /\ DOMAIN steer = Steer /\ DOMAIN cancel = Cancel

\* The producer has at most one operation in the queue, and waits for it; while
\* the store works on one, no append has failed.
QueueInv ==
  /\ \A i \in DOMAIN queue : queue[i] = "turn" => step = "queued" /\ at \in Appending
  /\ \A i, j \in DOMAIN queue : queue[i] = "turn" /\ queue[j] = "turn" => i = j
  /\ inFlight => queue # << >> /\ ~appendFailure

\* No steering is accepted any more, and none is on its way.
Closed ==
  /\ status \in Settled \cup {"completing"}
  /\ inFlight => Head(queue) = "turn"

Ending == {"terminal", "turnCompleted", "agentStopped"}
Logs(entry) == \E i \in DOMAIN log : log[i] = entry

\* The outcome is the failure's, or the cancellation's, or the success of a run
\* that nobody canceled and that has no steering left.
OutcomeInv ==
  /\ at \in Ending => outcome \in {"canceled", "completed"} \/ failure # "none"
  /\ Finished /\ failure = "none" => status = outcome /\ outcome \in {"canceled", "completed"}
  /\ outcome = "completed" =>
       at \in Ending \cup {"finished"} /\ ~cancelRequested /\ pending = << >> /\ Closed
  /\ at \in {"turnCompleted", "agentStopped"} => status = "completing"
  /\ at = "agentStopped" /\ step = "appended" => Logs(<<"stopped", outcome>>)
  /\ status = "canceled" => Logs(<<"stopped", "canceled">>)

\* A caller waits for a cancellation that is under way, and is told of the
\* outcome of the log.
CallersInv ==
  \A c \in Cancel :
    /\ cancel[c] = "waiting" => cancelRequested
    /\ cancel[c] = "done" => Logs(<<"stopped", "canceled">>)

\* The steering of entry j was applied before i.
AppliedBefore(j, i) == \E k \in (j + 1) .. (i - 1) : At(k, "applied") /\ log[j][2] \subseteq log[k][2]

\* Once turn.completed is in the log, the run is at its end.
EndInv ==
  \A i \in DOMAIN log : At(i, "turn") =>
    /\ (at = "turnCompleted" /\ step = "appended") \/ at \in {"agentStopped", "finished"}
    /\ Closed
    /\ ~Finished => log[i][2] = outcome
    /\ \A j \in DOMAIN log : i < j => log[j] = <<"stopped", log[i][2]>>
    /\ log[i][2] = "completed" =>
         \A j \in DOMAIN log : At(j, "queued") => AppliedBefore(j, i)

\* Accepted steering is pending or was applied; what an append that failed may
\* have left in the log is nobody's.
ServedInv ==
  /\ \A j \in DOMAIN log : At(j, "queued") =>
       appendFailure \/ log[j][2] \subseteq ToSet(pending) \/ AppliedBefore(j, Len(log) + 1)
  /\ \A s \in Steer : steer[s] = "accepted" =>
       s \in ToSet(pending) \/ \E i \in DOMAIN log : At(i, "applied") /\ s \in log[i][2]

KernelInv == KernelTypes /\ QueueInv /\ OutcomeInv /\ CallersInv /\ EndInv /\ ServedInv

-----------------------------------------------------------------------------
(* Queues and logs.                                                        *)

\* A queue without its head, and with one more.
LEMMA TailIs ==
  ASSUME NEW S, NEW q \in Seq(S), q # << >>
  PROVE  /\ Head(q) = q[1] /\ 1 \in DOMAIN q /\ Tail(q) \in Seq(S)
         /\ \A i \in DOMAIN Tail(q) : i + 1 \in DOMAIN q /\ Tail(q)[i] = q[i + 1]
<1>1. Len(q) \in Nat \ {0} /\ DOMAIN q = 1 .. Len(q) /\ Head(q) = q[1]
  OBVIOUS
<1>2. Tail(q) \in Seq(S) /\ DOMAIN Tail(q) = 1 .. (Len(q) - 1)
  OBVIOUS
<1>3. \A i \in 1 .. (Len(q) - 1) : Tail(q)[i] = q[i + 1]
  OBVIOUS
<1> QED
  BY <1>1, <1>2, <1>3

LEMMA AppendIs ==
  ASSUME NEW S, NEW q \in Seq(S), NEW e \in S
  PROVE  /\ Append(q, e) \in Seq(S) /\ DOMAIN q = 1 .. Len(q) /\ Len(q) \in Nat
         /\ DOMAIN Append(q, e) = 1 .. (Len(q) + 1) /\ Len(Append(q, e)) = Len(q) + 1
         /\ \A i \in DOMAIN q : Append(q, e)[i] = q[i]
         /\ Append(q, e)[Len(q) + 1] = e
         /\ q # << >> => Head(Append(q, e)) = Head(q)
<1>1. /\ Append(q, e) \in Seq(S) /\ DOMAIN q = 1 .. Len(q) /\ Len(q) \in Nat
      /\ DOMAIN Append(q, e) = 1 .. (Len(q) + 1) /\ Len(Append(q, e)) = Len(q) + 1
  OBVIOUS
<1>2. /\ \A i \in 1 .. Len(q) : Append(q, e)[i] = q[i]
      /\ Append(q, e)[Len(q) + 1] = e
  OBVIOUS
<1>3. q # << >> => Head(Append(q, e)) = Head(q)
  BY <1>1, <1>2
<1> QED
  BY <1>1, <1>2, <1>3

\* The operation at the head leaves the queue: if it was the producer's, the
\* producer has none in it.
LEMMA Dequeued ==
  ASSUME KernelTypes, QueueInv, queue # << >>, queue' = Tail(queue)
  PROVE  /\ queue' \in Seq(Steer \cup {"turn"}) /\ Head(queue) \in Steer \cup {"turn"}
         /\ \A i \in DOMAIN queue' : i + 1 \in DOMAIN queue /\ queue'[i] = queue[i + 1]
         /\ Head(queue) = "turn" =>
              /\ step = "queued" /\ at \in Appending
              /\ \A i \in DOMAIN queue' : queue'[i] # "turn"
<1>1. queue \in Seq(Steer \cup {"turn"})
  BY DEF KernelTypes
<1>2. /\ Head(queue) = queue[1] /\ 1 \in DOMAIN queue /\ queue' \in Seq(Steer \cup {"turn"})
      /\ \A i \in DOMAIN queue' : i + 1 \in DOMAIN queue /\ queue'[i] = queue[i + 1]
  BY <1>1, TailIs
<1>3. Head(queue) \in Steer \cup {"turn"}
  BY <1>1, <1>2
<1>4. \A i \in DOMAIN queue' : i \in Nat \ {0}
  BY <1>2
<1>5. ASSUME Head(queue) = "turn", NEW i \in DOMAIN queue' PROVE queue'[i] # "turn"
  <2>1. i + 1 # 1
    BY <1>4
  <2> QED
    BY <1>2, <1>5, <2>1 DEF QueueInv
<1>6. Head(queue) = "turn" => step = "queued" /\ at \in Appending
  BY <1>2 DEF QueueInv
<1> QED
  BY <1>2, <1>3, <1>5, <1>6

-----------------------------------------------------------------------------
(* Steps that leave queue, log and callers alone.                          *)

Kept == UNCHANGED <<cancelRequested, appendFailure, inFlight, pending, log, steer, cancel>>
Still == Kept /\ UNCHANGED queue

\* The producer has no operation in the queue.
Alone == at \notin Appending \/ step # "queued"

\* Facts about what a step leaves alone.
LEMMA StillLogs ==
  ASSUME UNCHANGED log
  PROVE  /\ \A entry : Logs(entry)' <=> Logs(entry)
         /\ \A i, kind : At(i, kind)' <=> At(i, kind)
         /\ \A i, j : AppliedBefore(i, j)' <=> AppliedBefore(i, j)
  BY DEF Logs, At, AppliedBefore

\* Nothing of the end of the run has happened before its terminal stages.
LEMMA NotEnding ==
  ASSUME KernelInv, at \notin Ending \cup {"finished"}
  PROVE  outcome # "completed" /\ \A i \in DOMAIN log : ~At(i, "turn")
  BY DEF KernelInv, OutcomeInv, EndInv, Ending

LEMMA StillServed ==
  ASSUME ServedInv, UNCHANGED <<appendFailure, pending, log, steer>>
  PROVE  ServedInv'
  BY StillLogs DEF ServedInv, At, AppliedBefore

LEMMA StillCallers ==
  ASSUME CallersInv, UNCHANGED <<cancelRequested, log, cancel>>
  PROVE  CallersInv'
  BY StillLogs DEF CallersInv

\* A step of the producer that is not waiting in the queue.
LEMMA AloneInv ==
  ASSUME KernelInv, Still, Alone
  PROVE  Kept /\ queue' \in Seq(Steer \cup {"turn"}) /\ QueueInv'
  BY DEF KernelInv, KernelTypes, QueueInv, Still, Kept, Alone

\* The producer goes from one stage to another, before the end of the run.
LEMMA MovesInv ==
  ASSUME KernelInv, Kept, queue' \in Seq(Steer \cup {"turn"}), QueueInv',
         at \notin Ending \cup {"finished"},
         at' \notin Ending \cup {"finished"}, status' \in {status, "active"}, UNCHANGED outcome
  PROVE  KernelInv'
<1>1. outcome # "completed" /\ \A i \in DOMAIN log : ~At(i, "turn")
  BY NotEnding
<1>2. KernelTypes'
  BY DEF KernelInv, KernelTypes, Kept
<1>3. OutcomeInv'
  <2>1. status = "canceled" => Logs(<<"stopped", "canceled">>)
    BY DEF KernelInv, OutcomeInv
  <2>2. status' = "canceled" => Logs(<<"stopped", "canceled">>)'
    BY <2>1, StillLogs DEF Kept
  <2> QED
    BY <1>1, <2>2 DEF OutcomeInv, Ending, Finished
<1>4. CallersInv'
  BY StillCallers DEF KernelInv, Kept
<1>5. EndInv'
  BY <1>1, StillLogs DEF EndInv, Kept
<1>6. ServedInv'
  BY StillServed DEF KernelInv, Kept
<1> QED
  BY <1>2, <1>3, <1>4, <1>5, <1>6 DEF KernelInv

\* Something is thrown: the run is at its end, or over if it cannot append.
LEMMA ThrowInv ==
  ASSUME KernelInv, Kept, queue' \in Seq(Steer \cup {"turn"}), QueueInv',
         at \notin Ending \cup {"finished"},
         NEW cause, cause # "none", Throw(cause)
  PROVE  KernelInv'
<1>1. outcome # "completed" /\ \A i \in DOMAIN log : ~At(i, "turn")
  BY NotEnding
<1>2. /\ outcome' \in Settled \ {"completed"} /\ at' \in {"terminal", "finished"}
      /\ outcome' = "canceled" \/ failure' # "none"
      /\ at' = "finished" => failure' # "none"
      /\ status' \in {status, "failed"} /\ step' = "begin"
  BY <1>1 DEF Throw, Go, Settled, KernelInv, KernelTypes
<1>3. KernelTypes'
  BY <1>2 DEF KernelInv, KernelTypes, Kept
<1>4. OutcomeInv'
  <2>1. status = "canceled" => Logs(<<"stopped", "canceled">>)
    BY DEF KernelInv, OutcomeInv
  <2>2. status' = "canceled" => Logs(<<"stopped", "canceled">>)'
    BY <1>2, <2>1, StillLogs DEF Kept
  <2> QED
    BY <1>2, <2>2 DEF OutcomeInv, Ending, Finished
<1>5. CallersInv'
  BY StillCallers DEF KernelInv, Kept
<1>6. EndInv'
  BY <1>1, StillLogs DEF EndInv, Kept
<1>7. ServedInv'
  BY StillServed DEF KernelInv, Kept
<1> QED
  BY <1>3, <1>4, <1>5, <1>6, <1>7 DEF KernelInv

\* The producer goes from a stage before the end to another, or throws.
Moves ==
  /\ Kept /\ at \notin Ending \cup {"finished"}
  /\ \/ \E cause : cause # "none" /\ (cause = "cancel" => Aborted \/ at = "canceledCall") /\ Throw(cause)
     \/ /\ at' \notin Ending \cup {"finished"} /\ status' \in {status, "active"} /\ UNCHANGED outcome
        /\ at' = "canceledCall" => Aborted \/ at = "canceledCall"

LEMMA MoveInv ==
  ASSUME KernelInv, Moves, queue' \in Seq(Steer \cup {"turn"}), QueueInv'
  PROVE  KernelInv'
  BY MovesInv, ThrowInv DEF Moves

LEMMA AloneMoveInv ==
  ASSUME KernelInv, Moves, Still, Alone
  PROVE  KernelInv'
  BY MoveInv, AloneInv

\* What the producer's steps have in common.
LEMMA GoesIs ==
  ASSUME Goes
  PROVE  Still
  BY DEF Goes, Still, Kept, callers

LEMMA PublishedIs ==
  ASSUME NEW stage, Published(stage)
  PROVE  at = stage /\ step \in {"sent", "appended"} /\ Alone
  BY DEF Published, Alone

\* The stages of a turn.
LEMMA StagesMove ==
  ASSUME \/ Admit \/ Proceed("userMessage", "safe") \/ SnapshotFails \/ CheckBudgets("safe")
                    \/ CheckBudgets("compacted") \/ ProceedToThrow("exceeded", "budget")
                    \/ Account \/ Overflow \/ Proceed("accounted", "request") \/ CountRequest
                    \/ CallModel \/ Proceed("delta", "stream")
  PROVE  Moves /\ Still /\ Alone
<1>1. Still
  BY GoesIs DEF Admit, Proceed, SnapshotFails, CheckBudgets, ProceedToThrow, Account, Overflow, CountRequest,
                CallModel
<1>2. Alone /\ at \notin Ending \cup {"finished"}
  <2>1. CASE Admit \/ CheckBudgets("safe") \/ CheckBudgets("compacted") \/ Account
    <3>1. PICK stage \in {"agentStarted", "safe", "compacted", "steering"} : Published(stage)
      BY <2>1 DEF Admit, CheckBudgets, Account
    <3> QED
      BY <3>1, PublishedIs DEF Ending
  <2>2. CASE Proceed("userMessage", "safe") \/ Proceed("accounted", "request") \/ Proceed("delta", "stream")
    BY <2>2, PublishedIs DEF Proceed, Ending
  <2>3. CASE ProceedToThrow("exceeded", "budget") \/ Overflow \/ CountRequest \/ CallModel
    BY <2>3, PublishedIs DEF ProceedToThrow, Overflow, CountRequest, CallModel, Ending
  <2>4. CASE SnapshotFails
    BY <2>4 DEF SnapshotFails, Alone, Ending
  <2> QED
    BY <2>1, <2>2, <2>3, <2>4
<1>3. \/ \E cause : cause # "none" /\ (cause = "cancel" => Aborted \/ at = "canceledCall") /\ Throw(cause)
      \/ /\ at' \notin Ending \cup {"finished"} /\ status' = status /\ outcome' = outcome
         /\ at' = "canceledCall" => Aborted \/ at = "canceledCall"
  <2>1. CASE Admit \/ Account
    BY <2>1 DEF Admit, Account, Go, outcomes, Ending
  <2>2. CASE Proceed("userMessage", "safe") \/ Proceed("accounted", "request") \/ Proceed("delta", "stream")
    BY <2>2 DEF Proceed, Go, outcomes, Ending
  <2>3. CASE CheckBudgets("safe") \/ CheckBudgets("compacted")
    BY <2>3 DEF CheckBudgets, Go, outcomes, Ending
  <2>4. CASE ProceedToThrow("exceeded", "budget") \/ Overflow \/ SnapshotFails
    BY <2>4 DEF ProceedToThrow, Overflow, SnapshotFails
  <2>5. CASE CountRequest \/ CallModel
    BY <2>5 DEF CountRequest, CallModel, Go, outcomes, Ending
  <2> QED
    BY <2>1, <2>2, <2>3, <2>4, <2>5
<1> QED
  BY <1>1, <1>2, <1>3 DEF Moves, Still

\* The stream of the model and what the loop makes of its response.
LEMMA StreamMoves ==
  ASSUME Stream \/ StreamInterrupted \/ Responded
  PROVE  Moves /\ Still /\ Alone
<1>1. Still
  BY GoesIs DEF Stream, StreamInterrupted, Responded
<1>2. Alone /\ at \notin Ending \cup {"finished"}
  <2>1. CASE Stream \/ StreamInterrupted
    BY <2>1 DEF Stream, StreamInterrupted, Alone, Appending, Acknowledged, Ending
  <2>2. CASE Responded
    <3>1. Published("response")
      BY <2>2 DEF Responded
    <3> QED
      BY <3>1, PublishedIs DEF Ending
  <2> QED
    BY <2>1, <2>2
<1>3. \/ \E cause : cause # "none" /\ (cause = "cancel" => Aborted \/ at = "canceledCall") /\ Throw(cause)
      \/ /\ at' \notin Ending \cup {"finished"} /\ status' = status /\ outcome' = outcome
         /\ at' = "canceledCall" => Aborted \/ at = "canceledCall"
  <2>1. CASE \E event \in ModelEvents : Streamed(event) /\ UNCHANGED <<status, outcomes>>
    BY <2>1 DEF Streamed, Go, outcomes, Ending
  <2>2. CASE RoundEnds
    BY <2>2 DEF RoundEnds, Go, outcomes, Ending
  <2>3. CASE Summarized
    BY <2>3 DEF Summarized, Go, outcomes, Ending
  <2>4. CASE (\E cause \in {"model", "timeout"} : Throw(cause)) \/ (Aborted /\ Throw("cancel"))
    BY <2>4
  <2> QED
    BY <2>1, <2>2, <2>3, <2>4 DEF Stream, StreamInterrupted, Responded
<1> QED
  BY <1>1, <1>2, <1>3 DEF Moves, Still

\* A tool call, from the policy to what is observed of it.
LEMMA ToolMoves ==
  ASSUME \/ ToolCalled \/ ProceedToThrow("callsExceeded", "budget") \/ Decided
                    \/ Proceed("asked", "resolving") \/ Resolve \/ Resolved \/ Execute \/ ToolAnswers
                    \/ ToolInterrupted \/ ProceedToThrow("canceledCall", "cancel") \/ Observed
                    \/ ProceedToThrow("repeated", "repeated")
  PROVE  Moves /\ Still /\ Alone
<1>1. Still
  BY GoesIs DEF ToolCalled, ProceedToThrow, Decided, Proceed, Resolve, Resolved, Execute,
                ToolAnswers, ToolInterrupted, Observed
<1>2. Alone /\ at \notin Ending \cup {"finished"}
  <2>1. CASE \/ ToolCalled \/ ProceedToThrow("callsExceeded", "budget") \/ Decided
             \/ Proceed("asked", "resolving") \/ Resolved
             \/ ProceedToThrow("canceledCall", "cancel") \/ Observed
             \/ ProceedToThrow("repeated", "repeated")
    BY <2>1, PublishedIs DEF ToolCalled, ProceedToThrow, Decided, Proceed, Resolved, Observed, Ending
  <2>2. CASE Resolve \/ Execute \/ ToolAnswers \/ ToolInterrupted
    BY <2>2 DEF Resolve, Execute, ToolAnswers, ToolInterrupted, Alone, Appending, Acknowledged, Ending
  <2> QED
    BY <2>1, <2>2
<1>3. \/ \E cause : cause # "none" /\ (cause = "cancel" => Aborted \/ at = "canceledCall") /\ Throw(cause)
      \/ /\ at' \notin Ending \cup {"finished"} /\ status' = status /\ outcome' = outcome
         /\ at' = "canceledCall" => Aborted \/ at = "canceledCall"
  <2>1. CASE ToolCalled
    BY <2>1 DEF ToolCalled, Go, outcomes, Ending
  <2>2. CASE Decided \/ Resolve \/ Resolved
    BY <2>2 DEF Decided, Resolve, Resolved, Go, outcomes, Ending
  <2>3. CASE Proceed("asked", "resolving") \/ Observed
    BY <2>3 DEF Proceed, Observed, Go, outcomes, Ending
  <2>4. CASE \/ ProceedToThrow("callsExceeded", "budget") \/ ProceedToThrow("canceledCall", "cancel")
             \/ ProceedToThrow("repeated", "repeated")
    <3>1. CASE ProceedToThrow("canceledCall", "cancel")
      <4>1. at = "canceledCall" /\ Throw("cancel")
        BY <3>1, PublishedIs DEF ProceedToThrow
      <4> QED
        BY <4>1
    <3> QED
      BY <2>4, <3>1 DEF ProceedToThrow
  <2>5. CASE Execute
    BY <1>2, <2>5 DEF Execute, outcomes
  <2>6. CASE ToolAnswers \/ ToolInterrupted
    BY <2>6 DEF ToolAnswers, ToolInterrupted, Go, outcomes, Ending
  <2> QED
    BY <2>1, <2>2, <2>3, <2>4, <2>5, <2>6
<1> QED
  BY <1>1, <1>2, <1>3 DEF Moves, Still

\* An event on its way to the consumer; the first one admits the run.
LEMMA DeliverMoves ==
  ASSUME Deliver
  PROVE  Moves /\ Still /\ Alone
<1>1. Still /\ Alone
  BY DEF Deliver, Still, Kept, Alone, callers
<1>2. at \notin Ending \cup {"finished"} /\ at' = at
  BY DEF Deliver, Acknowledged, Ending
<1>3. status' \in {status, "active"} /\ outcome' = outcome
  BY DEF Deliver, outcomes
<1> QED
  BY <1>1, <1>2, <1>3 DEF Moves, Still, Ending

\* A step of the producer.
LEMMA ProducerIs ==
  ASSUME Producer \/ Stream \/ Resolve \/ ToolAnswers
  PROVE  \/ Serialize \/ OperationRefused \/ Finish \/ OperationStarts
         \/ Latch \/ TurnCompleted \/ AgentStopped
         \/ Moves /\ Still /\ Alone
<1>1. CASE Stream \/ StreamInterrupted \/ Responded
  BY <1>1, StreamMoves
<1> QED
  BY <1>1, StagesMove, ToolMoves, DeliverMoves DEF Producer, ResolveInterrupted

\* The invariant does not look at what else there is.
LEMMA UnchangedInv ==
  ASSUME KernelInv, Still, UNCHANGED <<status, failure, outcome, at, step>>
  PROVE  KernelInv'
<1>1. KernelTypes' /\ QueueInv'
  BY DEF KernelInv, KernelTypes, QueueInv, Still, Kept
<1>2. OutcomeInv'
  BY StillLogs DEF KernelInv, OutcomeInv, Still, Kept, Finished, Closed
<1>3. CallersInv'
  BY StillCallers DEF KernelInv, Still, Kept
<1>4. EndInv'
  BY StillLogs DEF KernelInv, EndInv, Still, Kept, Finished, Closed
<1>5. ServedInv'
  BY StillServed DEF KernelInv, Still, Kept
<1> QED
  BY <1>1, <1>2, <1>3, <1>4, <1>5 DEF KernelInv

-----------------------------------------------------------------------------
(* The end of a run.                                                       *)

\* What the log says of the outcome, it says after a step that leaves it alone.
LEMMA KeptEnd ==
  ASSUME KernelInv, Kept, status' \in Settled \cup {"completing"}, queue' = queue \/ ~inFlight,
         \/ at' = "finished"
         \/ at' = "agentStopped" /\ outcome' = outcome /\ at \in Ending
         \/ \A i \in DOMAIN log : ~At(i, "turn")
  PROVE  EndInv'
<1> SUFFICES ASSUME NEW i \in DOMAIN log, At(i, "turn")
             PROVE  /\ at' \in {"agentStopped", "finished"} /\ Closed'
                    /\ ~Finished' => log[i][2] = outcome'
                    /\ \A j \in DOMAIN log : i < j => log[j] = <<"stopped", log[i][2]>>
                    /\ log[i][2] = "completed" =>
                         \A j \in DOMAIN log : At(j, "queued") => AppliedBefore(j, i)
  <2>1. log' = log
    BY DEF Kept
  <2> QED
    BY <2>1, StillLogs DEF EndInv
<1>1. /\ Closed
      /\ ~Finished => log[i][2] = outcome
      /\ \A j \in DOMAIN log : i < j => log[j] = <<"stopped", log[i][2]>>
      /\ log[i][2] = "completed" =>
           \A j \in DOMAIN log : At(j, "queued") => AppliedBefore(j, i)
  BY DEF KernelInv, EndInv
<1>2. Closed'
  BY <1>1 DEF Closed, Kept
<1>3. ~Finished' => log[i][2] = outcome'
  BY <1>1 DEF Finished, Ending
<1> QED
  BY <1>1, <1>2, <1>3

\* The end cannot be published: it is tried again as a failure, or is final.
LEMMA TerminalFailsInv ==
  ASSUME KernelInv, Kept, queue' \in Seq(Steer \cup {"turn"}), QueueInv', queue' = queue \/ ~inFlight,
         at \in Ending, NEW cause, cause # "none", TerminalFails(cause), cause = "append" \/ at = "terminal"
  PROVE  KernelInv'
<1>1. /\ status' = "failed" /\ failure' = cause
      /\ \/ at' = "finished" /\ outcome' = outcome
         \/ at' = "terminal" /\ outcome' = "failed" /\ at = "terminal"
  BY DEF TerminalFails, Go
<1>2. KernelTypes'
  BY <1>1 DEF KernelInv, KernelTypes, Kept, Settled
<1>3. OutcomeInv'
  <2>1. outcome = "completed" => ~cancelRequested /\ pending = << >> /\ Closed
    BY DEF KernelInv, OutcomeInv
  <2>2. outcome' = "completed" => at' = "finished" /\ outcome = "completed" /\ Closed'
    BY <1>1, <2>1 DEF Closed, Kept, Settled
  <2> QED
    BY <1>1, <2>1, <2>2 DEF OutcomeInv, Finished, Kept
<1>4. EndInv'
  <2>1. at = "terminal" => \A i \in DOMAIN log : ~At(i, "turn")
    BY DEF KernelInv, EndInv
  <2> QED
    BY <1>1, <2>1, KeptEnd DEF Settled
<1>5. CallersInv' /\ ServedInv'
  BY StillCallers, StillServed DEF KernelInv, Kept
<1> QED
  BY <1>2, <1>3, <1>4, <1>5 DEF KernelInv

\* The end is published: the latch, turn.completed, agent.stopped.
LEMMA PublishInv ==
  ASSUME KernelInv, Latch \/ TurnCompleted \/ AgentStopped
  PROVE  KernelInv'
<1>1. Still /\ Kept
  BY GoesIs DEF Latch, TurnCompleted, AgentStopped, Still
<1>2. Alone /\ at \in Ending
  <2>1. CASE Latch
    BY <2>1 DEF Latch, Alone, Ending
  <2>2. CASE TurnCompleted \/ AgentStopped
    <3>1. Published("turnCompleted") \/ Published("agentStopped")
      BY <2>2 DEF TurnCompleted, AgentStopped
    <3> QED
      BY <3>1, PublishedIs DEF Ending
  <2> QED
    BY <2>1, <2>2
<1>3. queue' \in Seq(Steer \cup {"turn"}) /\ QueueInv' /\ queue' = queue
  BY <1>1, <1>2, AloneInv DEF Still
<1>4. CallersInv' /\ ServedInv'
  BY <1>1, StillCallers, StillServed DEF KernelInv, Kept
<1>5. outcome = "completed" => ~cancelRequested /\ pending = << >> /\ Closed
  BY DEF KernelInv, OutcomeInv
<1>6. outcome \in Settled /\ (outcome \in {"canceled", "completed"} \/ failure # "none")
  BY <1>2 DEF KernelInv, KernelTypes, OutcomeInv
<1>7. ASSUME outcome' = outcome, status' \in Settled \cup {"completing"}
      PROVE  KernelTypes' /\ (outcome' = "completed" => ~cancelRequested' /\ pending' = << >> /\ Closed')
  <2>1. KernelTypes'
    BY <1>1, <1>3, <1>7 DEF KernelInv, KernelTypes, Kept
  <2>2. Closed => Closed'
    BY <1>1, <1>3, <1>7 DEF Closed, Kept
  <2> QED
    BY <1>1, <1>5, <1>7, <2>1, <2>2 DEF Kept
<1>8. CASE Latch
  <2>1. at = "terminal" /\ \A i \in DOMAIN log : ~At(i, "turn")
    BY <1>8 DEF Latch, KernelInv, EndInv
  <2>2. CASE TerminalFails("construction")
    BY <1>1, <1>2, <1>3, <2>1, <2>2, TerminalFailsInv
  <2>3. CASE status' = "completing" /\ Go("turnCompleted") /\ UNCHANGED outcomes
    <3>1. /\ at' = "turnCompleted" /\ outcome' = outcome /\ failure' = failure
          /\ status' = "completing"
      BY <2>3 DEF Go, outcomes
    <3>2. OutcomeInv'
      BY <1>6, <1>7, <3>1 DEF OutcomeInv, Finished, Ending
    <3>3. EndInv'
      BY <1>1, <1>3, <2>1, <3>1, KeptEnd
    <3> QED
      BY <1>3, <1>4, <1>7, <3>1, <3>2, <3>3 DEF KernelInv
  <2> QED
    BY <1>8, <2>2, <2>3 DEF Latch
<1>9. CASE TurnCompleted
  <2>1. Published("turnCompleted") /\ Go("agentStopped") /\ UNCHANGED <<status, outcomes>>
    BY <1>9 DEF TurnCompleted
  <2>2. /\ at = "turnCompleted" /\ at' = "agentStopped" /\ step' = "begin" /\ outcome' = outcome
        /\ failure' = failure /\ status' = status
    BY <2>1, PublishedIs DEF Go, outcomes
  <2>3. status = "completing"
    BY <2>2 DEF KernelInv, OutcomeInv
  <2>4. OutcomeInv'
    BY <1>6, <1>7, <2>2, <2>3 DEF OutcomeInv, Finished, Ending
  <2>5. EndInv'
    BY <1>1, <1>2, <1>3, <2>2, <2>3, KeptEnd
  <2> QED
    BY <1>3, <1>4, <1>7, <2>2, <2>3, <2>4, <2>5 DEF KernelInv
<1>10. CASE AgentStopped
  <2>1. Published("agentStopped") /\ status' = outcome /\ Go("finished") /\ UNCHANGED outcomes
    BY <1>10 DEF AgentStopped
  <2>2. /\ at = "agentStopped" /\ step = "appended" /\ at' = "finished" /\ outcome' = outcome
        /\ failure' = failure /\ status' = outcome
    BY <2>1 DEF Go, outcomes, Published, Acknowledged
  <2>3. Logs(<<"stopped", outcome>>)
    BY <2>2 DEF KernelInv, OutcomeInv
  <2>4. status' = "canceled" => Logs(<<"stopped", "canceled">>)'
    BY <1>1, <2>2, <2>3, StillLogs DEF Kept
  <2>5. OutcomeInv'
    BY <1>6, <1>7, <2>2, <2>4 DEF OutcomeInv, Finished, Ending
  <2>6. EndInv'
    BY <1>1, <1>3, <1>6, <2>2, KeptEnd
  <2> QED
    BY <1>3, <1>4, <1>6, <1>7, <2>2, <2>5, <2>6 DEF KernelInv
<1> QED
  BY <1>8, <1>9, <1>10

-----------------------------------------------------------------------------
(* The queue.                                                              *)

\* The run is not closed for steering while it has more to do for it.
LEMMA OpenIs ==
  ASSUME KernelInv, ~Closed
  PROVE  outcome # "completed" /\ \A i \in DOMAIN log : ~At(i, "turn")
  BY DEF KernelInv, OutcomeInv, EndInv

\* An operation joins the queue; nothing else that matters changes.
LEMMA JoinsInv ==
  ASSUME KernelInv, NEW e \in Steer \cup {"turn"}, queue' = Append(queue, e),
         UNCHANGED <<cancelRequested, appendFailure, inFlight, pending, log, cancel>>,
         UNCHANGED <<status, failure, outcome, at>>,
         \/ e = "turn" /\ at \in Appending /\ step = "begin" /\ step' = "queued"
         \/ e \in Steer /\ UNCHANGED step,
         DOMAIN steer' = Steer,
         \A s \in Steer : steer'[s] = "accepted" => steer[s] = "accepted"
  PROVE  KernelInv'
<1>1. queue \in Seq(Steer \cup {"turn"})
  BY DEF KernelInv, KernelTypes
<1>2. /\ queue' \in Seq(Steer \cup {"turn"}) /\ DOMAIN queue = 1 .. Len(queue) /\ Len(queue) \in Nat
      /\ DOMAIN queue' = 1 .. (Len(queue) + 1)
      /\ \A i \in DOMAIN queue : queue'[i] = queue[i]
      /\ queue'[Len(queue) + 1] = e
      /\ queue # << >> => Head(queue') = Head(queue) /\ queue' # << >>
  BY <1>1, AppendIs
<1>3. QueueInv'
  <2>1. QueueInv
    BY DEF KernelInv
  <2>2. \A i \in DOMAIN queue' : i \in DOMAIN queue \/ i = Len(queue) + 1
    BY <1>2
  <2>3. inFlight' => queue' # << >> /\ ~appendFailure'
    BY <1>2, <2>1 DEF QueueInv
  <2>4. CASE e = "turn"
    <3>1. \A i \in DOMAIN queue : queue[i] # "turn"
      BY <2>1, <2>4, KernelAssumption DEF QueueInv
    <3> QED
      BY <1>2, <2>2, <2>3, <2>4, <3>1, KernelAssumption DEF QueueInv
  <2>5. CASE e \in Steer
    BY <1>2, <2>1, <2>2, <2>3, <2>5, KernelAssumption DEF QueueInv
  <2> QED
    BY <2>4, <2>5
<1>4. Closed => Closed'
  BY <1>2 DEF KernelInv, QueueInv, Closed
<1>5. KernelTypes'
  BY <1>2 DEF KernelInv, KernelTypes
<1>6. OutcomeInv'
  <2>1. OutcomeInv
    BY DEF KernelInv
  <2> QED
    BY <1>4, <2>1, StillLogs DEF OutcomeInv, Finished
<1>7. EndInv'
  <2>1. EndInv
    BY DEF KernelInv
  <2> QED
    BY <1>4, <2>1, StillLogs DEF EndInv, Finished
<1>8. CallersInv'
  BY StillCallers DEF KernelInv
<1>9. ServedInv'
  BY StillLogs DEF KernelInv, ServedInv
<1> QED
  BY <1>3, <1>5, <1>6, <1>7, <1>8, <1>9 DEF KernelInv

\* The operation at the head is handed to the store.
LEMMA StartsInv ==
  ASSUME KernelInv, queue # << >>, ~appendFailure, inFlight' = TRUE,
         UNCHANGED <<cancelRequested, appendFailure, queue, pending, log, steer, cancel>>,
         UNCHANGED <<status, failure, outcome, at, step>>,
         Head(queue) = "turn" \/ ~Closed, ~inFlight
  PROVE  KernelInv'
<1>1. KernelTypes' /\ QueueInv'
  BY DEF KernelInv, KernelTypes, QueueInv
<1>2. /\ outcome = "completed" => Closed'
      /\ (\E i \in DOMAIN log : At(i, "turn")) => Closed'
  <2>1. outcome = "completed" \/ (\E i \in DOMAIN log : At(i, "turn")) => Closed
    BY OpenIs
  <2> QED
    BY <2>1 DEF Closed
<1>3. OutcomeInv'
  BY <1>2, StillLogs DEF KernelInv, OutcomeInv, Finished
<1>4. EndInv'
  BY <1>2, StillLogs DEF KernelInv, EndInv, Finished
<1>5. CallersInv' /\ ServedInv'
  BY StillCallers, StillServed DEF KernelInv
<1> QED
  BY <1>1, <1>3, <1>4, <1>5 DEF KernelInv

\* What the producer does with the queue.
LEMMA ProducerQueueInv ==
  ASSUME KernelInv, Serialize \/ OperationRefused \/ Finish \/ OperationStarts
  PROVE  KernelInv'
<1>1. CASE Serialize
  BY <1>1, JoinsInv DEF Serialize, callers, outcomes, Kept, KernelInv, KernelTypes
<1>2. ASSUME TurnAtHead, queue' = Tail(queue), Kept
      PROVE  queue' \in Seq(Steer \cup {"turn"}) /\ QueueInv' /\ at \in Appending
  <2>1. queue # << >> /\ Head(queue) = "turn" /\ ~inFlight
    BY <1>2 DEF TurnAtHead
  <2>2. /\ queue' \in Seq(Steer \cup {"turn"}) /\ at \in Appending
        /\ \A i \in DOMAIN queue' : queue'[i] # "turn"
    BY <1>2, <2>1, Dequeued DEF KernelInv
  <2> QED
    BY <1>2, <2>1, <2>2 DEF QueueInv, Kept
<1>3. CASE OperationRefused
  <2>1. TurnAtHead /\ queue' = Tail(queue) /\ Kept /\ ~inFlight
    BY <1>3 DEF OperationRefused, Kept, callers, TurnAtHead
  <2>2. at \in Appending /\ "finished" \notin Appending
    BY <1>2, <2>1 DEF Appending, Acknowledged
  <2>3. CASE at \in {"terminal", "turnCompleted", "agentStopped"} /\ TerminalFails("append")
    BY <1>2, <2>1, <2>3, TerminalFailsInv DEF Ending
  <2>4. CASE at \notin {"terminal", "turnCompleted", "agentStopped"} /\ Throw("cancel")
    BY <1>2, <2>1, <2>2, <2>4, ThrowInv DEF Ending
  <2> QED
    BY <1>3, <2>3, <2>4 DEF OperationRefused
<1>4. CASE Finish
  <2>1. /\ TurnAtHead /\ queue' = Tail(queue) /\ Kept /\ ~inFlight /\ at = "finish" /\ ~Aborted
        /\ failure' = failure /\ FinishOrGoOn
    BY <1>4 DEF Finish, Kept, callers, TurnAtHead
  <2>2. outcome # "completed" /\ \A i \in DOMAIN log : ~At(i, "turn")
    BY <2>1, NotEnding DEF Ending
  <2>3. CASE pending # << >>
    <3>1. at' = "safe" /\ status' = status /\ outcome' = outcome
      BY <2>1, <2>3 DEF FinishOrGoOn, Go
    <3> QED
      BY <1>2, <2>1, <3>1, MovesInv DEF Ending
  <2>4. CASE pending = << >>
    <3>1. status' = "completing" /\ outcome' = "completed" /\ at' = "terminal" /\ step' = "begin"
      BY <2>1, <2>4 DEF FinishOrGoOn, Go
    <3>2. KernelTypes'
      BY <1>2, <2>1, <3>1 DEF KernelInv, KernelTypes, Kept, Settled
    <3>3. OutcomeInv'
      BY <2>1, <2>4, <3>1 DEF OutcomeInv, Finished, Ending, Closed, Kept, Aborted
    <3>4. EndInv'
      BY <2>1, <2>2, <3>1, KeptEnd
    <3>5. CallersInv' /\ ServedInv'
      BY <2>1, StillCallers, StillServed DEF KernelInv, Kept
    <3> QED
      BY <1>2, <2>1, <3>2, <3>3, <3>4, <3>5 DEF KernelInv
  <2> QED
    BY <2>3, <2>4
<1>5. CASE OperationStarts
  <2>1. /\ TurnAtHead /\ ~appendFailure
        /\ UNCHANGED <<cancelRequested, appendFailure, pending, log, steer, cancel>>
        /\ UNCHANGED <<status, failure, outcome, at>>
    BY <1>5 DEF OperationStarts, callers, outcomes
  <2>2. CASE at = "steering" /\ queue' = Tail(queue) /\ UNCHANGED inFlight
    <3>1. Kept
      BY <2>1, <2>2 DEF Kept
    <3> QED
      BY <1>2, <2>1, <2>2, <3>1, MovesInv DEF Ending
  <2>3. CASE inFlight' = TRUE /\ UNCHANGED <<queue, step>>
    BY <2>1, <2>3, StartsInv DEF TurnAtHead
  <2> QED
    BY <1>5, <2>2, <2>3 DEF OperationStarts
<1> QED
  BY <1>1, <1>3, <1>4, <1>5

-----------------------------------------------------------------------------
(* The store.                                                              *)

\* One more entry in the log, and what was applied before the others.
LEMMA LogGrows ==
  ASSUME KernelTypes, NEW e \in Entry, log' = Append(log, e)
  PROVE  /\ log' \in Seq(Entry) /\ Len(log) \in Nat /\ DOMAIN log = 1 .. Len(log)
         /\ DOMAIN log' = 1 .. Len(log') /\ Len(log') = Len(log) + 1
         /\ \A i \in DOMAIN log' : i \in DOMAIN log \/ i = Len(log) + 1
         /\ \A i \in DOMAIN log : i \in DOMAIN log' /\ log'[i] = log[i] /\ i < Len(log) + 1
         /\ log'[Len(log) + 1] = e /\ Len(log) + 1 \in DOMAIN log'
         /\ \A entry : Logs(entry) => Logs(entry)'
<1>1. log \in Seq(Entry)
  BY DEF KernelTypes
<1>2. /\ log' \in Seq(Entry) /\ Len(log) \in Nat /\ DOMAIN log = 1 .. Len(log)
      /\ DOMAIN log' = 1 .. Len(log') /\ Len(log') = Len(log) + 1
      /\ \A i \in DOMAIN log : log'[i] = log[i]
      /\ log'[Len(log) + 1] = e
  BY <1>1, AppendIs
<1>3. /\ \A i \in DOMAIN log' : i \in DOMAIN log \/ i = Len(log) + 1
      /\ \A i \in DOMAIN log : i \in DOMAIN log' /\ i < Len(log) + 1
      /\ Len(log) + 1 \in DOMAIN log'
  BY <1>2
<1>4. \A entry : Logs(entry) => Logs(entry)'
  BY <1>2, <1>3 DEF Logs
<1> QED
  BY <1>2, <1>3, <1>4

LEMMA AppliedStays ==
  ASSUME KernelTypes, NEW e \in Entry, log' = Append(log, e), NEW j \in DOMAIN log, NEW i \in Nat,
         i <= Len(log) + 1
  PROVE  AppliedBefore(j, i) => AppliedBefore(j, i)'
<1>1. /\ Len(log) \in Nat /\ DOMAIN log = 1 .. Len(log) /\ \A k \in DOMAIN log : log'[k] = log[k]
  BY LogGrows
<1>2. \A k \in (j + 1) .. (i - 1) : k \in DOMAIN log
  BY <1>1
<1> QED
  BY <1>1, <1>2 DEF AppliedBefore, At

\* What the producer has the store append.
LEMMA LoggedIs ==
  ASSUME KernelTypes
  PROVE  \/ log \o Logged = log /\ at \notin {"steering", "terminal", "turnCompleted", "agentStopped"}
         \/ \E e \in Entry :
              /\ log \o Logged = Append(log, e) /\ e[1] # "queued"
              /\ at = "steering" => e = <<"applied", ToSet(pending)>>
              /\ at = "turnCompleted" => e = <<"turn", outcome>>
              /\ at = "agentStopped" => e = <<"stopped", outcome>>
              /\ e[1] = "turn" => at = "turnCompleted"
              /\ e[1] = "checkpoint" => at = "terminal"
<1>1. log \in Seq(Entry) /\ ToSet(pending) \in SUBSET Steer /\ outcome \in Settled
  BY DEF KernelTypes, ToSet
<1>2. ASSUME NEW e \in Entry PROVE log \o <<e>> = Append(log, e)
  BY <1>1
<1>3. CASE at = "steering"
  <2> DEFINE e == <<"applied", ToSet(pending)>>
  <2>1. e \in Entry /\ e[1] = "applied" /\ Logged = <<e>>
    BY <1>1, <1>3 DEF Entry, Logged
  <2> QED
    BY <1>2, <1>3, <2>1
<1>4. CASE at = "terminal"
  <2> DEFINE e == <<"checkpoint", ToSet(pending)>>
  <2>1. e \in Entry /\ e[1] = "checkpoint" /\ Logged = <<e>>
    BY <1>1, <1>4 DEF Entry, Logged
  <2> QED
    BY <1>2, <1>4, <2>1
<1>5. CASE at = "turnCompleted"
  <2> DEFINE e == <<"turn", outcome>>
  <2>1. e \in Entry /\ e[1] = "turn" /\ Logged = <<e>>
    BY <1>1, <1>5 DEF Entry, Logged
  <2> QED
    BY <1>2, <1>5, <2>1
<1>6. CASE at = "agentStopped"
  <2> DEFINE e == <<"stopped", outcome>>
  <2>1. e \in Entry /\ e[1] = "stopped" /\ Logged = <<e>>
    BY <1>1, <1>6 DEF Entry, Logged
  <2> QED
    BY <1>2, <1>6, <2>1
<1>7. CASE at \notin {"steering", "terminal", "turnCompleted", "agentStopped"}
  <2>1. Logged = << >>
    BY <1>7 DEF Logged
  <2>2. log \o << >> = log
    BY <1>1
  <2> QED
    BY <1>7, <2>1, <2>2
<1> QED
  BY <1>3, <1>4, <1>5, <1>6, <1>7

\* The end of the run in the log, when the store has got the producer's event,
\* or may have.
LEMMA RecordsEnd ==
  ASSUME KernelInv, inFlight, Head(queue) = "turn", log' \in {log, log \o Logged}, UNCHANGED outcome,
         \/ UNCHANGED <<at, status>> /\ step' = "appended"
         \/ at' = "finished" /\ status' = "failed",
         inFlight' = FALSE
  PROVE  EndInv'
<1>1. /\ KernelTypes /\ QueueInv /\ OutcomeInv /\ EndInv /\ ServedInv /\ queue # << >> /\ ~appendFailure
  BY DEF KernelInv, QueueInv
<1>2. step = "queued" /\ at \in Appending
  <2>1. queue \in Seq(Steer \cup {"turn"})
    BY <1>1 DEF KernelTypes
  <2>2. 1 \in DOMAIN queue /\ queue[1] = "turn"
    BY <1>1, <2>1, TailIs
  <2> QED
    BY <1>1, <2>2 DEF QueueInv
<1>3. at # "finished"
  BY <1>2 DEF Appending, Acknowledged
<1>4. ASSUME NEW i \in DOMAIN log, At(i, "turn")
      PROVE  at = "agentStopped" /\ Closed /\ log[i][2] = outcome
  BY <1>1, <1>2, <1>3, <1>4 DEF EndInv, Finished
<1>5. status \in Settled \cup {"completing"} => Closed'
  BY DEF Closed, Settled
<1>6. at \in {"turnCompleted", "agentStopped"} => Closed'
  BY <1>1, <1>5 DEF OutcomeInv
<1>7. CASE log' = log
  <2>1. ASSUME NEW i \in DOMAIN log, At(i, "turn")
        PROVE  /\ \A j \in DOMAIN log : i < j => log[j] = <<"stopped", log[i][2]>>
               /\ log[i][2] = "completed" =>
                    \A j \in DOMAIN log : At(j, "queued") => AppliedBefore(j, i)
    BY <1>1, <2>1 DEF EndInv
  <2>2. ASSUME NEW i \in DOMAIN log, At(i, "turn")
        PROVE  at' \in {"agentStopped", "finished"} /\ Closed' /\ log[i][2] = outcome'
    BY <1>4, <1>6, <2>2
  <2> QED
    BY <1>7, <2>1, <2>2, StillLogs DEF EndInv
<1>8. ASSUME NEW e \in Entry, log' = Append(log, e), e[1] # "queued",
             at = "turnCompleted" => e = <<"turn", outcome>>,
             at = "agentStopped" => e = <<"stopped", outcome>>,
             e[1] = "turn" => at = "turnCompleted"
      PROVE  EndInv'
  <2>0. PICK n : n = Len(log) + 1
    OBVIOUS
  <2>1. /\ Len(log) \in Nat /\ DOMAIN log = 1 .. Len(log)
        /\ \A i \in DOMAIN log' : i \in DOMAIN log \/ i = n
        /\ \A i \in DOMAIN log : i \in DOMAIN log' /\ log'[i] = log[i] /\ i < n
        /\ log'[n] = e /\ n \in DOMAIN log'
    BY <1>1, <1>8, <2>0, LogGrows
  <2>2. \A i \in DOMAIN log : \A kind : At(i, kind)' <=> At(i, kind)
    BY <2>1 DEF At
  <2>3. \A kind : At(n, kind)' <=> e[1] = kind
    BY <2>1 DEF At
  <2> SUFFICES ASSUME NEW i \in DOMAIN log', At(i, "turn")'
               PROVE  /\ (at' = "turnCompleted" /\ step' = "appended") \/ at' \in {"agentStopped", "finished"}
                      /\ Closed'
                      /\ ~Finished' => log'[i][2] = outcome'
                      /\ \A j \in DOMAIN log' : i < j => log'[j] = <<"stopped", log'[i][2]>>
                      /\ log'[i][2] = "completed" =>
                           \A j \in DOMAIN log' : At(j, "queued")' => AppliedBefore(j, i)'
    BY DEF EndInv
  <2>4. CASE i \in DOMAIN log
    <3>1. /\ at = "agentStopped" /\ Closed /\ log[i][2] = outcome /\ e = <<"stopped", outcome>>
          /\ \A j \in DOMAIN log : i < j => log[j] = <<"stopped", log[i][2]>>
          /\ log[i][2] = "completed" =>
               \A j \in DOMAIN log : At(j, "queued") => AppliedBefore(j, i)
      BY <1>1, <1>4, <1>8, <2>2, <2>4 DEF EndInv
    <3>2. \A j \in DOMAIN log' : i < j => log'[j] = <<"stopped", log'[i][2]>>
      BY <2>1, <2>4, <3>1
    <3>3. ASSUME log'[i][2] = "completed", NEW j \in DOMAIN log', At(j, "queued")'
          PROVE  AppliedBefore(j, i)'
      <4>1. j \in DOMAIN log /\ At(j, "queued")
        BY <1>8, <2>1, <2>2, <2>3, <3>3
      <4>2. AppliedBefore(j, i)
        BY <2>1, <2>4, <3>1, <3>3, <4>1
      <4>3. i \in Nat /\ i <= Len(log) + 1
        BY <2>1, <2>4
      <4> QED
        BY <1>1, <1>8, <4>1, <4>2, <4>3, AppliedStays
    <3> QED
      BY <1>6, <2>1, <2>4, <3>1, <3>2, <3>3
  <2>5. CASE i = n
    <3>1. at = "turnCompleted" /\ e = <<"turn", outcome>> /\ log'[i][2] = outcome
      <4>1. e[1] = "turn"
        BY <2>3, <2>5
      <4>2. e = <<"turn", outcome>> /\ at = "turnCompleted"
        BY <1>8, <4>1
      <4> QED
        BY <2>1, <2>5, <4>2
    <3>2. \A j \in DOMAIN log' : ~(i < j)
      BY <2>1, <2>5
    <3>3. ASSUME log'[i][2] = "completed", NEW j \in DOMAIN log', At(j, "queued")'
          PROVE  AppliedBefore(j, i)'
      <4>1. j \in DOMAIN log /\ At(j, "queued")
        BY <1>8, <2>1, <2>2, <2>3, <3>3
      <4>2. pending = << >>
        BY <1>1, <3>1, <3>3 DEF OutcomeInv
      <4>3. ~(log[j][2] \subseteq ToSet(pending))
        <5>1. log[j] \in Entry /\ log[j][1] = "queued"
          BY <1>1, <4>1 DEF KernelTypes, At
        <5>2. \E s \in Steer : log[j][2] = {s}
          BY <5>1 DEF Entry
        <5>3. ToSet(pending) = {}
          BY <4>2 DEF ToSet
        <5> QED
          BY <5>2, <5>3
      <4>4. AppliedBefore(j, Len(log) + 1)
        BY <1>1, <4>1, <4>3 DEF ServedInv
      <4>5. n \in Nat /\ n <= Len(log) + 1 /\ AppliedBefore(j, n)
        BY <2>0, <2>1, <4>4
      <4>6. AppliedBefore(j, n)'
        BY <1>1, <1>8, <4>1, <4>5, AppliedStays
      <4> QED
        BY <2>5, <4>6
    <3> QED
      BY <1>6, <3>1, <3>2, <3>3
  <2> QED
    BY <2>1, <2>4, <2>5
<1> QED
  BY <1>1, <1>7, <1>8, LoggedIs

\* What was applied before the end of the log is so before the next entry.
LEMMA AppliedLater ==
  ASSUME KernelTypes, NEW e \in Entry, log' = Append(log, e), NEW j \in DOMAIN log
  PROVE  /\ AppliedBefore(j, Len(log) + 1) => AppliedBefore(j, Len(log) + 1)'
         /\ e[1] = "applied" /\ log[j][2] \subseteq e[2] => AppliedBefore(j, Len(log) + 1)'
<1>1. PICK n : n = Len(log) + 1
  OBVIOUS
<1>2. /\ Len(log) \in Nat /\ DOMAIN log = 1 .. Len(log) /\ Len(log') = n
      /\ \A i \in DOMAIN log : log'[i] = log[i]
      /\ log'[n] = e
  BY <1>1, LogGrows
<1>3. \A k \in (j + 1) .. (n - 1) : k \in DOMAIN log /\ k \in (j + 1) .. ((n + 1) - 1)
  BY <1>1, <1>2
<1>4. AppliedBefore(j, n) => AppliedBefore(j, n + 1)'
  BY <1>2, <1>3 DEF AppliedBefore, At
<1>5. n \in (j + 1) .. ((n + 1) - 1)
  BY <1>1, <1>2
<1>6. e[1] = "applied" /\ log[j][2] \subseteq e[2] => AppliedBefore(j, n + 1)'
  BY <1>2, <1>5 DEF AppliedBefore, At
<1> QED
  BY <1>1, <1>2, <1>4, <1>6

\* Steering that was accepted is not lost with what the producer appends.
LEMMA RecordsServed ==
  ASSUME KernelInv, log' \in {log, log \o Logged}, UNCHANGED steer,
         \/ UNCHANGED <<pending, appendFailure>>
         \/ UNCHANGED pending /\ appendFailure'
         \/ at = "steering" /\ log' = log \o Logged /\ UNCHANGED appendFailure
  PROVE  ServedInv'
<1>1. KernelTypes /\ ServedInv
  BY DEF KernelInv
<1>2. CASE log' = log /\ UNCHANGED pending
  BY <1>1, <1>2, StillLogs DEF ServedInv
<1>3. ASSUME NEW e \in Entry, log' = Append(log, e), e[1] # "queued",
             at = "steering" => e = <<"applied", ToSet(pending)>>
      PROVE  ServedInv'
  <2>1. PICK n : n = Len(log) + 1
    OBVIOUS
  <2>2. /\ \A i \in DOMAIN log' : i \in DOMAIN log \/ i = n
        /\ \A i \in DOMAIN log : i \in DOMAIN log' /\ log'[i] = log[i]
        /\ log'[n] = e /\ n \in DOMAIN log'
    BY <1>1, <1>3, <2>1, LogGrows
  <2>3. ASSUME NEW j \in DOMAIN log', At(j, "queued")'
        PROVE  appendFailure' \/ log'[j][2] \subseteq ToSet(pending)' \/ AppliedBefore(j, Len(log) + 1)'
    <3>1. j \in DOMAIN log /\ At(j, "queued") /\ log'[j] = log[j]
      BY <1>3, <2>2, <2>3 DEF At
    <3>2. CASE appendFailure
      BY <1>1, <3>2
    <3>3. CASE log[j][2] \subseteq ToSet(pending)
      <4>1. CASE UNCHANGED pending
        BY <3>1, <3>3, <4>1
      <4>2. CASE at = "steering"
        BY <1>1, <1>3, <3>1, <3>3, <4>2, AppliedLater
      <4> QED
        BY <4>1, <4>2
    <3>4. CASE AppliedBefore(j, Len(log) + 1)
      BY <1>1, <1>3, <3>1, <3>4, AppliedLater
    <3> QED
      BY <1>1, <3>1, <3>2, <3>3, <3>4 DEF ServedInv
  <2>4. ASSUME NEW s \in Steer, steer'[s] = "accepted"
        PROVE  s \in ToSet(pending)' \/ \E i \in DOMAIN log' : At(i, "applied")' /\ s \in log'[i][2]
    <3>1. CASE s \in ToSet(pending)
      <4>1. CASE UNCHANGED pending
        BY <3>1, <4>1
      <4>2. CASE at = "steering"
        <5>1. log'[n][1] = "applied" /\ s \in log'[n][2]
          BY <1>3, <2>2, <3>1, <4>2
        <5> QED
          BY <2>2, <5>1 DEF At
      <4> QED
        BY <4>1, <4>2
    <3>2. ASSUME NEW i \in DOMAIN log, At(i, "applied"), s \in log[i][2]
          PROVE  \E k \in DOMAIN log' : At(k, "applied")' /\ s \in log'[k][2]
      BY <2>2, <3>2 DEF At
    <3> QED
      BY <1>1, <2>4, <3>1, <3>2 DEF ServedInv
  <2> QED
    BY <2>3, <2>4 DEF ServedInv
<1>4. CASE log' = log \o Logged /\ log \o Logged = log /\ at # "steering"
  BY <1>2, <1>4
<1> QED
  BY <1>1, <1>2, <1>3, <1>4, LoggedIs

\* The store has got the producer's event, or the append of it failed.
LEMMA ProducerAppendInv ==
  ASSUME KernelInv, Appended \/ (AppendFails /\ Head(queue) = "turn")
  PROVE  KernelInv'
<1>1. /\ inFlight /\ Head(queue) = "turn" /\ queue' = Tail(queue) /\ inFlight' = FALSE
      /\ log' \in {log, log \o Logged} /\ UNCHANGED <<cancelRequested, outcome, steer, cancel>>
  BY DEF Appended, AppendFails, callers, outcomes
<1>2. \/ /\ UNCHANGED <<at, status, failure, appendFailure>> /\ step' = "appended" /\ log' = log \o Logged
         /\ pending' = IF at = "steering" THEN << >> ELSE pending
      \/ /\ at' = "finished" /\ status' = "failed" /\ failure' = "append" /\ appendFailure' = TRUE
         /\ UNCHANGED pending
  BY <1>1 DEF Appended, AppendFails, callers, outcomes, Go
<1>3. KernelTypes /\ QueueInv /\ OutcomeInv /\ CallersInv /\ queue # << >>
  BY <1>1 DEF KernelInv, QueueInv
<1>4. /\ queue' \in Seq(Steer \cup {"turn"})
      /\ \A i \in DOMAIN queue' : queue'[i] # "turn"
  BY <1>1, <1>3, Dequeued
<1>5. QueueInv'
  BY <1>1, <1>4 DEF QueueInv
<1>6. /\ log' \in Seq(Entry)
      /\ \A entry : Logs(entry) => Logs(entry)'
      /\ log' = log \o Logged /\ at = "agentStopped" => Logs(<<"stopped", outcome>>)'
  <2>1. CASE log' = log
    <3>1. log' \in Seq(Entry) /\ \A entry : Logs(entry) => Logs(entry)'
      BY <1>3, <2>1, StillLogs DEF KernelTypes
    <3>2. ASSUME NEW e \in Entry, log' = Append(log, e) PROVE FALSE
      <4>1. Len(log') = Len(log) + 1 /\ Len(log) \in Nat
        BY <1>3, <3>2, LogGrows
      <4> QED
        BY <2>1, <4>1
    <3>3. log' = log \o Logged => at # "agentStopped"
      BY <1>3, <3>2, LoggedIs
    <3> QED
      BY <3>1, <3>3
  <2>2. ASSUME NEW e \in Entry, log' = Append(log, e), at = "agentStopped" => e = <<"stopped", outcome>>
        PROVE  /\ log' \in Seq(Entry)
               /\ \A entry : Logs(entry) => Logs(entry)'
               /\ at = "agentStopped" => Logs(<<"stopped", outcome>>)'
    <3>1. /\ log' \in Seq(Entry)
          /\ \A entry : Logs(entry) => Logs(entry)'
          /\ log'[Len(log) + 1] = e /\ Len(log) + 1 \in DOMAIN log'
      BY <1>3, <2>2, LogGrows
    <3>2. at = "agentStopped" => Logs(<<"stopped", outcome>>)'
      BY <1>1, <2>2, <3>1 DEF Logs
    <3> QED
      BY <3>1, <3>2
  <2>3. CASE log' = log \o Logged /\ log' # log
    <3>1. PICK e \in Entry : log' = Append(log, e) /\ (at = "agentStopped" => e = <<"stopped", outcome>>)
      BY <1>3, <2>3, LoggedIs
    <3> QED
      BY <2>2, <3>1
  <2> QED
    BY <1>1, <2>1, <2>3
<1>7. KernelTypes'
  <2>1. pending' \in Seq(Steer)
    <3>1. << >> \in Seq(Steer)
      OBVIOUS
    <3> QED
      BY <1>2, <1>3, <3>1 DEF KernelTypes
  <2> QED
    BY <1>1, <1>2, <1>3, <1>4, <1>6, <2>1 DEF KernelTypes
<1>8. OutcomeInv'
  <2>1. outcome' = "completed" => at \in Ending \cup {"finished"} /\ ~cancelRequested' /\ pending' = << >> /\ Closed'
    BY <1>1, <1>2, <1>3 DEF OutcomeInv, Closed, Settled
  <2>2. status' = "canceled" => Logs(<<"stopped", "canceled">>)'
    BY <1>2, <1>3, <1>6 DEF OutcomeInv
  <2>3. at' = "agentStopped" => Logs(<<"stopped", outcome>>)'
    BY <1>2, <1>6
  <2>4. CASE UNCHANGED <<at, status, failure>>
    BY <1>1, <1>3, <2>1, <2>2, <2>3, <2>4 DEF OutcomeInv, Finished
  <2>5. CASE at' = "finished" /\ status' = "failed" /\ failure' = "append"
    BY <2>1, <2>2, <2>5 DEF OutcomeInv, Finished, Ending
  <2> QED
    BY <1>2, <2>4, <2>5
<1>9. EndInv'
  BY <1>1, <1>2, RecordsEnd
<1>10. CallersInv'
  BY <1>1, <1>3, <1>6 DEF CallersInv
<1>11. ServedInv'
  BY <1>1, <1>2, RecordsServed
<1> QED
  BY <1>5, <1>7, <1>8, <1>9, <1>10, <1>11 DEF KernelInv

-----------------------------------------------------------------------------
(* The callers.                                                            *)

\* The store has got a message, or the append of it failed.
LEMMA SteeringAppendInv ==
  ASSUME KernelInv, NEW s \in Steer, inFlight, Head(queue) = s, queue' = Tail(queue), inFlight' = FALSE,
         log' \in {log, Append(log, <<"queued", {s}>>)},
         UNCHANGED <<cancelRequested, cancel, status, failure, outcome, at, step>>,
         appendFailure' \in BOOLEAN, pending' \in Seq(Steer), DOMAIN steer' = Steer,
         ServedInv'
  PROVE  KernelInv'
<1>1. KernelTypes /\ QueueInv /\ OutcomeInv /\ CallersInv /\ queue # << >>
  BY DEF KernelInv, QueueInv
<1>2. /\ queue' \in Seq(Steer \cup {"turn"})
      /\ \A i \in DOMAIN queue' : i + 1 \in DOMAIN queue /\ queue'[i] = queue[i + 1]
  BY <1>1, Dequeued
<1>3. QueueInv'
  <2>1. \A i, j \in DOMAIN queue' : i \in Nat /\ j \in Nat
    BY <1>2
  <2>2. \A i \in DOMAIN queue' : queue'[i] = "turn" => step' = "queued" /\ at' \in Appending
    BY <1>1, <1>2 DEF QueueInv
  <2>3. ASSUME NEW i \in DOMAIN queue', NEW j \in DOMAIN queue', queue'[i] = "turn", queue'[j] = "turn"
        PROVE  i = j
    <3>1. i + 1 = j + 1
      BY <1>1, <1>2, <2>3 DEF QueueInv
    <3> QED
      BY <2>1, <3>1
  <2> QED
    BY <2>2, <2>3 DEF QueueInv
<1>4. ~Closed
  BY KernelAssumption DEF Closed
<1>5. outcome # "completed" /\ \A i \in DOMAIN log : ~At(i, "turn")
  BY <1>4, OpenIs
<1>6. /\ log' \in Seq(Entry)
      /\ \A entry : Logs(entry) => Logs(entry)'
      /\ \A i \in DOMAIN log' : ~At(i, "turn")'
  <2>1. CASE log' = log
    <3>1. log' \in Seq(Entry)
      BY <1>1, <2>1 DEF KernelTypes
    <3> QED
      BY <1>5, <2>1, <3>1, StillLogs
  <2>2. CASE log' = Append(log, <<"queued", {s}>>)
    <3>1. PICK e \in Entry : e = <<"queued", {s}>>
      BY DEF Entry
    <3>2. PICK n : n = Len(log) + 1
      OBVIOUS
    <3>3. /\ log' \in Seq(Entry)
          /\ \A entry : Logs(entry) => Logs(entry)'
          /\ \A i \in DOMAIN log' : i \in DOMAIN log \/ i = n
          /\ \A i \in DOMAIN log : log'[i] = log[i]
          /\ log'[n] = e
      BY <1>1, <2>2, <3>1, <3>2, LogGrows
    <3>4. \A i \in DOMAIN log' : ~At(i, "turn")'
      BY <1>5, <3>1, <3>3 DEF At
    <3> QED
      BY <3>3, <3>4
  <2> QED
    BY <2>1, <2>2
<1>7. KernelTypes'
  BY <1>1, <1>2, <1>6 DEF KernelTypes
<1>8. OutcomeInv'
  <2>1. status' = "canceled" => Logs(<<"stopped", "canceled">>)'
    BY <1>1, <1>6 DEF OutcomeInv
  <2>2. at' = "agentStopped" /\ step' = "appended" => Logs(<<"stopped", outcome>>)'
    BY <1>1, <1>6 DEF OutcomeInv
  <2> QED
    BY <1>1, <1>5, <2>1, <2>2 DEF OutcomeInv, Finished
<1>9. CallersInv'
  BY <1>1, <1>6 DEF CallersInv
<1>10. EndInv'
  BY <1>6 DEF EndInv
<1> QED
  BY <1>3, <1>7, <1>8, <1>9, <1>10 DEF KernelInv

\* The message of a caller is pending.
LEMMA SteerAcceptedInv ==
  ASSUME KernelInv, NEW s \in Steer, SteerAccepted(s)
  PROVE  KernelInv'
<1>1. /\ inFlight /\ Head(queue) = s /\ queue' = Tail(queue) /\ inFlight' = FALSE
      /\ log' = Append(log, <<"queued", {s}>>) /\ pending' = Append(pending, s)
      /\ steer' = [steer EXCEPT ![s] = "accepted"]
      /\ UNCHANGED <<cancelRequested, cancel, appendFailure, status, failure, outcome, at, step>>
  BY DEF SteerAccepted, outcomes
<1>2. KernelTypes /\ ServedInv
  BY DEF KernelInv
<1>3. pending' \in Seq(Steer) /\ ToSet(pending)' = ToSet(pending) \cup {s}
  <2>1. pending \in Seq(Steer)
    BY <1>2 DEF KernelTypes
  <2>2. /\ pending' \in Seq(Steer) /\ DOMAIN pending = 1 .. Len(pending) /\ Len(pending) \in Nat
        /\ DOMAIN pending' = 1 .. (Len(pending) + 1)
        /\ \A i \in DOMAIN pending : pending'[i] = pending[i]
        /\ pending'[Len(pending) + 1] = s
    BY <1>1, <2>1, AppendIs
  <2>3. ToSet(pending) \cup {s} \subseteq ToSet(pending)'
    BY <2>2 DEF ToSet
  <2>4. ToSet(pending)' \subseteq ToSet(pending) \cup {s}
    <3>1. \A i \in DOMAIN pending' : i \in DOMAIN pending \/ i = Len(pending) + 1
      BY <2>2
    <3> QED
      BY <2>2, <3>1 DEF ToSet
  <2> QED
    BY <2>2, <2>3, <2>4
<1>4. PICK e \in Entry : e = <<"queued", {s}>>
  BY DEF Entry
<1>5. PICK n : n = Len(log) + 1
  OBVIOUS
<1>6. /\ \A i \in DOMAIN log' : i \in DOMAIN log \/ i = n
      /\ \A i \in DOMAIN log : i \in DOMAIN log' /\ log'[i] = log[i]
      /\ log'[n] = e
  BY <1>1, <1>2, <1>4, <1>5, LogGrows
<1>7. ServedInv'
  <2>1. ASSUME NEW j \in DOMAIN log', At(j, "queued")'
        PROVE  appendFailure' \/ log'[j][2] \subseteq ToSet(pending)' \/ AppliedBefore(j, Len(log) + 1)'
    <3>1. CASE j = n
      BY <1>3, <1>4, <1>6, <3>1
    <3>2. CASE j \in DOMAIN log
      <4>1. At(j, "queued") /\ log'[j] = log[j]
        BY <1>6, <2>1, <3>2 DEF At
      <4>2. AppliedBefore(j, Len(log) + 1) => AppliedBefore(j, Len(log) + 1)'
        BY <1>1, <1>2, <1>4, <3>2, AppliedLater
      <4> QED
        BY <1>1, <1>2, <1>3, <3>2, <4>1, <4>2 DEF ServedInv
    <3> QED
      BY <1>6, <3>1, <3>2
  <2>2. ASSUME NEW r \in Steer, steer'[r] = "accepted"
        PROVE  r \in ToSet(pending)' \/ \E i \in DOMAIN log' : At(i, "applied")' /\ r \in log'[i][2]
    <3>1. CASE r = s
      BY <1>3, <3>1
    <3>2. CASE r # s
      <4>1. steer[r] = "accepted"
        BY <1>1, <2>2, <3>2
      <4>2. r \in ToSet(pending) \/ \E i \in DOMAIN log : At(i, "applied") /\ r \in log[i][2]
        BY <1>2, <4>1 DEF ServedInv
      <4> QED
        BY <1>3, <1>6, <4>2 DEF At
    <3> QED
      BY <3>1, <3>2
  <2> QED
    BY <2>1, <2>2 DEF ServedInv
<1>8. DOMAIN steer' = Steer /\ appendFailure' \in BOOLEAN
  BY <1>1, <1>2 DEF KernelTypes
<1> QED
  BY <1>1, <1>3, <1>7, <1>8, SteeringAppendInv

\* The append of a message failed: nothing was promised to its caller.
LEMMA SteerFailsInv ==
  ASSUME KernelInv, AppendFails, Head(queue) # "turn"
  PROVE  KernelInv'
<1>1. PICK s \in Steer : s = Head(queue)
  <2>1. inFlight /\ KernelTypes /\ QueueInv /\ queue' = Tail(queue)
    BY DEF AppendFails, KernelInv
  <2>2. queue # << >>
    BY <2>1 DEF QueueInv
  <2>3. Head(queue) \in Steer \cup {"turn"}
    BY <2>1, <2>2, Dequeued
  <2> QED
    BY <2>3
<1>2. /\ inFlight /\ Head(queue) = s /\ queue' = Tail(queue) /\ inFlight' = FALSE
      /\ log' \in {log, Append(log, <<"queued", {s}>>)} /\ appendFailure' = TRUE
      /\ steer' = [steer EXCEPT ![s] = "failed"]
      /\ UNCHANGED <<cancelRequested, cancel, pending, status, failure, outcome, at, step>>
  BY <1>1 DEF AppendFails
<1>3. KernelTypes /\ ServedInv
  BY DEF KernelInv
<1>4. \A i \in DOMAIN log : i \in DOMAIN log' /\ log'[i] = log[i]
  <2>1. PICK e \in Entry : e = <<"queued", {s}>>
    BY DEF Entry
  <2> QED
    BY <1>2, <1>3, <2>1, LogGrows
<1>5. ServedInv'
  <2>1. ASSUME NEW r \in Steer, steer'[r] = "accepted"
        PROVE  r \in ToSet(pending)' \/ \E i \in DOMAIN log' : At(i, "applied")' /\ r \in log'[i][2]
    <3>1. steer[r] = "accepted"
      BY <1>2, <1>3, <2>1 DEF KernelTypes
    <3>2. r \in ToSet(pending) \/ \E i \in DOMAIN log : At(i, "applied") /\ r \in log[i][2]
      BY <1>3, <3>1 DEF ServedInv
    <3> QED
      BY <1>2, <1>4, <3>2 DEF At
  <2> QED
    BY <1>2, <2>1 DEF ServedInv
<1>6. DOMAIN steer' = Steer /\ pending' \in Seq(Steer)
  BY <1>2, <1>3 DEF KernelTypes
<1> QED
  BY <1>2, <1>5, <1>6, SteeringAppendInv

\* A message is refused when its caller comes, or when its turn comes.
LEMMA SteerRefusedInv ==
  ASSUME KernelInv, NEW s \in Steer, steer' = [steer EXCEPT ![s] = "refused"],
         UNCHANGED <<cancelRequested, appendFailure, inFlight, pending, log, cancel>>,
         UNCHANGED <<status, failure, outcome, at, step>>,
         \/ UNCHANGED queue
         \/ queue # << >> /\ Head(queue) = s /\ ~inFlight /\ queue' = Tail(queue)
  PROVE  KernelInv'
<1>1. /\ KernelTypes /\ QueueInv /\ OutcomeInv /\ CallersInv /\ EndInv /\ ServedInv
      /\ queue \in Seq(Steer \cup {"turn"})
  BY DEF KernelInv, KernelTypes
<1>2. queue' \in Seq(Steer \cup {"turn"}) /\ QueueInv'
  <2>1. CASE UNCHANGED queue
    BY <1>1, <2>1 DEF QueueInv
  <2>2. CASE queue # << >> /\ ~inFlight /\ queue' = Tail(queue)
    <3>1. /\ queue' \in Seq(Steer \cup {"turn"})
          /\ \A i \in DOMAIN queue' : i + 1 \in DOMAIN queue /\ queue'[i] = queue[i + 1]
      BY <1>1, <2>2, Dequeued
    <3>2. \A i, j \in DOMAIN queue' : i \in Nat /\ j \in Nat
      <4>1. DOMAIN queue' = 1 .. Len(queue') /\ Len(queue') \in Nat
        BY <3>1
      <4> QED
        BY <4>1
    <3>3. \A i \in DOMAIN queue' : queue'[i] = "turn" => step' = "queued" /\ at' \in Appending
      BY <1>1, <3>1 DEF QueueInv
    <3>4. ASSUME NEW i \in DOMAIN queue', NEW j \in DOMAIN queue', queue'[i] = "turn", queue'[j] = "turn"
          PROVE  i = j
      <4>1. i + 1 = j + 1
        BY <1>1, <3>1, <3>4 DEF QueueInv
      <4> QED
        BY <3>2, <4>1
    <3> QED
      BY <2>2, <3>1, <3>3, <3>4 DEF QueueInv
  <2> QED
    BY <2>1, <2>2
<1>3. Closed => Closed'
  BY DEF Closed
<1>4. KernelTypes'
  BY <1>1, <1>2 DEF KernelTypes
<1>5. OutcomeInv'
  BY <1>1, <1>3, StillLogs DEF OutcomeInv, Finished
<1>6. EndInv'
  BY <1>1, <1>3, StillLogs DEF EndInv, Finished
<1>7. CallersInv'
  BY <1>1, StillCallers
<1>8. ServedInv'
  <2>1. \A r \in Steer : steer'[r] = "accepted" => steer[r] = "accepted"
    BY <1>1 DEF KernelTypes
  <2> QED
    BY <1>1, <2>1, StillLogs DEF ServedInv
<1> QED
  BY <1>2, <1>4, <1>5, <1>6, <1>7, <1>8 DEF KernelInv

\* steer, up to the hand-over to the store.
LEMMA SteerInv ==
  ASSUME KernelInv, NEW s \in Steer, SteerCalled(s) \/ SteerStarts(s)
  PROVE  KernelInv'
<1>1. CASE SteerCalled(s)
  <2>1. UNCHANGED <<status, cancelRequested, appendFailure, at, step, inFlight, pending, cancel, log,
                    failure, outcome>>
    BY <1>1 DEF SteerCalled, outcomes
  <2>2. CASE steer' = [steer EXCEPT ![s] = "queued"] /\ queue' = Append(queue, s)
    <3>1. DOMAIN steer' = Steer /\ \A r \in Steer : steer'[r] = "accepted" => steer[r] = "accepted"
      BY <2>2 DEF KernelInv, KernelTypes
    <3> QED
      BY <2>1, <2>2, <3>1, JoinsInv
  <2>3. CASE steer' = [steer EXCEPT ![s] = "refused"] /\ UNCHANGED queue
    BY <2>1, <2>3, SteerRefusedInv
  <2> QED
    BY <1>1, <2>2, <2>3 DEF SteerCalled
<1>2. CASE SteerStarts(s)
  <2>1. /\ queue # << >> /\ Head(queue) = s /\ ~inFlight
        /\ UNCHANGED <<status, cancelRequested, appendFailure, at, step, pending, cancel, log, failure,
                       outcome>>
    BY <1>2 DEF SteerStarts, outcomes
  <2>2. CASE ~appendFailure /\ Controllable /\ inFlight' = TRUE /\ UNCHANGED <<queue, steer>>
    <3>1. ~Closed
      BY <2>2 DEF Closed, Controllable
    <3> QED
      BY <2>1, <2>2, <3>1, StartsInv
  <2>3. CASE queue' = Tail(queue) /\ steer' = [steer EXCEPT ![s] = "refused"] /\ UNCHANGED inFlight
    BY <2>1, <2>3, SteerRefusedInv
  <2> QED
    BY <1>2, <2>2, <2>3 DEF SteerStarts
<1> QED
  BY <1>1, <1>2

\* What a caller of cancel changes.
LEMMA CancelsInv ==
  ASSUME KernelInv, cancelRequested' \in BOOLEAN, DOMAIN cancel' = Cancel, CallersInv',
         outcome = "completed" => ~cancelRequested',
         UNCHANGED <<appendFailure, queue, inFlight, pending, log, steer>>,
         UNCHANGED <<status, failure, outcome, at, step>>
  PROVE  KernelInv'
<1>1. KernelTypes' /\ QueueInv'
  BY DEF KernelInv, KernelTypes, QueueInv
<1>2. OutcomeInv'
  BY StillLogs DEF KernelInv, OutcomeInv, Finished, Closed
<1>3. EndInv'
  BY StillLogs DEF KernelInv, EndInv, Finished, Closed
<1>4. ServedInv'
  BY StillServed DEF KernelInv
<1> QED
  BY <1>1, <1>2, <1>3, <1>4 DEF KernelInv

\* cancel, and what its caller is told.
LEMMA CancelInv ==
  ASSUME KernelInv, NEW c \in Cancel, CancelCalled(c) \/ CancelSettles(c)
  PROVE  KernelInv'
<1>1. KernelTypes /\ OutcomeInv /\ CallersInv
  BY DEF KernelInv
<1>2. /\ UNCHANGED <<appendFailure, queue, inFlight, pending, log, steer>>
      /\ UNCHANGED <<status, failure, outcome, at, step>>
  BY DEF CancelCalled, CancelSettles, outcomes
<1>3. ASSUME NEW answer, cancel' = [cancel EXCEPT ![c] = answer], cancelRequested' \in BOOLEAN,
             cancelRequested => cancelRequested',
             outcome = "completed" => ~cancelRequested',
             answer = "waiting" => cancelRequested',
             answer = "done" => Logs(<<"stopped", "canceled">>)
      PROVE  KernelInv'
  <2>1. DOMAIN cancel' = Cancel /\ \A d \in Cancel : cancel'[d] = IF d = c THEN answer ELSE cancel[d]
    BY <1>1, <1>3 DEF KernelTypes
  <2>2. Logs(<<"stopped", "canceled">>) => Logs(<<"stopped", "canceled">>)'
    BY <1>2, StillLogs
  <2>3. CallersInv'
    BY <1>1, <1>3, <2>1, <2>2 DEF CallersInv
  <2> QED
    BY <1>2, <1>3, <2>1, <2>3, CancelsInv
<1>4. cancelRequested \in BOOLEAN /\ (outcome = "completed" => ~cancelRequested)
  BY <1>1 DEF KernelTypes, OutcomeInv
<1>5. CASE CancelCalled(c)
  <2>1. CASE status = "canceled" /\ cancel' = [cancel EXCEPT ![c] = "done"] /\ UNCHANGED cancelRequested
    <3>1. Logs(<<"stopped", "canceled">>)
      BY <1>1, <2>1 DEF OutcomeInv
    <3>2. /\ cancelRequested' \in BOOLEAN /\ (cancelRequested => cancelRequested')
          /\ outcome = "completed" => ~cancelRequested'
      BY <1>4, <2>1
    <3>3. PICK answer : answer = "done"
      OBVIOUS
    <3>4. cancel' = [cancel EXCEPT ![c] = answer] /\ answer # "waiting"
      BY <2>1, <3>3
    <3> QED
      BY <1>3, <3>1, <3>2, <3>4
  <2>2. CASE cancel' = [cancel EXCEPT ![c] = "tooLate"] /\ UNCHANGED cancelRequested
    <3>1. /\ cancelRequested' \in BOOLEAN /\ (cancelRequested => cancelRequested')
          /\ outcome = "completed" => ~cancelRequested'
      BY <1>4, <2>2
    <3>2. PICK answer : answer = "tooLate"
      OBVIOUS
    <3>3. cancel' = [cancel EXCEPT ![c] = answer] /\ answer # "waiting" /\ answer # "done"
      BY <2>2, <3>2
    <3> QED
      BY <1>3, <3>1, <3>3
  <2>3. CASE /\ cancel' = [cancel EXCEPT ![c] = "waiting"] /\ cancelRequested' = TRUE
             /\ status # "canceled"
             /\ ~(status \in {"completed", "failed", "budget_exceeded", "completing"} /\ ~cancelRequested)
    <3>1. outcome # "completed"
      BY <1>1, <2>3 DEF OutcomeInv, Closed, Settled
    <3> QED
      BY <1>3, <2>3, <3>1
  <2> QED
    BY <1>5, <2>1, <2>2, <2>3 DEF CancelCalled
<1>6. CASE CancelSettles(c)
  <2>1. /\ cancel[c] = "waiting" /\ Finished /\ UNCHANGED cancelRequested
        /\ cancel' = [cancel EXCEPT ![c] = IF failure = "none" THEN "done" ELSE "failed"]
    BY <1>6 DEF CancelSettles
  <2>2. cancelRequested
    BY <1>1, <2>1 DEF CallersInv
  <2>3. CASE failure = "none"
    <3>1. status = "canceled"
      BY <1>1, <1>4, <2>1, <2>2, <2>3 DEF OutcomeInv
    <3>2. Logs(<<"stopped", "canceled">>) /\ cancel' = [cancel EXCEPT ![c] = "done"]
      BY <1>1, <2>1, <2>3, <3>1 DEF OutcomeInv
    <3> QED
      BY <1>3, <1>4, <2>1, <3>2
  <2>4. CASE failure # "none"
    <3>1. cancel' = [cancel EXCEPT ![c] = "failed"]
      BY <2>1, <2>4
    <3> QED
      BY <1>3, <1>4, <2>1, <3>1
  <2> QED
    BY <2>3, <2>4
<1> QED
  BY <1>5, <1>6

-----------------------------------------------------------------------------
(* What can be restored.                                                   *)

\* No steering reaches the store any more, or none after what it works on.
Quiet ==
  /\ status \in Settled \cup {"completing"} \/ cancelRequested
  /\ inFlight => Head(queue) = "turn"

\* A run whose outcome is success or its cancellation is quiet from its
\* terminal checkpoint on.
Orderly == {"completed", "canceled"}
CheckpointInv ==
  /\ status \in Orderly => status = outcome /\ Finished
  /\ outcome = "canceled" => cancelRequested
  /\ at = "canceledCall" => Aborted
  /\ \A i \in DOMAIN log : At(i, "checkpoint") =>
       /\ at \in Ending \cup {"finished"}
       /\ outcome \in Orderly => Quiet /\ \A j \in DOMAIN log : i < j => ~At(j, "queued")

\* A step that leaves the log alone.
LEMMA QuietStep ==
  ASSUME CheckpointInv, UNCHANGED log,
         status' \in Orderly => status' = outcome' /\ Finished',
         outcome' = "canceled" => cancelRequested',
         at' = "canceledCall" => Aborted',
         at \in Ending \cup {"finished"} =>
           /\ at' \in Ending \cup {"finished"}
           /\ outcome' \in Orderly => outcome' = outcome /\ (Quiet => Quiet')
  PROVE  CheckpointInv'
<1>1. ASSUME NEW i \in DOMAIN log, At(i, "checkpoint")
      PROVE  /\ at' \in Ending \cup {"finished"}
             /\ outcome' \in Orderly => Quiet' /\ \A j \in DOMAIN log : i < j => ~At(j, "queued")
  BY <1>1 DEF CheckpointInv
<1> QED
  BY <1>1, StillLogs DEF CheckpointInv

LEMMA MoveQuiet ==
  ASSUME CheckpointInv, Moves
  PROVE  CheckpointInv'
<1>1. /\ UNCHANGED <<log, cancelRequested, appendFailure>> /\ at \notin Ending \cup {"finished"}
      /\ status \notin Orderly
  BY DEF Moves, Kept, CheckpointInv, Finished
<1>2. ASSUME NEW cause, cause = "cancel" => Aborted \/ at = "canceledCall", Throw(cause)
      PROVE  CheckpointInv'
  <2>1. cause = "cancel" => Aborted
    BY <1>2 DEF CheckpointInv
  <2>2. /\ status' \in {status, "failed"} /\ at' \in {"terminal", "finished"}
        /\ outcome' \in {outcome, "canceled", "budget_exceeded", "failed"}
    BY <1>2 DEF Throw, Go
  <2>3. outcome' = "canceled" => cancelRequested
    BY <1>2, <2>1 DEF Throw, CheckpointInv, Aborted
  <2> QED
    BY <1>1, <2>2, <2>3, QuietStep DEF Orderly
<1>3. CASE /\ at' \notin Ending \cup {"finished"} /\ status' \in {status, "active"} /\ UNCHANGED outcome
           /\ at' = "canceledCall" => Aborted \/ at = "canceledCall"
  BY <1>1, <1>3, QuietStep DEF Orderly, CheckpointInv, Aborted
<1> QED
  BY <1>2, <1>3 DEF Moves

LEMMA FailsQuiet ==
  ASSUME CheckpointInv, UNCHANGED <<log, cancelRequested, inFlight>>, at \in Ending,
         queue' = queue \/ ~inFlight, NEW cause, TerminalFails(cause)
  PROVE  CheckpointInv'
<1>1. /\ status' = "failed" /\ at' \in {"terminal", "finished"}
      /\ outcome' = outcome \/ outcome' = "failed"
  BY DEF TerminalFails, Go
<1>2. Quiet => Quiet'
  BY <1>1 DEF Quiet, Settled
<1> QED
  BY <1>1, <1>2, QuietStep DEF CheckpointInv, Orderly, Ending

\* The producer queues an operation, and starts it or is refused.
LEMMA ProducerQueueQuiet ==
  ASSUME KernelInv, CheckpointInv, Serialize \/ OperationRefused \/ Finish \/ OperationStarts
  PROVE  CheckpointInv'
<1>1. KernelTypes /\ QueueInv
  BY DEF KernelInv
<1>2. ASSUME TurnAtHead PROVE at # "finished"
  <2>1. queue # << >> /\ Head(queue) = "turn"
    BY <1>2 DEF TurnAtHead
  <2>2. queue \in Seq(Steer \cup {"turn"})
    BY <1>1 DEF KernelTypes
  <2>3. at \in Appending
    BY <1>1, <2>1, <2>2, TailIs DEF QueueInv
  <2> QED
    BY <2>3 DEF Appending, Acknowledged
<1>3. CASE Serialize
  <2>1. queue' = Append(queue, "turn") /\ UNCHANGED <<status, cancelRequested, appendFailure, at, inFlight, log, outcome>>
    BY <1>3 DEF Serialize, outcomes
  <2>2. queue # << >> => Head(queue') = Head(queue)
    BY <1>1, <2>1, AppendIs DEF KernelTypes
  <2>3. Quiet => Quiet'
    BY <1>1, <2>1, <2>2 DEF Quiet, QueueInv
  <2> QED
    BY <2>1, <2>3, QuietStep DEF CheckpointInv, Aborted, Finished
<1>4. CASE OperationRefused
  <2>1. TurnAtHead /\ ~inFlight /\ Aborted /\ Kept
    BY <1>4 DEF OperationRefused, TurnAtHead, Aborted, Kept, callers
  <2>2. CASE at \in Ending /\ TerminalFails("append")
    BY <2>1, <2>2, FailsQuiet DEF Kept
  <2>3. CASE at \notin Ending /\ Throw("cancel")
    <3>1. Moves
      BY <1>2, <2>1, <2>3 DEF Moves
    <3> QED
      BY <3>1, MoveQuiet
  <2> QED
    BY <1>4, <2>2, <2>3 DEF OperationRefused, Ending
<1>5. CASE Finish
  <2>1. /\ at = "finish" /\ FinishOrGoOn /\ UNCHANGED <<log, cancelRequested, appendFailure>>
    BY <1>5 DEF Finish
  <2>2. status \notin Orderly
    BY <2>1 DEF CheckpointInv, Finished
  <2>3. \/ status' = "completing" /\ outcome' = "completed" /\ at' = "terminal"
        \/ status' = status /\ outcome' = outcome /\ at' = "safe"
    BY <2>1 DEF FinishOrGoOn, Go
  <2> QED
    BY <2>1, <2>2, <2>3, QuietStep DEF CheckpointInv, Orderly, Ending
<1>6. CASE OperationStarts
  <2>1. /\ TurnAtHead /\ UNCHANGED <<status, cancelRequested, appendFailure, at, log, outcome>>
        /\ at \in Ending => queue' = queue
    BY <1>6 DEF OperationStarts, outcomes, Ending
  <2>2. at \in Ending => (Quiet => Quiet')
    BY <2>1 DEF Quiet, TurnAtHead
  <2> QED
    BY <1>2, <2>1, <2>2, QuietStep DEF CheckpointInv, Aborted, Finished
<1> QED
  BY <1>3, <1>4, <1>5, <1>6

LEMMA PublishQuiet ==
  ASSUME KernelInv, CheckpointInv, Latch \/ TurnCompleted \/ AgentStopped
  PROVE  CheckpointInv'
<1>1. Kept /\ UNCHANGED queue
  BY GoesIs DEF Latch, TurnCompleted, AgentStopped, Still
<1>2. CASE Latch
  <2>1. at = "terminal"
    BY <1>2 DEF Latch
  <2>2. CASE TerminalFails("construction")
    BY <1>1, <2>1, <2>2, FailsQuiet DEF Kept, Ending
  <2>3. CASE status' = "completing" /\ Go("turnCompleted") /\ UNCHANGED outcomes
    <3>1. at' = "turnCompleted" /\ outcome' = outcome
      BY <2>3 DEF Go, outcomes
    <3>2. Quiet => Quiet'
      BY <1>1, <2>3 DEF Quiet, Kept
    <3> QED
      BY <1>1, <2>3, <3>1, <3>2, QuietStep DEF CheckpointInv, Orderly, Ending, Kept
  <2> QED
    BY <1>2, <2>2, <2>3 DEF Latch
<1>3. CASE TurnCompleted
  <2>1. at = "turnCompleted" /\ at' = "agentStopped" /\ status' = status /\ outcome' = outcome
    BY <1>3, PublishedIs DEF TurnCompleted, Go, outcomes
  <2>2. Quiet => Quiet'
    BY <1>1, <2>1 DEF Quiet, Kept
  <2> QED
    BY <1>1, <2>1, <2>2, QuietStep DEF CheckpointInv, Finished, Ending, Kept
<1>4. CASE AgentStopped
  <2>1. at = "agentStopped" /\ at' = "finished" /\ status' = outcome /\ outcome' = outcome
    BY <1>4, PublishedIs DEF AgentStopped, Go, outcomes
  <2>2. Quiet => Quiet'
    BY <1>1, <2>1 DEF Quiet, Kept, KernelInv, KernelTypes
  <2> QED
    BY <1>1, <2>1, <2>2, QuietStep DEF CheckpointInv, Finished, Ending, Kept
<1> QED
  BY <1>2, <1>3, <1>4

\* The producer's event is in the log, or the append of it failed.
LEMMA AppendQuiet ==
  ASSUME KernelInv, CheckpointInv, Appended \/ (AppendFails /\ Head(queue) = "turn")
  PROVE  CheckpointInv'
<1>1. /\ inFlight /\ Head(queue) = "turn" /\ inFlight' = FALSE
      /\ log' \in {log, log \o Logged} /\ UNCHANGED <<cancelRequested, outcome>>
      /\ \/ UNCHANGED <<at, status, appendFailure>>
         \/ at' = "finished" /\ status' = "failed"
  BY DEF Appended, AppendFails, outcomes, Go
<1>2. KernelTypes /\ OutcomeInv /\ outcome \in Settled
  BY DEF KernelInv, KernelTypes
<1>3. status' \in Orderly => status' = outcome' /\ Finished'
  BY <1>1 DEF CheckpointInv, Orderly, Finished
<1>4. /\ outcome' = "canceled" => cancelRequested'
      /\ at' = "canceledCall" => Aborted'
      /\ at \in Ending \cup {"finished"} => at' \in Ending \cup {"finished"}
  BY <1>1 DEF CheckpointInv, Aborted, Ending
<1>5. Quiet => Quiet'
  BY <1>1 DEF Quiet, Settled
<1>6. CASE log' = log
  BY <1>1, <1>3, <1>4, <1>5, <1>6, QuietStep
<1>7. ASSUME NEW e \in Entry, log' = Append(log, e), e[1] # "queued",
             e[1] = "checkpoint" => at = "terminal"
      PROVE  CheckpointInv'
  <2>1. PICK n : n = Len(log) + 1
    OBVIOUS
  <2>2. /\ \A i \in DOMAIN log' : i \in DOMAIN log \/ i = n
        /\ \A i \in DOMAIN log : log'[i] = log[i]
        /\ log'[n] = e /\ Len(log) \in Nat /\ DOMAIN log = 1 .. Len(log)
    BY <1>2, <1>7, <2>1, LogGrows
  <2>3. ASSUME NEW i \in DOMAIN log', At(i, "checkpoint")'
        PROVE  at \in Ending \cup {"finished"}
    <3>1. CASE i \in DOMAIN log
      <4>1. At(i, "checkpoint")
        BY <2>2, <2>3, <3>1 DEF At
      <4> QED
        BY <3>1, <4>1 DEF CheckpointInv
    <3>2. CASE i = n
      <4>1. e[1] = "checkpoint"
        BY <2>2, <2>3, <3>2 DEF At
      <4> QED
        BY <1>7, <4>1 DEF Ending
    <3> QED
      BY <2>2, <3>1, <3>2
  <2>4. ASSUME outcome \in Orderly, NEW i \in DOMAIN log', At(i, "checkpoint")'
        PROVE  Quiet' /\ \A j \in DOMAIN log' : i < j => ~At(j, "queued")'
    <3>1. ~At(n, "queued")'
      BY <1>7, <2>2 DEF At
    <3>2. CASE i \in DOMAIN log
      <4>1. At(i, "checkpoint")
        BY <2>2, <2>4, <3>2 DEF At
      <4>2. Quiet /\ \A j \in DOMAIN log : i < j => ~At(j, "queued")
        BY <2>4, <3>2, <4>1 DEF CheckpointInv
      <4>3. \A j \in DOMAIN log : i < j => ~At(j, "queued")'
        BY <2>2, <4>2 DEF At
      <4> QED
        BY <1>5, <2>2, <3>1, <4>2, <4>3
    <3>3. CASE i = n
      <4>1. \A j \in DOMAIN log' : ~(i < j)
        BY <2>1, <2>2, <3>3
      <4>2. at = "terminal"
        <5>1. e[1] = "checkpoint"
          BY <2>2, <2>4, <3>3 DEF At
        <5> QED
          BY <1>7, <5>1
      <4>3. Quiet'
        BY <1>1, <1>2, <2>4 DEF Quiet, OutcomeInv, Closed, CheckpointInv, Orderly, Settled
      <4> QED
        BY <4>1, <4>3
    <3> QED
      BY <2>2, <3>2, <3>3
  <2> QED
    BY <1>1, <1>3, <1>4, <2>3, <2>4 DEF CheckpointInv
<1> QED
  BY <1>1, <1>2, <1>6, <1>7, LoggedIs

\* A message the store works on is of a run that is not quiet.
LEMMA SteeringAppendQuiet ==
  ASSUME KernelInv, CheckpointInv, NEW s \in Steer, inFlight, Head(queue) = s,
         log' \in {log, Append(log, <<"queued", {s}>>)},
         UNCHANGED <<cancelRequested, status, outcome, at>>, appendFailure' \in {appendFailure, TRUE}
  PROVE  CheckpointInv'
<1>1. ~Quiet
  BY KernelAssumption DEF Quiet
<1>2. \A i \in DOMAIN log' : At(i, "checkpoint")' => i \in DOMAIN log /\ At(i, "checkpoint")
  <2>1. CASE log' = log
    BY <2>1, StillLogs
  <2>2. CASE log' = Append(log, <<"queued", {s}>>)
    <3>1. PICK e \in Entry : e = <<"queued", {s}>>
      BY DEF Entry
    <3>2. PICK n : n = Len(log) + 1
      OBVIOUS
    <3>3. /\ \A i \in DOMAIN log' : i \in DOMAIN log \/ i = n
          /\ \A i \in DOMAIN log : log'[i] = log[i]
          /\ log'[n] = e
      BY <2>2, <3>1, <3>2, LogGrows DEF KernelInv
    <3> QED
      BY <3>1, <3>3 DEF At
  <2> QED
    BY <2>1, <2>2
<1>3. \A i \in DOMAIN log' : At(i, "checkpoint")' => at \in Ending \cup {"finished"} /\ outcome \notin Orderly
  BY <1>1, <1>2 DEF CheckpointInv
<1>4. at' = "canceledCall" => Aborted'
  BY DEF CheckpointInv, Aborted
<1>5. /\ status' \in Orderly => status' = outcome' /\ Finished'
      /\ outcome' = "canceled" => cancelRequested'
  BY DEF CheckpointInv, Finished
<1> QED
  BY <1>3, <1>4, <1>5 DEF CheckpointInv

\* The callers, before the store has anything of them.
LEMMA CallersQuiet ==
  ASSUME KernelInv, CheckpointInv,
         \/ \E s \in Steer : SteerCalled(s) \/ SteerStarts(s)
         \/ \E c \in Cancel : CancelCalled(c) \/ CancelSettles(c)
  PROVE  CheckpointInv'
<1>1. /\ UNCHANGED <<status, appendFailure, at, log, outcome>>
      /\ cancelRequested' \in {cancelRequested, TRUE}
  BY DEF SteerCalled, SteerStarts, CancelCalled, CancelSettles, outcomes
<1>2. Quiet => Quiet'
  <2>1. ASSUME NEW s \in Steer, SteerCalled(s) PROVE Quiet => Quiet'
    <3>1. queue \in Seq(Steer \cup {"turn"}) /\ (inFlight => queue # << >>)
      BY DEF KernelInv, KernelTypes, QueueInv
    <3>2. queue # << >> => Head(Append(queue, s)) = Head(queue)
      BY <3>1, AppendIs
    <3> QED
      BY <2>1, <3>1, <3>2 DEF SteerCalled, Quiet
  <2>2. ASSUME NEW s \in Steer, SteerStarts(s) PROVE Quiet => Quiet'
    <3>1. CASE Controllable /\ inFlight' = TRUE
      BY <3>1 DEF Controllable, Quiet
    <3>2. CASE UNCHANGED inFlight
      BY <2>2, <3>2 DEF SteerStarts, Quiet
    <3> QED
      BY <2>2, <3>1, <3>2 DEF SteerStarts
  <2>3. ASSUME NEW c \in Cancel, CancelCalled(c) \/ CancelSettles(c) PROVE Quiet => Quiet'
    BY <1>1, <2>3 DEF CancelCalled, CancelSettles, Quiet
  <2> QED
    BY <2>1, <2>2, <2>3
<1> QED
  BY <1>1, <1>2, QuietStep DEF CheckpointInv, Aborted, Finished

LEMMA NextQuiet == KernelInv /\ CheckpointInv /\ [Next]_vars => CheckpointInv'
<1> SUFFICES ASSUME KernelInv, CheckpointInv, [Next]_vars PROVE CheckpointInv'
  OBVIOUS
<1>1. CASE Producer \/ Stream \/ Resolve \/ ToolAnswers
  <2>1. CASE Serialize \/ OperationRefused \/ Finish \/ OperationStarts
    BY <2>1, ProducerQueueQuiet
  <2>2. CASE Latch \/ TurnCompleted \/ AgentStopped
    BY <2>2, PublishQuiet
  <2>3. CASE Moves
    BY <2>3, MoveQuiet
  <2> QED
    BY <1>1, <2>1, <2>2, <2>3, ProducerIs
<1>2. CASE Consume \/ UNCHANGED vars
  <2>1. UNCHANGED <<status, cancelRequested, appendFailure, at, queue, inFlight, log, outcome>>
    BY <1>2 DEF Consume, outcomes, vars
  <2>2. Quiet => Quiet'
    BY <2>1 DEF Quiet
  <2> QED
    BY <2>1, <2>2, QuietStep DEF CheckpointInv, Aborted, Finished
<1>3. CASE Appended \/ (AppendFails /\ Head(queue) = "turn")
  BY <1>3, AppendQuiet
<1>4. CASE AppendFails /\ Head(queue) # "turn"
  <2>1. KernelTypes /\ QueueInv /\ inFlight /\ queue' = Tail(queue)
    BY <1>4 DEF KernelInv, AppendFails
  <2>2. Head(queue) \in Steer \cup {"turn"}
    BY <2>1, Dequeued DEF QueueInv
  <2>3. PICK s \in Steer : s = Head(queue)
    BY <1>4, <2>2
  <2> QED
    BY <1>4, <2>1, <2>3, SteeringAppendQuiet DEF AppendFails
<1>5. ASSUME NEW s \in Steer, SteerAccepted(s) PROVE CheckpointInv'
  BY <1>5, SteeringAppendQuiet DEF SteerAccepted, outcomes
<1> QED
  BY <1>1, <1>2, <1>3, <1>4, <1>5, CallersQuiet DEF Next

-----------------------------------------------------------------------------
(* The theorems.                                                           *)

\* The invariant holds at first, and every step keeps it.
LEMMA InitInv == Init => KernelInv
<1> SUFFICES ASSUME Init PROVE KernelInv
  OBVIOUS
<1>1. << >> \in Seq(Steer \cup {"turn"}) /\ << >> \in Seq(Steer) /\ << >> \in Seq(Entry)
  OBVIOUS
<1>2. KernelTypes
  BY <1>1 DEF Init, KernelTypes, Settled
<1>3. \A i \in DOMAIN log : FALSE
  BY DEF Init
<1>4. QueueInv
  BY DEF Init, QueueInv
<1>5. OutcomeInv
  BY DEF Init, OutcomeInv, Finished, Ending
<1>6. CallersInv
  BY DEF Init, CallersInv
<1>7. EndInv /\ ServedInv
  BY <1>3 DEF Init, EndInv, ServedInv
<1> QED
  BY <1>2, <1>4, <1>5, <1>6, <1>7 DEF KernelInv

LEMMA NextInv == KernelInv /\ [Next]_vars => KernelInv'
<1> SUFFICES ASSUME KernelInv, [Next]_vars PROVE KernelInv'
  OBVIOUS
<1>1. CASE Producer \/ Stream \/ Resolve \/ ToolAnswers
  <2>1. CASE Serialize \/ OperationRefused \/ Finish \/ OperationStarts
    BY <2>1, ProducerQueueInv
  <2>2. CASE Latch \/ TurnCompleted \/ AgentStopped
    BY <2>2, PublishInv
  <2>3. CASE Moves /\ Still /\ Alone
    BY <2>3, AloneMoveInv
  <2> QED
    BY <1>1, <2>1, <2>2, <2>3, ProducerIs
<1>2. CASE Consume
  <2>1. Still /\ UNCHANGED <<status, failure, outcome, at, step>>
    BY <1>2 DEF Consume, Still, Kept, outcomes, callers
  <2> QED
    BY <2>1, UnchangedInv
<1>3. CASE Appended
  BY <1>3, ProducerAppendInv
<1>4. CASE AppendFails
  BY <1>4, ProducerAppendInv, SteerFailsInv
<1>5. ASSUME NEW s \in Steer, SteerCalled(s) \/ SteerStarts(s) \/ SteerAccepted(s) PROVE KernelInv'
  BY <1>5, SteerInv, SteerAcceptedInv
<1>6. ASSUME NEW c \in Cancel, CancelCalled(c) \/ CancelSettles(c) PROVE KernelInv'
  BY <1>6, CancelInv
<1>7. CASE UNCHANGED vars
  <2>1. Still /\ UNCHANGED <<status, failure, outcome, at, step>>
    BY <1>7 DEF vars, Still, Kept
  <2> QED
    BY <2>1, UnchangedInv
<1> QED
  BY <1>1, <1>2, <1>3, <1>4, <1>5, <1>6, <1>7 DEF Next

\* The queue, the outcome, the callers, the end of the log and the steering,
\* in every state of every run.
THEOREM KernelInvHolds == Spec => []KernelInv
  BY InitInv, NextInv, PTL DEF Spec

\* turn.completed is written once, nothing but the agent.stopped of the same
\* outcome comes after it, and a cancel that resolved is the outcome of the log.
THEOREM OneOutcomeHolds == Spec => []OneOutcome
<1>1. KernelInv => OneOutcome
  BY DEF KernelInv, EndInv, CallersInv, OneOutcome, Logs, ToSet
<1> QED
  BY <1>1, KernelInvHolds, PTL

\* A run that completed has applied all the steering it queued, and what was
\* accepted is applied or handed on.
THEOREM SteeringServedHolds == Spec => []SteeringServed
<1> SUFFICES ASSUME KernelInv PROVE SteeringServed
  BY KernelInvHolds, PTL
<1>1. ASSUME NEW i \in DOMAIN log, NEW j \in DOMAIN log, log[i] = <<"turn", "completed">>, At(j, "queued")
      PROVE  \E k \in (j + 1)..(i - 1) : At(k, "applied") /\ log[j][2] \subseteq log[k][2]
  <2>1. At(i, "turn") /\ log[i][2] = "completed"
    BY <1>1 DEF At
  <2>2. AppliedBefore(j, i)
    BY <1>1, <2>1 DEF KernelInv, EndInv
  <2> QED
    BY <2>2 DEF AppliedBefore
<1>2. ServedInv
  BY DEF KernelInv
<1> QED
  BY <1>1, <1>2 DEF SteeringServed, ServedInv

\* A run that completed or was canceled leaves a log that restoreSession takes:
\* only a run that fails, or exceeds its budget, lets steering in after its
\* terminal checkpoint.
THEOREM OrderlyRestorableHolds == Spec => []OrderlyRestorable
<1>1. Init => CheckpointInv
  BY DEF Init, CheckpointInv, Orderly, Finished
<1>2. KernelInv /\ CheckpointInv /\ [Next]_vars => (KernelInv /\ CheckpointInv)'
  BY NextInv, NextQuiet
<1>3. CheckpointInv => OrderlyRestorable
  BY DEF CheckpointInv, Orderly, OrderlyRestorable, NothingAfterCheckpoint
<1> QED
  BY <1>1, <1>2, <1>3, InitInv, PTL DEF Spec
-----------------------------------------------------------------------------
(* McpClient.  What a client has started: nothing while it is idle, and no *)
(* helpers without a child.                                                *)
Started ==
  /\ state = "idle" => child = "none"
  /\ child = "none" => helpers = "none"

CloseInv == Started /\ ClosedMeansExited

(* fail moves to a state in which nothing is promised about the child, or  *)
(* changes nothing; the signal it sends leaves no helper unsignalled that  *)
(* was signalled before.                                                   *)
LEMMA FailKeeps ==
  ASSUME CloseInv, NEW e, Fail(e),
         child' = child \/ (child \in {"spawning", "dead"} /\ child' = "exited")
  PROVE  CloseInv'
BY DEF CloseInv, Started, ClosedMeansExited, Fail, Terminal, SignalGroup

(* start throws or has a child, and the client is not idle any more.       *)
LEMMA SpawnKeeps ==
  ASSUME CloseInv, state = "idle", Spawn, UNCHANGED helpers
  PROVE  CloseInv'
BY DEF CloseInv, Started, ClosedMeansExited, Spawn

LEMMA CloseInvStep == CloseInv /\ [McpNext]_mcpVars => CloseInv'
<1> SUFFICES ASSUME CloseInv, [McpNext]_mcpVars PROVE CloseInv'
  OBVIOUS
<1> USE DEF CloseInv, Started, ClosedMeansExited
<1>1. CASE Start
  BY <1>1, SpawnKeeps DEF Start
<1>2. CASE Spawned
  BY <1>2 DEF Spawned
<1>3. CASE SpawnFails
  BY <1>3, FailKeeps DEF SpawnFails
<1>4. CASE ChildExits
  BY <1>4, FailKeeps DEF ChildExits
<1>5. CASE TransportFails
  BY <1>5, FailKeeps DEF TransportFails
<1>6. CASE Initialize
  BY <1>6, SpawnKeeps DEF Initialize
<1>7. CASE InitializeSends
  BY <1>7 DEF InitializeSends
<1>8. CASE InitializeAnswered
  BY <1>8, FailKeeps DEF InitializeAnswered
<1>9. CASE InitializedWritten
  BY <1>9 DEF InitializedWritten
<1>10. CASE Request
  BY <1>10 DEF Request, Initialized
<1>11. CASE \E id \in Ids : Timeout(id)
  BY <1>11 DEF Timeout, SignalGroup
<1>12. CASE HandleFrame
  BY <1>12, FailKeeps DEF HandleFrame, Respond
<1>13. CASE ResultMismatch
  BY <1>13, FailKeeps DEF ResultMismatch
<1>14. CASE Close
  BY <1>14 DEF Close, SignalGroup
<1>15. CASE ChildIsGone
  BY <1>15 DEF ChildIsGone, SignalGroup
<1>16. CASE Escalate
  BY <1>16 DEF Escalate, SignalGroup
<1>17. CASE \E id \in Ids : Answer(id)
  BY <1>17 DEF Answer
<1>18. CASE WriteNoise
  BY <1>18 DEF WriteNoise
<1>19. CASE StartHelper
  BY <1>19 DEF StartHelper
<1>20. CASE Die
  BY <1>20 DEF Die
<1>21. CASE UNCHANGED mcpVars
  BY <1>21 DEF mcpVars
<1> QED
  BY <1>1, <1>2, <1>3, <1>4, <1>5, <1>6, <1>7, <1>8, <1>9, <1>10, <1>11, <1>12, <1>13, <1>14,
     <1>15, <1>16, <1>17, <1>18, <1>19, <1>20, <1>21 DEF McpNext

(* Whatever the client was doing when its child went, a close that         *)
(* returned leaves no process of its group unsignalled (close,             *)
(* waitForExit, signalProcessGroup).                                       *)
THEOREM CloseCorrect == McpSpec => []ClosedMeansExited
<1>1. McpInit => CloseInv
  BY DEF McpInit, CloseInv, Started, ClosedMeansExited
<1>2. CloseInv => ClosedMeansExited
  BY DEF CloseInv
<1> QED
  BY <1>1, <1>2, CloseInvStep, PTL DEF McpSpec
-----------------------------------------------------------------------------
(* McpClient: the answers that are still to come, and what is remembered   *)
(* of their requests.                                                      *)
Outcome == {"unsent", "pending", "answered", "timedOut", "rejected"}
Frame == [kind : {"response"}, id : Ids] \union
         [kind : {"malformed", "notification", "request"}, id : {0}]

DataTypes ==
  /\ req \in [Ids -> Outcome] /\ ignored \in Seq(Ids) /\ owed \in SUBSET Ids
  /\ out \in Seq(Frame)

Answers(i, id) == out[i].kind = "response" /\ out[i].id = id
Outstanding(id) == id \in owed \/ \E i \in DOMAIN out : Answers(i, id)
TimedOut == {id \in Ids : req[id] = "timedOut"}
Remembered(id) == \E i \in DOMAIN ignored : ignored[i] = id
Overflowed == Cardinality(TimedOut) > MaxIgnored

\* An id is answered once, and not before it was sent.
AnsweredOnce ==
  /\ \A id \in Ids : Outstanding(id) => req[id] \in {"pending", "timedOut", "rejected"}
  /\ \A id \in owed, i \in DOMAIN out : ~Answers(i, id)
  /\ \A i, j \in DOMAIN out, id \in Ids : Answers(i, id) /\ Answers(j, id) => i = j

\* The remembered ids are distinct and timed out.
IgnoredOnce ==
  /\ Len(ignored) <= MaxIgnored
  /\ \A i \in DOMAIN ignored : req[ignored[i]] = "timedOut"
  /\ \A i, j \in DOMAIN ignored : ignored[i] = ignored[j] => i = j

\* The handshake comes first, and a client that gave requests up is over.
Phases ==
  /\ init \in {"no", "starting"} => req[HandshakeId] = "unsent"
  /\ state = "initialized" => init = "done"
  /\ (\E id \in Ids : req[id] = "rejected") => state \in Terminal
  /\ req[HandshakeId] = "timedOut" => state \in Terminal

\* Only an overflow forgets an id whose answer may come.
Forgotten ==
  \A id \in Ids : Outstanding(id) /\ req[id] = "timedOut" /\ id # HandshakeId
                  => Remembered(id) \/ Overflowed

LateInv ==
  /\ DataTypes /\ AnsweredOnce /\ IgnoredOnce /\ Phases /\ Forgotten
  /\ error = "unknownId" => Overflowed
\* Timed out requests stay so: once overflowed, always overflowed.
LEMMA TimedOutFinite == IsFiniteSet(TimedOut) /\ IsFiniteSet(TimedOut')
<1>1. IsFiniteSet(Ids)
  BY FS_Interval, McpAssumption DEF Ids
<1>2. TimedOut \in SUBSET Ids /\ TimedOut' \in SUBSET Ids
  BY DEF TimedOut
<1> QED
  BY <1>1, <1>2, FS_Subset

LEMMA OverflowStays ==
  ASSUME Overflowed, TimedOut \in SUBSET TimedOut'
  PROVE  Overflowed'
<1>1. Cardinality(TimedOut) <= Cardinality(TimedOut')
  BY TimedOutFinite, FS_Subset
<1>2. Cardinality(TimedOut) \in Nat /\ Cardinality(TimedOut') \in Nat
  BY TimedOutFinite, FS_CardinalityType
<1> QED
  BY <1>1, <1>2, McpAssumption DEF Overflowed

(* A frame that was read is gone, and its answer with it.                  *)
ReadsFrame == out # << >> /\ out' = Tail(out)

LEMMA FramesRead ==
  ASSUME DataTypes, AnsweredOnce, UNCHANGED owed, out' = out \/ ReadsFrame
  PROVE  /\ out' \in Seq(Frame)
         /\ \A id \in Ids : Outstanding(id)' => Outstanding(id)
         /\ \A id \in owed', i \in DOMAIN out' : ~Answers(i, id)'
         /\ \A i, j \in DOMAIN out', id \in Ids : Answers(i, id)' /\ Answers(j, id)' => i = j
<1>1. CASE out' = out
  BY <1>1 DEF DataTypes, AnsweredOnce, Outstanding, Answers
<1>2. CASE ReadsFrame
  <2>1. /\ out' \in Seq(Frame)
        /\ \A i \in DOMAIN out' : i + 1 \in DOMAIN out /\ i \in Nat /\ out'[i] = out[i + 1]
    BY <1>2 DEF DataTypes, ReadsFrame
  <2>2. \A i \in DOMAIN out', id \in Ids : Answers(i, id)' <=> Answers(i + 1, id)
    BY <2>1 DEF Answers
  <2>3. \A id \in Ids : Outstanding(id)' => Outstanding(id)
    BY <2>1, <2>2 DEF Outstanding
  <2>4. \A id \in owed', i \in DOMAIN out' : ~Answers(i, id)'
    BY <2>1, <2>2 DEF AnsweredOnce, DataTypes
  <2>5. \A i, j \in DOMAIN out', id \in Ids : Answers(i, id)' /\ Answers(j, id)' => i = j
    <3> SUFFICES ASSUME NEW i \in DOMAIN out', NEW j \in DOMAIN out', NEW id \in Ids,
                        Answers(i, id)', Answers(j, id)'
                 PROVE  i = j
      OBVIOUS
    <3>1. i + 1 = j + 1
      BY <2>1, <2>2 DEF AnsweredOnce
    <3> QED
      BY <2>1, <3>1
  <2> QED
    BY <2>1, <2>3, <2>4, <2>5
<1> QED
  BY <1>1, <1>2

LEMMA AnswerRead ==
  ASSUME DataTypes, AnsweredOnce, UNCHANGED owed, ReadsFrame,
         NEW id \in Ids, Head(out).kind = "response", Head(out).id = id
  PROVE  Outstanding(id) /\ ~Outstanding(id)'
<1>1. /\ 1 \in DOMAIN out /\ out[1] = Head(out)
      /\ \A i \in DOMAIN out' : i + 1 \in DOMAIN out /\ i \in Nat \ {0} /\ out'[i] = out[i + 1]
  BY DEF DataTypes, ReadsFrame
<1>2. Answers(1, id)
  BY <1>1 DEF Answers
<1>3. \A i \in DOMAIN out' : Answers(i, id)' => Answers(i + 1, id) /\ i + 1 # 1
  BY <1>1 DEF Answers
<1>4. \A i \in DOMAIN out' : ~Answers(i, id)'
  BY <1>1, <1>2, <1>3 DEF AnsweredOnce
<1> QED
  BY <1>1, <1>2, <1>4 DEF AnsweredOnce, Outstanding

(* A step that forgets nothing, and answers nothing of what it may read,   *)
(* whether or not it gives the pending requests up.                        *)
LEMMA NothingDelivered ==
  ASSUME LateInv, UNCHANGED <<ignored, owed>>, out' = out \/ ReadsFrame,
         req' = req \/ (req' = RejectPending /\ state' \in Terminal),
         state \in Terminal => state' \in Terminal,
         error' = "unknownId" => error = "unknownId" \/ Overflowed,
         init' \in {"no", "starting"} => init \in {"no", "starting"},
         state' = "initialized" => init' = "done"
  PROVE  LateInv'
<1> USE DEF LateInv
<1>1. /\ req' \in [Ids -> Outcome]
      /\ \A id \in Ids : req[id] # "pending" => req'[id] = req[id]
      /\ \A id \in Ids : req[id] = "pending" => req'[id] \in {"pending", "rejected"}
      /\ (\E id \in Ids : req'[id] = "rejected") => state' \in Terminal
  BY DEF RejectPending, DataTypes, Outcome, Phases
<1>2. TimedOut' = TimedOut /\ HandshakeId \in Ids
  BY <1>1, McpAssumption DEF TimedOut, DataTypes, Outcome, Ids, HandshakeId
<1>3. Overflowed' <=> Overflowed
  BY <1>2 DEF Overflowed
<1>4. DataTypes'
  BY <1>1, FramesRead DEF DataTypes
<1>5. AnsweredOnce'
  <2>1. \A id \in Ids : Outstanding(id)' => req'[id] \in {"pending", "timedOut", "rejected"}
    BY <1>1, FramesRead DEF AnsweredOnce
  <2> QED
    BY <2>1, FramesRead DEF AnsweredOnce
<1>6. IgnoredOnce'
  <2>1. \A i \in DOMAIN ignored : ignored[i] \in Ids
    BY DEF DataTypes
  <2> QED
    BY <1>1, <2>1 DEF IgnoredOnce
<1>7. Phases'
  BY <1>1, <1>2 DEF Phases
<1>8. Forgotten'
  BY <1>1, <1>3, FramesRead DEF Forgotten, AnsweredOnce, Remembered
<1> QED
  BY <1>3, <1>4, <1>5, <1>6, <1>7, <1>8

LEMMA FailDelivers ==
  ASSUME LateInv, NEW e, e # "unknownId", Fail(e), UNCHANGED <<ignored, owed, out>>,
         init' = init \/ (init' = "failed" /\ init = "sent")
  PROVE  LateInv'
<1>1. state = "initialized" => init = "done"
  BY DEF LateInv, Phases
<1> QED
  BY <1>1, NothingDelivered DEF Fail, Terminal

(* A request is sent once, and is pending.                                 *)
LEMMA SendLate ==
  ASSUME LateInv, NEW id \in Ids, req[id] = "unsent", Send(id), UNCHANGED <<error, ignored, out>>,
         state' \in {"initializing", state}, state \notin Terminal,
         init' \notin {"no", "starting"},
         state' = "initialized" => init' = "done"
  PROVE  LateInv'
<1> USE DEF LateInv
<1>1. /\ req' \in [Ids -> Outcome] /\ owed' \in SUBSET Ids
      /\ \A other \in Ids : req'[other] = IF other = id THEN "pending" ELSE req[other]
  BY DEF Send, DataTypes, Outcome
<1>2. TimedOut' = TimedOut
  BY <1>1 DEF TimedOut
<1>3. Overflowed' <=> Overflowed
  BY <1>2 DEF Overflowed
<1>4. \A i, other : Answers(i, other)' <=> Answers(i, other)
  BY DEF Answers
<1>5. \A other : Remembered(other)' <=> Remembered(other)
  BY DEF Remembered
<1>6. ~Outstanding(id)
  BY DEF AnsweredOnce
<1>7. \A other \in Ids : other # id => (Outstanding(other)' <=> Outstanding(other))
  BY <1>4 DEF Outstanding, Send
<1>8. DataTypes'
  BY <1>1 DEF DataTypes
<1>9. AnsweredOnce'
  <2>1. \A other \in Ids : Outstanding(other)' => req'[other] \in {"pending", "timedOut", "rejected"}
    BY <1>1, <1>7 DEF AnsweredOnce
  <2>2. \A other \in owed', i \in DOMAIN out' : ~Answers(i, other)'
    BY <1>4, <1>6 DEF AnsweredOnce, Outstanding, Send
  <2>3. \A i, j \in DOMAIN out', other \in Ids : Answers(i, other)' /\ Answers(j, other)' => i = j
    BY <1>4 DEF AnsweredOnce
  <2> QED
    BY <2>1, <2>2, <2>3 DEF AnsweredOnce
<1>10. IgnoredOnce'
  <2>1. \A i \in DOMAIN ignored : ignored[i] \in Ids
    BY DEF DataTypes
  <2> QED
    BY <1>1, <2>1 DEF IgnoredOnce
<1>11. Phases'
  BY <1>1, McpAssumption DEF Phases, Terminal, HandshakeId, Ids
<1>12. Forgotten'
  BY <1>1, <1>3, <1>5, <1>7 DEF Forgotten
<1> QED
  BY <1>3, <1>8, <1>9, <1>10, <1>11, <1>12
(* The server answers what it was asked, or says something else.           *)
LEMMA ServerWrites ==
  ASSUME LateInv, NEW frame \in Frame, out' = Append(out, frame),
         \/ owed' = owed /\ frame.kind # "response"
         \/ frame.kind = "response" /\ frame.id \in owed /\ owed' = owed \ {frame.id},
         UNCHANGED <<state, error, req, ignored, init>>
  PROVE  LateInv'
<1> USE DEF LateInv
<1> PICK last \in Nat : last = Len(out) + 1
  BY DEF DataTypes
<1>1. /\ out' \in Seq(Frame) /\ out'[last] = frame /\ \A i \in DOMAIN out : out'[i] = out[i]
      /\ DOMAIN out' = DOMAIN out \union {last} /\ last \notin DOMAIN out
  BY DEF DataTypes
<1>2. /\ \A i \in DOMAIN out, id \in Ids : Answers(i, id)' <=> Answers(i, id)
      /\ \A id \in Ids : Answers(last, id)' <=> frame.kind = "response" /\ frame.id = id
  BY <1>1 DEF Answers
<1>3. \A id \in Ids : (Outstanding(id)' <=> Outstanding(id)) /\ (Remembered(id)' <=> Remembered(id))
  BY <1>1, <1>2 DEF Outstanding, Remembered
<1>4. Overflowed' <=> Overflowed
  BY DEF Overflowed, TimedOut
<1>5. DataTypes'
  BY <1>1 DEF DataTypes
<1>6. AnsweredOnce'
  <2>1. \A id \in Ids : Outstanding(id)' => req'[id] \in {"pending", "timedOut", "rejected"}
    BY <1>3 DEF AnsweredOnce
  <2>2. \A id \in owed', i \in DOMAIN out' : ~Answers(i, id)'
    BY <1>1, <1>2 DEF AnsweredOnce, DataTypes
  <2>3. \A i, j \in DOMAIN out', id \in Ids : Answers(i, id)' /\ Answers(j, id)' => i = j
    BY <1>1, <1>2 DEF AnsweredOnce, DataTypes
  <2> QED
    BY <2>1, <2>2, <2>3 DEF AnsweredOnce
<1>7. IgnoredOnce' /\ Phases'
  BY DEF IgnoredOnce, Phases
<1>8. Forgotten'
  BY <1>3, <1>4 DEF Forgotten
<1> QED
  BY <1>4, <1>5, <1>6, <1>7, <1>8

(* A timeout remembers its id; when that forgets another, more requests    *)
(* timed out than can be remembered.                                       *)
LEMMA TimeoutLate ==
  ASSUME LateInv, NEW id \in Ids, Timeout(id)
  PROVE  LateInv'
<1> USE DEF LateInv
<1>1. /\ req' \in [Ids -> Outcome] /\ req'[id] = "timedOut" /\ req[id] = "pending"
      /\ \A other \in Ids \ {id} : req[other] # "pending" => req'[other] = req[other]
      /\ \A other \in Ids \ {id} : req[other] = "pending" => req'[other] \in {"pending", "rejected"}
      /\ (\E other \in Ids : req'[other] = "rejected") => state' \in Terminal
      /\ state \in Terminal => state' \in Terminal
      /\ error' = "unknownId" => error = "unknownId"
  BY DEF Timeout, RejectPending, DataTypes, Outcome, Phases, Terminal
<1>2. TimedOut' = TimedOut \union {id}
  BY <1>1 DEF TimedOut, DataTypes, Outcome
<1>3. Overflowed => Overflowed'
  BY <1>2, OverflowStays
<1>4. \A i, other : Answers(i, other)' <=> Answers(i, other)
  BY DEF Answers, Timeout
<1>5. \A other : Outstanding(other)' <=> Outstanding(other)
  BY <1>4 DEF Outstanding, Timeout
<1>6. AnsweredOnce'
  BY <1>1, <1>4, <1>5 DEF AnsweredOnce, Timeout
<1>7. Phases'
  BY <1>1, McpAssumption DEF Phases, Timeout, Terminal, HandshakeId, Ids
<1>8. DEFINE longer == Append(ignored, id)
<1>9. /\ longer \in Seq(Ids) /\ Len(longer) = Len(ignored) + 1 /\ Len(ignored) \in Nat
      /\ DOMAIN ignored = 1..Len(ignored) /\ DOMAIN longer = 1..(Len(ignored) + 1)
      /\ longer[Len(ignored) + 1] = id /\ \A i \in 1..Len(ignored) : longer[i] = ignored[i]
  BY DEF DataTypes
<1>10. /\ \A i \in DOMAIN longer : req'[longer[i]] = "timedOut"
       /\ \A i, j \in DOMAIN longer : longer[i] = longer[j] => i = j
  <2>1. \A i \in DOMAIN ignored : ignored[i] \in Ids /\ ignored[i] # id
    BY <1>1 DEF DataTypes, IgnoredOnce
  <2> QED
    BY <1>1, <1>9, <2>1 DEF IgnoredOnce
<1>11. CASE id = HandshakeId
  <2>1. UNCHANGED ignored
    BY <1>11 DEF Timeout
  <2>2. DataTypes'
    BY <1>1, <2>1 DEF DataTypes, Timeout
  <2>3. IgnoredOnce'
    BY <1>9, <1>10, <2>1 DEF IgnoredOnce
  <2>4. Forgotten'
    BY <1>1, <1>3, <1>5, <1>11, <2>1 DEF Forgotten, Remembered, DataTypes, Outcome
  <2> QED
    BY <1>1, <1>3, <1>6, <1>7, <2>2, <2>3, <2>4
<1>12. CASE id # HandshakeId /\ Len(longer) <= MaxIgnored
  <2>1. ignored' = longer
    BY <1>12 DEF Timeout, RememberIgnored
  <2>2. DataTypes'
    BY <1>1, <1>9, <2>1 DEF DataTypes, Timeout
  <2>3. IgnoredOnce'
    BY <1>10, <1>12, <2>1 DEF IgnoredOnce
  <2>4. \A other : Remembered(other) \/ other = id => Remembered(other)'
    BY <1>9, <2>1 DEF Remembered
  <2>5. Forgotten'
    BY <1>1, <1>3, <1>5, <2>4 DEF Forgotten, DataTypes, Outcome
  <2> QED
    BY <1>1, <1>3, <1>6, <1>7, <2>2, <2>3, <2>5
<1>13. CASE id # HandshakeId /\ ~(Len(longer) <= MaxIgnored)
  <2>1. ignored' = Tail(longer)
    BY <1>13 DEF Timeout, RememberIgnored
  <2>2. /\ ignored' \in Seq(Ids) /\ Len(ignored') = Len(ignored) /\ DOMAIN ignored' = 1..Len(ignored)
        /\ \A i \in 1..Len(ignored) : ignored'[i] = longer[i + 1]
    BY <1>9, <2>1
  <2>3. DataTypes'
    BY <1>1, <2>2 DEF DataTypes, Timeout
  <2>4. IgnoredOnce'
    <3>1. \A i \in DOMAIN ignored' :
             i \in Nat /\ i + 1 \in DOMAIN longer /\ ignored'[i] = longer[i + 1]
      BY <1>9, <2>2
    <3>2. \A i \in DOMAIN ignored' : req'[ignored'[i]] = "timedOut"
      BY <1>10, <3>1
    <3>3. ASSUME NEW i \in DOMAIN ignored', NEW j \in DOMAIN ignored', ignored'[i] = ignored'[j]
          PROVE  i = j
      <4>1. i + 1 = j + 1
        BY <1>10, <3>1, <3>3
      <4> QED
        BY <3>1, <4>1
    <3>4. Len(ignored') <= MaxIgnored
      BY <2>2 DEF IgnoredOnce
    <3> QED
      BY <3>2, <3>3, <3>4 DEF IgnoredOnce
  <2>5. Overflowed'
    <3>1. longer \in Injection(DOMAIN longer, TimedOut')
      <4>1. \A i \in DOMAIN longer : longer[i] \in TimedOut'
        BY <1>9, <1>10 DEF TimedOut
      <4>2. longer \in [DOMAIN longer -> TimedOut']
        <5>1. longer \in [DOMAIN longer -> Ids]
          BY <1>9, LenProperties, SeqDef
        <5> QED
          BY <4>1, <5>1
      <4> QED
        BY <1>10, <4>2 DEF Injection, IsInjective
    <3>2. Cardinality(DOMAIN longer) = Len(longer)
      BY <1>9, FS_Interval
    <3>3. Cardinality(DOMAIN longer) <= Cardinality(TimedOut')
      BY <3>1, TimedOutFinite, FS_Injection
    <3>4. Cardinality(TimedOut') \in Nat
      BY TimedOutFinite, FS_CardinalityType
    <3> QED
      BY <1>9, <1>13, <3>2, <3>3, <3>4, McpAssumption DEF Overflowed
  <2>6. Forgotten'
    BY <2>5 DEF Forgotten
  <2> QED
    BY <1>1, <1>6, <1>7, <2>3, <2>4, <2>5, <2>6
<1> QED
  BY <1>11, <1>12, <1>13
(* A frame that is no response, or comes too late, or is refused.          *)
LEMMA NoAnswerRead ==
  ASSUME LateInv, ReadsFrame, UNCHANGED <<ignored, owed, init>>,
         \/ UNCHANGED <<state, error, req>>
         \/ \E e : Fail(e) /\ (e = "unknownId" => state \in Terminal \/ Overflowed)
  PROVE  LateInv'
<1>1. state = "initialized" => init = "done"
  BY DEF LateInv, Phases
<1> QED
  BY <1>1, NothingDelivered DEF Fail, Terminal

LEMMA Removed ==
  ASSUME NEW S, NEW s \in Seq(S), NEW n \in DOMAIN s
  PROVE  /\ RemoveAt(s, n) \in Seq(S) /\ Len(RemoveAt(s, n)) = Len(s) - 1
         /\ \A i \in DOMAIN RemoveAt(s, n) :
              RemoveAt(s, n)[i] = IF i < n THEN s[i] ELSE s[i + 1]
<1> DEFINE before == SubSeq(s, 1, n - 1)
           after == SubSeq(s, n + 1, Len(s))
<1>1. Len(s) \in Nat /\ n \in 1..Len(s)
  OBVIOUS
<1>2. /\ before \in Seq(S) /\ Len(before) = n - 1
      /\ \A i \in 1..(n - 1) : before[i] = s[i]
  BY <1>1
<1>3. /\ after \in Seq(S) /\ Len(after) = Len(s) - n
      /\ \A i \in 1..(Len(s) - n) : after[i] = s[i + n]
  BY <1>1
<1>4. RemoveAt(s, n) = before \o after
  BY DEF RemoveAt
<1> HIDE DEF before, after
<1>5. /\ before \o after \in Seq(S) /\ Len(before \o after) = Len(s) - 1
      /\ \A i \in 1..(Len(s) - 1) :
           (before \o after)[i] = IF i < n THEN before[i] ELSE after[i - (n - 1)]
  <2>1. /\ before \o after \in Seq(S)
        /\ Len(before \o after) = Len(before) + Len(after)
        /\ \A i \in 1..(Len(before) + Len(after)) :
             (before \o after)[i] = IF i <= Len(before) THEN before[i] ELSE after[i - Len(before)]
    BY <1>2, <1>3, ConcatProperties
  <2>2. Len(before) = n - 1 /\ Len(before) + Len(after) = Len(s) - 1
    BY <1>1, <1>2, <1>3
  <2>3. \A i \in 1..(Len(s) - 1) : i <= n - 1 <=> i < n
    BY <1>1
  <2> QED
    BY <2>1, <2>2, <2>3
<1>6. \A i \in 1..(Len(s) - 1) : (before \o after)[i] = IF i < n THEN s[i] ELSE s[i + 1]
  <2> SUFFICES ASSUME NEW i \in 1..(Len(s) - 1)
               PROVE  (before \o after)[i] = IF i < n THEN s[i] ELSE s[i + 1]
    OBVIOUS
  <2>1. CASE i < n
    BY <1>1, <1>2, <1>5, <2>1
  <2>2. CASE ~(i < n)
    <3>1. i - (n - 1) \in 1..(Len(s) - n) /\ (i - (n - 1)) + n = i + 1
      BY <1>1, <2>2
    <3>2. after[i - (n - 1)] = s[i + 1]
      BY <1>3, <3>1
    <3> QED
      BY <1>5, <2>2, <3>2
  <2> QED
    BY <2>1, <2>2
<1>7. DOMAIN RemoveAt(s, n) = 1..(Len(s) - 1)
  BY <1>1, <1>4, <1>5, LenProperties
<1>8. \A i \in DOMAIN RemoveAt(s, n) : RemoveAt(s, n)[i] = IF i < n THEN s[i] ELSE s[i + 1]
  BY <1>4, <1>6, <1>7
<1> QED
  BY <1>4, <1>5, <1>8

(* The answer of a pending request, and the late one that is remembered.   *)
LEMMA RespondLate ==
  ASSUME LateInv, ReadsFrame, UNCHANGED <<owed, init>>,
         NEW id \in Ids, Head(out).kind = "response", Head(out).id = id, Respond(id)
  PROVE  LateInv'
<1> USE DEF LateInv
<1>1. /\ Outstanding(id) /\ ~Outstanding(id)'
      /\ req[id] \in {"pending", "timedOut", "rejected"}
  BY AnswerRead DEF AnsweredOnce
<1>2. CASE req[id] = "pending" /\ req' = [req EXCEPT ![id] = "answered"]
           /\ UNCHANGED <<state, error, helpers, ignored>>
  <2>1. /\ req' \in [Ids -> Outcome]
        /\ \A other \in Ids : req'[other] = IF other = id THEN "answered" ELSE req[other]
    BY <1>2 DEF DataTypes, Outcome
  <2>2. TimedOut' = TimedOut
    BY <1>2, <2>1 DEF TimedOut
  <2>3. DataTypes'
    BY <1>2, <2>1, FramesRead DEF DataTypes
  <2>4. AnsweredOnce'
    <3>1. \A other \in Ids : Outstanding(other)' => req'[other] \in {"pending", "timedOut", "rejected"}
      BY <1>1, <2>1, FramesRead DEF AnsweredOnce
    <3> QED
      BY <3>1, FramesRead DEF AnsweredOnce
  <2>5. IgnoredOnce'
    <3>1. \A i \in DOMAIN ignored : ignored[i] \in Ids
      BY DEF DataTypes
    <3> QED
      BY <1>2, <2>1, <3>1 DEF IgnoredOnce
  <2>6. Phases'
    BY <1>2, <2>1, McpAssumption DEF Phases, HandshakeId, Ids
  <2>7. Forgotten'
    BY <1>2, <2>1, <2>2, FramesRead DEF Forgotten, Remembered, Overflowed
  <2> QED
    BY <1>2, <2>2, <2>3, <2>4, <2>5, <2>6, <2>7 DEF Overflowed
<1>3. CASE /\ req[id] # "pending"
           /\ \E i \in DOMAIN ignored : ignored[i] = id /\ ignored' = RemoveAt(ignored, i)
           /\ UNCHANGED <<state, error, helpers, req>>
  <2>1. PICK n \in DOMAIN ignored : ignored[n] = id /\ ignored' = RemoveAt(ignored, n)
    BY <1>3
  <2>2. /\ ignored' \in Seq(Ids) /\ Len(ignored') = Len(ignored) - 1
        /\ n \in 1..Len(ignored) /\ DOMAIN ignored = 1..Len(ignored) /\ Len(ignored) \in Nat
        /\ \A i \in DOMAIN ignored' : ignored'[i] = IF i < n THEN ignored[i] ELSE ignored[i + 1]
    BY <2>1, Removed DEF DataTypes
  <2>3. DOMAIN ignored' = 1..(Len(ignored) - 1)
    BY <2>2
  <2>4. DataTypes'
    BY <1>3, <2>2, FramesRead DEF DataTypes
  <2>5. AnsweredOnce'
    BY <1>3, FramesRead DEF AnsweredOnce
  <2>6. IgnoredOnce'
    <3>1. Len(ignored') <= MaxIgnored
      BY <2>2, McpAssumption DEF IgnoredOnce
    <3>2. \A i \in DOMAIN ignored' : i \in Nat /\ i \in DOMAIN ignored /\ i + 1 \in DOMAIN ignored
      BY <2>2, <2>3
    <3>3. \A i \in DOMAIN ignored' : req'[ignored'[i]] = "timedOut"
      BY <1>3, <2>2, <3>2 DEF IgnoredOnce
    <3>4. \A i, j \in DOMAIN ignored' : ignored'[i] = ignored'[j] => i = j
      <4> SUFFICES ASSUME NEW i \in DOMAIN ignored', NEW j \in DOMAIN ignored',
                          ignored'[i] = ignored'[j]
                   PROVE  i = j
        OBVIOUS
      <4>1. (IF i < n THEN i ELSE i + 1) = (IF j < n THEN j ELSE j + 1)
        BY <2>2, <3>2 DEF IgnoredOnce
      <4> QED
        BY <2>2, <3>2, <4>1
    <3> QED
      BY <3>1, <3>3, <3>4 DEF IgnoredOnce
  <2>7. Phases'
    BY <1>3 DEF Phases
  <2>8. \A other \in Ids \ {id} : Remembered(other) => Remembered(other)'
    <3> SUFFICES ASSUME NEW other \in Ids \ {id}, NEW i \in DOMAIN ignored, ignored[i] = other
                 PROVE  Remembered(other)'
      BY DEF Remembered
    <3>1. CASE i < n
      BY <2>2, <2>3, <3>1 DEF Remembered
    <3>2. CASE i > n
      <4>1. i - 1 \in DOMAIN ignored' /\ ignored'[i - 1] = other
        BY <2>2, <2>3, <3>2
      <4> QED
        BY <4>1 DEF Remembered
    <3> QED
      BY <2>1, <2>2, <3>1, <3>2
  <2>9. TimedOut' = TimedOut
    BY <1>3 DEF TimedOut
  <2>10. Forgotten'
    BY <1>1, <1>3, <2>8, <2>9, FramesRead DEF Forgotten, Overflowed
  <2> QED
    BY <1>3, <2>4, <2>5, <2>6, <2>7, <2>9, <2>10 DEF Overflowed
<1>4. CASE /\ req[id] # "pending" /\ \A i \in DOMAIN ignored : ignored[i] # id
           /\ Fail("unknownId") /\ UNCHANGED ignored
  <2>1. state \in Terminal \/ Overflowed
    BY <1>1, <1>4 DEF Phases, Forgotten, Remembered
  <2> QED
    BY <1>4, <2>1, NoAnswerRead
<1> QED
  BY <1>2, <1>3, <1>4 DEF Respond

LEMMA DeliverLate ==
  ASSUME LateInv, HandleFrame
  PROVE  LateInv'
<1>1. ReadsFrame /\ UNCHANGED <<owed, init>> /\ Head(out) \in Frame
  BY DEF HandleFrame, ReadsFrame, LateInv, DataTypes
<1>2. CASE state \in {"failed", "closed"} \/ Head(out).kind \in {"notification", "request"}
  <2>1. UNCHANGED <<state, error, req, ignored>>
    BY <1>2 DEF HandleFrame
  <2> QED
    BY <1>1, <2>1, NoAnswerRead
<1>3. CASE state \notin {"failed", "closed"} /\ Head(out).kind = "response"
  <2>1. Head(out).id \in Ids /\ Respond(Head(out).id)
    BY <1>1, <1>3 DEF HandleFrame, Frame
  <2> QED
    BY <1>1, <1>3, <2>1, RespondLate
<1>4. CASE state \notin {"failed", "closed"} /\ Head(out).kind = "malformed"
  <2>1. Fail("protocol") /\ UNCHANGED ignored
    BY <1>4 DEF HandleFrame
  <2> QED
    BY <1>1, <2>1, NoAnswerRead
<1> QED
  BY <1>1, <1>2, <1>3, <1>4 DEF Frame

LEMMA LateInvStep == LateInv /\ [McpNext]_mcpVars => LateInv'
<1> SUFFICES ASSUME LateInv, [McpNext]_mcpVars PROVE LateInv'
  OBVIOUS
<1>0. /\ state = "initialized" => init = "done"
      /\ HandshakeId \in Ids
      /\ init \in {"no", "starting"} => req[HandshakeId] = "unsent"
  BY McpAssumption DEF LateInv, Phases, HandshakeId, Ids
<1>1. CASE Start
  BY <1>0, <1>1, NothingDelivered DEF Start, Spawn, Terminal
<1>2. CASE Spawned
  BY <1>0, <1>2, NothingDelivered DEF Spawned, Terminal
<1>3. CASE SpawnFails
  BY <1>3, FailDelivers DEF SpawnFails
<1>4. CASE ChildExits
  BY <1>4, FailDelivers DEF ChildExits
<1>5. CASE TransportFails
  BY <1>5, FailDelivers DEF TransportFails
<1>6. CASE Initialize
  BY <1>0, <1>6, NothingDelivered DEF Initialize, Spawn, Terminal
<1>7. CASE InitializeSends
  <2>1. CASE state = "running"
    BY <1>0, <1>7, <2>1, SendLate DEF InitializeSends, Terminal
  <2>2. CASE state # "running"
    BY <1>0, <1>7, <2>2, NothingDelivered DEF InitializeSends
  <2> QED
    BY <2>1, <2>2
<1>8. CASE InitializeAnswered
  <2>1. CASE init' = "notify" /\ UNCHANGED <<state, error, req>>
    BY <1>0, <1>8, <2>1, NothingDelivered DEF InitializeAnswered
  <2>2. CASE init' = "failed" /\ Fail("protocol")
    BY <1>8, <2>2, FailDelivers DEF InitializeAnswered
  <2> QED
    BY <1>8, <2>1, <2>2 DEF InitializeAnswered
<1>9. CASE InitializedWritten
  BY <1>0, <1>9, NothingDelivered DEF InitializedWritten, Terminal
<1>10. CASE Request
  BY <1>0, <1>10, SendLate DEF Request, Initialized, Terminal
<1>11. CASE \E id \in Ids : Timeout(id)
  BY <1>11, TimeoutLate
<1>12. CASE HandleFrame
  BY <1>12, DeliverLate
<1>13. CASE ResultMismatch
  BY <1>13, FailDelivers DEF ResultMismatch
<1>14. CASE Close
  BY <1>0, <1>14, NothingDelivered DEF Close, Terminal
<1>15. CASE ChildIsGone
  BY <1>0, <1>15, NothingDelivered DEF ChildIsGone, Terminal
<1>16. CASE Escalate
  BY <1>0, <1>16, NothingDelivered DEF Escalate, Terminal
<1>17. CASE \E id \in Ids : Answer(id)
  <2>1. PICK id \in Ids : Answer(id)
    BY <1>17
  <2>2. [kind |-> "response", id |-> id] \in Frame
    BY DEF Frame
  <2> QED
    BY <2>1, <2>2, ServerWrites DEF Answer
<1>18. CASE WriteNoise
  <2>1. PICK kind \in {"malformed", "notification", "request"} :
               out' = Append(out, [kind |-> kind, id |-> 0])
    BY <1>18 DEF WriteNoise
  <2>2. [kind |-> kind, id |-> 0] \in Frame /\ kind # "response"
    BY DEF Frame
  <2> QED
    BY <1>18, <2>1, <2>2, ServerWrites DEF WriteNoise
<1>19. CASE StartHelper
  BY <1>0, <1>19, NothingDelivered DEF StartHelper
<1>20. CASE Die
  BY <1>0, <1>20, NothingDelivered DEF Die
<1>21. CASE UNCHANGED mcpVars
  BY <1>0, <1>21, NothingDelivered DEF mcpVars
<1> QED
  BY <1>1, <1>2, <1>3, <1>4, <1>5, <1>6, <1>7, <1>8, <1>9, <1>10, <1>11, <1>12, <1>13, <1>14,
     <1>15, <1>16, <1>17, <1>18, <1>19, <1>20, <1>21 DEF McpNext

(* A late answer ends the connection only after more requests timed out    *)
(* than ignoredResponseIds remembers, whatever the server writes and in    *)
(* whatever order (handleResponse, rememberIgnoredResponseId).             *)
THEOREM LateAnswersCorrect == McpSpec => []LateAnswersTolerated
<1>1. McpInit => LateInv
  <2> SUFFICES ASSUME McpInit PROVE LateInv
    OBVIOUS
  <2>1. DataTypes /\ AnsweredOnce /\ IgnoredOnce /\ Forgotten
    BY McpAssumption DEF McpInit, DataTypes, AnsweredOnce, IgnoredOnce, Forgotten, Outstanding, Outcome
  <2>2. Phases
    BY McpAssumption DEF McpInit, Phases, HandshakeId, Ids
  <2> QED
    BY <2>1, <2>2 DEF LateInv, McpInit
<1>2. LateInv => LateAnswersTolerated
  BY DEF LateInv, LateAnswersTolerated, Overflowed, TimedOut
<1> QED
  BY <1>1, <1>2, LateInvStep, PTL DEF McpSpec
=============================================================================
