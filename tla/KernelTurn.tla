------------------------------ MODULE KernelTurn ------------------------------
(***************************************************************************)
(* One run of the streaming runtime (packages/kernel/src/runtime.ts): its  *)
(* producer, from startRun to the finally of produce, and the callers that *)
(* steer and cancel it meanwhile.                                          *)
(*                                                                         *)
(* Producer and steering share one queue of append operations, serialize:  *)
(* the operation at its head awaits the store while everything else goes   *)
(* on.  The producer stands at a stage; a stage of Appending queues an     *)
(* operation of its own, waits for it and, at a stage of Acknowledged, for *)
(* the consumer to ask for the next event.  The log keeps the events the   *)
(* properties tell apart; the events that follow a response or an          *)
(* observation at once, with its checks, and soft budget warnings are left *)
(* out, and how often a call was denied or failed before is not counted.   *)
(* Durable runs only: the checkpoints of a store without them are skipped. *)
(* Who continues a run after a crash is module SessionContinuation.        *)
(***************************************************************************)
EXTENDS Integers, Sequences, SequencesExt, FiniteSets

CONSTANTS Steer,        \* calls of steer
          Cancel,       \* calls of cancel; an abort or an abandoned iterator is one
                        \* whose answer nobody reads
          MaxSteps,     \* budget.maxSteps
          MaxToolCalls, \* budget.maxToolCalls
          MaxSteering   \* MAX_STEERING_MESSAGES

ASSUME KernelAssumption ==
  /\ {MaxSteps, MaxToolCalls, MaxSteering} \subseteq Nat /\ MaxSteering > 0
  /\ Steer \cap Cancel = {} /\ "turn" \notin Steer

VARIABLES
  status,    \* status of the run
  cancelRequested, appendFailure,
  failure,   \* state.failure, by its cause or "none"
  at, step,  \* the producer's stage and how far it is with it
  outcome,   \* the terminal status it is about to publish
  retried,   \* finalizeTerminal had to construct its events again
  queue,     \* the operations behind appendTail: "turn" is the producer's
  inFlight,  \* the operation at the head awaits the store
  acked,     \* the acknowledgement the producer waits for
  pending,   \* pendingSteering
  rounds, toolCalls, todo,  \* modelRequests, toolCalls, calls of the response left
  summary,   \* whether the round under way is a summary of the context, or comes after one
  stream,    \* what the model has streamed in the round under way
  steer, cancel, \* what became of each call
  log

vars == <<status, cancelRequested, appendFailure, failure, at, step, outcome, retried, queue,
          inFlight, acked, pending, rounds, toolCalls, todo, summary, stream, steer, cancel, log>>

Settled == {"completed", "canceled", "budget_exceeded", "failed"}

\* stages that publish, and what they do after it
Acknowledged == {"userMessage", "exceeded", "accounted", "request", "delta", "response", "compacted",
                 "call", "callsExceeded", "policy", "asked", "resolved", "observed", "canceledCall",
                 "repeated"}
Appending == Acknowledged \union {"agentStarted", "safe", "steering", "model", "finish",
                                  "terminal", "turnCompleted", "agentStopped"}
\* operations that assert inside the queue that the run may produce
Guarded == {"steering", "request", "finish"}

-----------------------------------------------------------------------------
Aborted == cancelRequested \/ appendFailure
Finished == at = "finished"
Admitted == status # "registered"

(* assertControllable *)
Controllable == ~cancelRequested /\ status \notin Settled \union {"completing"}

callers == <<steer, cancel>>
counters == <<rounds, toolCalls, todo, summary, stream>>
outcomes == <<failure, outcome, retried>>

Go(stage) == at' = stage /\ step' = "begin"

(* The catch and the finally of produce, and closeModelIterator on the way *)
(* there: an append failure wins over a cancellation, and that over the    *)
(* rest.                                                                   *)
Throw(cause) ==
  /\ \/ appendFailure /\ status' = "failed" /\ failure' = "append" /\ Go("finished") /\ UNCHANGED outcome
     \/ ~appendFailure /\ (cancelRequested \/ cause = "cancel")
        /\ outcome' = "canceled" /\ Go("terminal") /\ UNCHANGED <<status, failure>>
     \/ ~Aborted /\ cause # "cancel"
        /\ outcome' = (IF cause = "budget" THEN "budget_exceeded" ELSE "failed")
        /\ failure' = cause /\ Go("terminal") /\ UNCHANGED status
  /\ UNCHANGED retried

(* the catch of finalizeTerminal: events that cannot be built are tried    *)
(* once more as a failed outcome, a failed append is final                 *)
TerminalFails(cause) ==
  /\ status' = "failed" /\ failure' = cause
  /\ IF cause = "append" \/ retried
     THEN Go("finished") /\ UNCHANGED <<outcome, retried>>
     ELSE Go("terminal") /\ outcome' = "failed" /\ retried' = TRUE

-----------------------------------------------------------------------------
(* serialize: the producer's operation, behind what is queued already *)
Serialize ==
  /\ at \in Appending /\ step = "begin"
  /\ queue' = Append(queue, "turn") /\ step' = "queued"
  /\ UNCHANGED <<status, cancelRequested, appendFailure, at, inFlight, acked, pending, log>>
  /\ UNCHANGED <<outcomes, counters, callers>>

TurnAtHead == queue # << >> /\ Head(queue) = "turn" /\ ~inFlight

(* an operation that is refused before it appends anything *)
OperationRefused ==
  /\ TurnAtHead
  /\ appendFailure \/ (at \in Guarded /\ cancelRequested)
  /\ queue' = Tail(queue)
  /\ IF at \in {"terminal", "turnCompleted", "agentStopped"} THEN TerminalFails("append") ELSE Throw("cancel")
  /\ UNCHANGED <<cancelRequested, appendFailure, inFlight, acked, pending, log>>
  /\ UNCHANGED <<counters, callers>>

(* the operation that decides whether this was the last round: the         *)
(* steering accepted before it gets another one                            *)
FinishOrGoOn ==
  IF pending = << >> THEN status' = "completing" /\ outcome' = "completed" /\ Go("terminal")
  ELSE Go("safe") /\ UNCHANGED <<status, outcome>>

\* mutant: the cancellation is not looked at when the last round is over
FinishAfterCancel ==
  /\ TurnAtHead /\ at = "finish" /\ ~appendFailure
  /\ queue' = Tail(queue)
  /\ FinishOrGoOn
  /\ UNCHANGED <<cancelRequested, appendFailure, failure, retried, inFlight, acked, pending, log>>
  /\ UNCHANGED <<counters, callers>>

\* mutant: the last round is over without regard to what is queued
FinishUnqueued ==
  /\ at = "finish" /\ step = "queued" /\ ~Aborted
  /\ queue' = SelectSeq(queue, LAMBDA operation : operation # "turn")
  /\ FinishOrGoOn
  /\ UNCHANGED <<cancelRequested, appendFailure, failure, retried, inFlight, acked, pending, log>>
  /\ UNCHANGED <<counters, callers>>

Finish ==
  /\ TurnAtHead /\ at = "finish" /\ ~Aborted
  /\ queue' = Tail(queue)
  /\ FinishOrGoOn
  /\ UNCHANGED <<cancelRequested, appendFailure, failure, retried, inFlight, acked, pending, log>>
  /\ UNCHANGED <<counters, callers>>

OperationStarts ==
  /\ TurnAtHead /\ at # "finish"
  /\ ~appendFailure /\ ~(at \in Guarded /\ cancelRequested)
  /\ IF at = "steering" /\ pending = << >>
     THEN queue' = Tail(queue) /\ step' = "appended" /\ UNCHANGED inFlight
     ELSE inFlight' = TRUE /\ UNCHANGED <<queue, step>>
  /\ UNCHANGED <<status, cancelRequested, appendFailure, at, acked, pending, log>>
  /\ UNCHANGED <<outcomes, counters, callers>>

Logged == CASE at = "steering" -> << <<"applied", ToSet(pending)>> >>
            [] at = "terminal" -> << <<"checkpoint", ToSet(pending)>> >>
            [] at = "turnCompleted" -> << <<"turn", outcome>> >>
            [] at = "agentStopped" -> << <<"stopped", outcome>> >>
            [] OTHER -> << >>

Appended ==
  /\ inFlight /\ Head(queue) = "turn"
  /\ queue' = Tail(queue) /\ inFlight' = FALSE /\ step' = "appended"
  /\ log' = log \o Logged
  /\ pending' = IF at = "steering" THEN << >> ELSE pending
  /\ UNCHANGED <<status, cancelRequested, appendFailure, at, acked>>
  /\ UNCHANGED <<outcomes, counters, callers>>

(* appendRaw's catch: the store may hold the event all the same; the run   *)
(* is aborted and nothing is appended any more                             *)
AppendFails ==
  /\ inFlight
  /\ appendFailure' = TRUE /\ inFlight' = FALSE /\ queue' = Tail(queue) /\ acked' = TRUE
  /\ IF Head(queue) = "turn"
     THEN /\ log' \in {log, log \o Logged} /\ UNCHANGED steer
          /\ status' = "failed" /\ failure' = "append" /\ Go("finished")
     ELSE /\ log' \in {log, Append(log, <<"queued", {Head(queue)}>>)}
          /\ steer' = [steer EXCEPT ![Head(queue)] = "failed"]
          /\ UNCHANGED <<status, failure, at, step>>
  /\ UNCHANGED <<cancelRequested, outcome, retried, pending, cancel>> /\ UNCHANGED counters

-----------------------------------------------------------------------------
\* mutant: an acknowledgement created after a cancellation waits like any other
AwaitConsumer ==
  /\ at \in Acknowledged /\ step = "appended"
  /\ step' = "sent" /\ acked' = FALSE
  /\ status' = IF at = "userMessage" THEN "active" ELSE status
  /\ UNCHANGED <<cancelRequested, appendFailure, at, queue, inFlight, pending, log>>
  /\ UNCHANGED <<outcomes, counters, callers>>

(* createAcknowledgement and enqueue; the run is admitted with its user's  *)
(* message on the way to the consumer                                      *)
Deliver ==
  /\ at \in Acknowledged /\ step = "appended"
  /\ step' = "sent" /\ acked' = Aborted
  /\ status' = IF at = "userMessage" THEN "active" ELSE status
  /\ UNCHANGED <<cancelRequested, appendFailure, at, queue, inFlight, pending, log>>
  /\ UNCHANGED <<outcomes, counters, callers>>

(* the consumer's next call of next() acknowledges the event before it *)
Consume ==
  /\ step = "sent" /\ ~acked
  /\ acked' = TRUE
  /\ UNCHANGED <<status, cancelRequested, appendFailure, at, step, queue, inFlight, pending, log>>
  /\ UNCHANGED <<outcomes, counters, callers>>

\* The producer has published the event of a stage.
Published(stage) ==
  /\ at = stage
  /\ IF stage \in Acknowledged THEN step = "sent" /\ acked ELSE step = "appended"

Goes == UNCHANGED <<cancelRequested, appendFailure, queue, inFlight, acked, pending, log>> /\ UNCHANGED callers

\* The producer goes on from a published stage to the next one, unless
\* assertMayProduce finds the run aborted.
Proceed(stage, next) ==
  /\ Published(stage) /\ Goes
  /\ IF Aborted THEN Throw("cancel") /\ UNCHANGED counters
     ELSE Go(next) /\ UNCHANGED <<status, outcomes, counters>>

\* A stage whose awaited event announces an error.
ProceedToThrow(stage, cause) ==
  Published(stage) /\ Goes /\ Throw(cause) /\ UNCHANGED counters

(* produce: nothing waits for the consumer before the user's message, where *)
(* a cancellation is first looked at                                        *)
Admit ==
  /\ Published("agentStarted") /\ Goes
  /\ Go("userMessage") /\ UNCHANGED <<status, outcomes, counters>>

(* persistCheckpoint at a safe stage: the workspace is captured first, and  *)
(* that is assumed to end, if with an error                                *)
SnapshotFails ==
  /\ at = "safe" /\ step = "begin"
  /\ Goes /\ Throw("snapshot") /\ UNCHANGED counters

(* runRounds and checkModelRequestBudgets: steps or tokens are spent, or not *)
CheckBudgets(stage) ==
  /\ Published(stage) /\ Goes
  /\ IF Aborted /\ stage # "safe" THEN Throw("cancel")
     ELSE /\ \/ Go("exceeded")
             \/ rounds < MaxSteps /\ Go("steering")
          /\ UNCHANGED <<status, outcomes>>
  /\ UNCHANGED counters

(* requestModelRound up to the model.request event: steering is applied,   *)
(* then the context is accounted for, if there is a policy, and summarized *)
(* first when it grew past its threshold; the summary is a round of its    *)
(* own, which applies no steering, and the request is then made again      *)
Account ==
  /\ Published("steering") /\ Goes
  /\ \/ Go("request") /\ UNCHANGED summary
     \/ Go("accounted") /\ UNCHANGED summary
     \/ summary = "no" /\ Go("accounted") /\ summary' = "under way"
  /\ UNCHANGED <<status, outcomes, rounds, toolCalls, todo, stream>>

Overflow == ~Aborted /\ ProceedToThrow("accounted", "overflow")

(* the request crosses the boundary once the consumer took its event *)
CountRequest ==
  /\ Published("request") /\ Goes
  /\ IF Aborted THEN Throw("cancel") /\ UNCHANGED rounds
     ELSE rounds' = rounds + 1 /\ Go("model") /\ UNCHANGED <<status, outcomes>>
  /\ UNCHANGED <<toolCalls, todo, summary, stream>>

CallModel ==
  /\ Published("model") /\ Goes
  /\ IF Aborted THEN Throw("cancel") ELSE Go("stream") /\ UNCHANGED <<status, outcomes>>
  /\ UNCHANGED counters

\* What the model has said and called in this round, and how it finished.
NoStream == [said |-> FALSE, calls |-> 0, reused |-> FALSE, finish |-> "none"]

(* snapshotModelEvent and snapshotIteratorResult let through text, tool    *)
(* intentions and the completed response                                   *)
ModelEvents ==
  {[type |-> "malformed"], [type |-> "text.delta"]}
    \union [type : {"tool.call"}, id : {"fresh", "repeated", "reused"}]
    \union [type : {"response.completed"}, finish : {"stop", "tool_calls", "length", "error"},
            content : {"as streamed", "other"}, calls : {"as streamed", "other"}]

(* text comes before the tool intentions *)
TextFits == stream.calls = 0

(* normalizeStreamedToolCall: an id used before in the round is refused,   *)
(* one of an earlier round only with the response                          *)
CallFits(event) ==
  /\ event.id # "repeated"
  /\ event.id = "reused" => toolCalls > 0
  /\ stream.calls <= MaxToolCalls  \* bound: one call over the budget

(* normalizeCompletion: the response repeats what was streamed, and its    *)
(* finish reason agrees with the calls                                     *)
Matches(event) ==
  /\ stream.said => event.content = "as streamed"
  /\ event.calls = "as streamed"
  /\ event.finish = "tool_calls" <=> stream.calls > 0

(* requestModelRound between the stream and its response event *)
CallsFresh == ~stream.reused

Streamed(event) ==
  \/ /\ event.type = "text.delta" /\ TextFits
     /\ stream' = [stream EXCEPT !.said = TRUE] /\ Go("delta")
  \/ /\ event.type = "tool.call" /\ CallFits(event)
     /\ stream' = [stream EXCEPT !.calls = @ + 1, !.reused = @ \/ event.id = "reused"]
     /\ Go("stream")
  \/ /\ event.type = "response.completed" /\ Matches(event) /\ CallsFresh
     /\ stream' = [stream EXCEPT !.finish = event.finish] /\ Go("response")

(* an event that does not fit, the end of the stream before the response,  *)
(* its timeout or an error of the model                                    *)
Stream ==
  /\ at = "stream" /\ ~Aborted /\ Goes
  /\ \/ \E event \in ModelEvents : Streamed(event) /\ UNCHANGED <<status, outcomes>>
     \/ (\E cause \in {"model", "timeout"} : Throw(cause)) /\ stream' = NoStream
  /\ UNCHANGED <<rounds, toolCalls, todo, summary>>

(* nextModelEvent and waitForBoundary: the abort wins over a model or a    *)
(* tool that never answers, after a grace period at the most               *)
StreamInterrupted ==
  /\ at = "stream" /\ Aborted /\ Goes
  /\ Throw("cancel") /\ stream' = NoStream /\ UNCHANGED <<rounds, toolCalls, todo, summary>>

(* runRounds: tokens overrun, or the response goes on as its finish says *)
RoundEnds ==
  \/ Go("exceeded") /\ UNCHANGED <<status, outcomes, todo>>
  \/ /\ stream.finish = "stop"
     /\ Go("finish") /\ UNCHANGED <<status, outcomes, todo>>
  \/ /\ stream.finish = "tool_calls"
     /\ Go("call") /\ todo' = stream.calls /\ UNCHANGED <<status, outcomes>>
  \/ /\ stream.finish \in {"length", "error"}
     /\ Throw("finishReason") /\ UNCHANGED todo

(* compactContext: the summary may overrun the budgets, must be text and   *)
(* must make the context smaller                                           *)
Summarized ==
  \/ Go("exceeded") /\ UNCHANGED <<status, outcomes>>
  \/ rounds < MaxSteps /\ stream.finish = "stop" /\ Go("compacted") /\ UNCHANGED <<status, outcomes>>
  \/ rounds < MaxSteps /\ Throw("summary")

Responded ==
  /\ Published("response") /\ Goes
  /\ IF Aborted THEN Throw("cancel") /\ UNCHANGED <<todo, summary>>
     ELSE \/ summary = "under way" /\ Summarized /\ summary' = "made" /\ UNCHANGED todo
          \/ summary # "under way" /\ RoundEnds /\ summary' = "no"
  /\ stream' = NoStream /\ UNCHANGED <<rounds, toolCalls>>

-----------------------------------------------------------------------------
(* processToolCall: over the budget, not to be had with that input, or up  *)
(* to the policy                                                           *)
ToolCalled ==
  /\ Published("call") /\ Goes
  /\ toolCalls' = toolCalls + 1 /\ todo' = todo - 1
  /\ IF Aborted THEN Throw("cancel")
     ELSE /\ IF toolCalls' > MaxToolCalls THEN Go("callsExceeded")
             ELSE \E next \in {"policy", "observed"} : Go(next)
          /\ UNCHANGED <<status, outcomes>>
  /\ UNCHANGED <<rounds, summary, stream>>

(* denied, to be asked about, or allowed by the policy or a grant *)
Decided ==
  /\ Published("policy") /\ Goes
  /\ IF Aborted THEN Throw("cancel")
     ELSE (\E next \in {"observed", "asked", "execute"} : Go(next)) /\ UNCHANGED <<status, outcomes>>
  /\ UNCHANGED counters

(* the resolver answers or fails; waitForBoundary lets a cancellation      *)
(* outlive it, which is recorded as a denial                               *)
Resolve ==
  /\ at = "resolving" /\ Goes
  /\ Go("resolved") /\ UNCHANGED <<status, outcomes, counters>>

ResolveInterrupted == Aborted /\ Resolve

Resolved ==
  /\ Published("resolved") /\ Goes
  /\ IF Aborted THEN Go("canceledCall")
     ELSE \E next \in {"execute", "observed"} : Go(next)
  /\ UNCHANGED <<status, outcomes, counters>>

Execute ==
  /\ at = "execute" /\ step = "begin" /\ Goes
  /\ IF Aborted THEN Throw("cancel") ELSE step' = "running" /\ UNCHANGED <<at, status, outcomes>>
  /\ UNCHANGED counters

ToolAnswers ==
  /\ at = "execute" /\ step = "running" /\ Goes
  /\ Go("observed") /\ UNCHANGED <<status, outcomes, counters>>

ToolInterrupted ==
  /\ at = "execute" /\ step = "running" /\ Aborted /\ Goes
  /\ Go("canceledCall") /\ UNCHANGED <<status, outcomes, counters>>

(* the third identical denial or failure in a row ends the run *)
Observed ==
  /\ Published("observed") /\ Goes
  /\ IF Aborted THEN Throw("cancel")
     ELSE /\ \/ Go(IF todo > 0 THEN "call" ELSE "safe")
             \/ Go("repeated")
          /\ UNCHANGED <<status, outcomes>>
  /\ UNCHANGED counters

-----------------------------------------------------------------------------
(* publishTerminal: the latch closes after the checkpoint *)
Latch ==
  /\ at = "terminal" /\ step = "appended" /\ Goes
  /\ \/ status' = "completing" /\ Go("turnCompleted") /\ UNCHANGED outcomes
     \/ TerminalFails("construction")
  /\ UNCHANGED counters

TurnCompleted ==
  /\ Published("turnCompleted") /\ Goes
  /\ Go("agentStopped") /\ UNCHANGED <<status, outcomes, counters>>

AgentStopped ==
  /\ Published("agentStopped") /\ Goes
  /\ status' = outcome /\ Go("finished") /\ UNCHANGED <<outcomes, counters>>

Producer ==
  \/ Serialize \/ OperationRefused \/ Finish \/ OperationStarts \/ Deliver
  \/ Admit \/ Proceed("userMessage", "safe") \/ SnapshotFails
  \/ CheckBudgets("safe") \/ CheckBudgets("compacted") \/ ProceedToThrow("exceeded", "budget")
  \/ Account \/ Overflow \/ Proceed("accounted", "request") \/ CountRequest \/ CallModel
  \/ StreamInterrupted \/ Proceed("delta", "stream") \/ Responded
  \/ ToolCalled \/ ProceedToThrow("callsExceeded", "budget") \/ Decided
  \/ Proceed("asked", "resolving") \/ ResolveInterrupted \/ Resolved \/ Execute \/ ToolInterrupted
  \/ ProceedToThrow("canceledCall", "cancel") \/ Observed \/ ProceedToThrow("repeated", "repeated")
  \/ Latch \/ TurnCompleted \/ AgentStopped

-----------------------------------------------------------------------------
(* steer: it waits for the admission and then for its turn in the queue *)
SteerCalled(s) ==
  /\ steer[s] = "new"
  /\ IF Admitted /\ ~Finished /\ Controllable
     THEN steer' = [steer EXCEPT ![s] = "queued"] /\ queue' = Append(queue, s)
     ELSE /\ Admitted \/ Finished
          /\ steer' = [steer EXCEPT ![s] = "refused"] /\ UNCHANGED queue
  /\ UNCHANGED <<status, cancelRequested, appendFailure, at, step, inFlight, acked, pending, cancel, log>>
  /\ UNCHANGED outcomes /\ UNCHANGED counters

SteerStarts(s) ==
  /\ queue # << >> /\ Head(queue) = s /\ ~inFlight
  /\ IF ~appendFailure /\ Controllable /\ Len(pending) < MaxSteering
     THEN inFlight' = TRUE /\ UNCHANGED <<queue, steer>>
     ELSE queue' = Tail(queue) /\ steer' = [steer EXCEPT ![s] = "refused"] /\ UNCHANGED inFlight
  /\ UNCHANGED <<status, cancelRequested, appendFailure, at, step, acked, pending, cancel, log>>
  /\ UNCHANGED outcomes /\ UNCHANGED counters

SteerAccepted(s) ==
  /\ inFlight /\ Head(queue) = s
  /\ queue' = Tail(queue) /\ inFlight' = FALSE
  /\ log' = Append(log, <<"queued", {s}>>) /\ pending' = Append(pending, s)
  /\ steer' = [steer EXCEPT ![s] = "accepted"]
  /\ UNCHANGED <<status, cancelRequested, appendFailure, at, step, acked, cancel>>
  /\ UNCHANGED outcomes /\ UNCHANGED counters

(* cancel and requestCancellation *)
CancelCalled(c) ==
  /\ cancel[c] = "new"
  /\ CASE status = "canceled" -> cancel' = [cancel EXCEPT ![c] = "done"] /\ UNCHANGED <<cancelRequested, acked>>
       [] status \in {"completed", "failed", "budget_exceeded", "completing"} /\ (Finished \/ ~cancelRequested) ->
            cancel' = [cancel EXCEPT ![c] = "tooLate"] /\ UNCHANGED <<cancelRequested, acked>>
       [] OTHER -> cancel' = [cancel EXCEPT ![c] = "waiting"] /\ cancelRequested' = TRUE /\ acked' = TRUE
  /\ UNCHANGED <<status, appendFailure, at, step, queue, inFlight, pending, steer, log>>
  /\ UNCHANGED outcomes /\ UNCHANGED counters

CancelSettles(c) ==
  /\ cancel[c] = "waiting" /\ Finished
  /\ cancel' = [cancel EXCEPT ![c] = IF failure = "none" THEN "done" ELSE "failed"]
  /\ UNCHANGED <<status, cancelRequested, appendFailure, at, step, queue, inFlight, acked, pending, steer, log>>
  /\ UNCHANGED outcomes /\ UNCHANGED counters

-----------------------------------------------------------------------------
Init ==
  /\ status = "registered" /\ cancelRequested = FALSE /\ appendFailure = FALSE /\ failure = "none"
  /\ at = "agentStarted" /\ step = "begin" /\ outcome = "failed" /\ retried = FALSE
  /\ queue = << >> /\ inFlight = FALSE /\ acked = TRUE /\ pending = << >>
  /\ rounds = 0 /\ toolCalls = 0 /\ todo = 0 /\ summary = "no" /\ stream = NoStream
  /\ steer = [s \in Steer |-> "new"] /\ cancel = [c \in Cancel |-> "new"] /\ log = << >>

Next ==
  \/ Producer \/ Stream \/ Resolve \/ ToolAnswers \/ Consume \/ Appended \/ AppendFails
  \/ \E s \in Steer : SteerCalled(s) \/ SteerStarts(s) \/ SteerAccepted(s)
  \/ \E c \in Cancel : CancelCalled(c) \/ CancelSettles(c)

Spec == Init /\ [][Next]_vars

\* Microtasks and timers run, and the store answers, if only with a failure.
\* Nothing is asked of the consumer, the model, the tools or the resolver.
FairSpec ==
  /\ Spec
  /\ WF_vars(Producer)
  /\ WF_vars(\E s \in Steer : SteerStarts(s))
  /\ WF_vars(Appended \/ AppendFails \/ \E s \in Steer : SteerAccepted(s))

-----------------------------------------------------------------------------
At(i, kind) == log[i][1] = kind

(* restoreSession scans the log; of what it refuses, only this can be      *)
(* wrong with a run that wrote its terminal checkpoint and its end         *)
NothingAfterCheckpoint ==
  \A i, j \in DOMAIN log : At(i, "checkpoint") /\ i < j => ~At(j, "queued")

(* Accepted steering is never dropped: a run that completed has applied    *)
(* every message it queued, and one that ended otherwise hands what it did *)
(* not apply to the session's next turn.                                   *)
SteeringServed ==
  /\ \A i, j \in DOMAIN log : log[i] = <<"turn", "completed">> /\ At(j, "queued") =>
       \E k \in (j + 1)..(i - 1) : At(k, "applied") /\ log[j][2] \subseteq log[k][2]
  /\ \A s \in Steer : Finished /\ steer[s] = "accepted" =>
       \/ \E i \in DOMAIN log : At(i, "applied") /\ s \in log[i][2]
       \/ s \in ToSet(pending)

(* One outcome: turn.completed is written once, nothing but the            *)
(* agent.stopped of the same outcome comes after it, whatever the store    *)
(* did with an append that failed, and a cancel that resolved is the       *)
(* outcome of the log.                                                     *)
OneOutcome ==
  /\ \A i, j \in DOMAIN log : At(i, "turn") /\ i < j => log[j] = <<"stopped", log[i][2]>>
  /\ \A c \in Cancel : cancel[c] = "done" => <<"stopped", "canceled">> \in ToSet(log)

(* A cancellation ends the run, with or without a consumer, a model or a   *)
(* tool that ever answers: nothing of the producer waits for them or for   *)
(* the steering in its queue.                                              *)
CancelEnds == cancelRequested ~> Finished

(* What restoreSession asserts of the log of a run that ended: no steering *)
(* after its terminal checkpoint.                                          *)
RestorableTerminal ==
  status \in Settled /\ ~appendFailure /\ Finished => NothingAfterCheckpoint

(* It is true of a run that completed or was canceled, whatever failed on  *)
(* the way: finish and assertControllable close it for steering before the *)
(* checkpoint.                                                             *)
OrderlyRestorable == status \in {"completed", "canceled"} => NothingAfterCheckpoint
=============================================================================
