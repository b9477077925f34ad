------------------------------ MODULE AgentLoop ------------------------------
(***************************************************************************)
(* The language-level agent loop, runAgent (packages/kernel run.ts), as    *)
(* the agent server runs it, one loop per session.  Every event the loop   *)
(* emits goes through the server's recordEvent, which awaits the store     *)
(* before it sends the event to the client: a label of the loop in Events  *)
(* is an append that is awaited, Commit or Refuse is what the store makes  *)
(* of it, and the action named after the label is what the loop does once  *)
(* the await is over.  Anything may happen in between.                     *)
(*                                                                         *)
(* The model is the adapter for HTTP providers, module ModelCall.  The     *)
(* provider answers at will, or never.                                     *)
(*                                                                         *)
(* Abstracted: the calls of one response bear one name; a known tool is    *)
(* denied, allowed or asked about, at will; soft budget warnings, which    *)
(* only add an event, and the token budget at the head of the loop are left*)
(* out.  What an ask is for, action and subject, is its intent; only asks  *)
(* have one here.  row and log are the session's durable row and event log *)
(* (module SessionStore has their transactions in full).                   *)
(***************************************************************************)
EXTENDS ModelCall, SequencesExt

CONSTANTS
  Session,       \* session ids
  MaxSteps,      \* maxSteps: model turns of a run
  MaxToolCalls,  \* budget.maxToolCalls
  MaxAsks,       \* bound: permission requests of a session
  Commands,      \* intents with scope "run", which one answer may allow for
                 \* the rest of the run
  Wires          \* names a provider may answer with

ASSUME LoopAssumption ==
  /\ MaxSteps \in Nat \ {0}
  /\ MaxToolCalls \in Nat
  /\ MaxAsks \in Nat

VARIABLES
  ses,   \* per session, what the server process holds in memory
  row,   \* per session, its durable row: status, lease (the metadata) and
         \* whether that lease is live
  log    \* per session, its durable events

Stops == {"stopCompleted", "stopFailed", "stopCanceled", "stopBudget"}
Inner == {"inPolicy", "inAsked", "inAllowed", "inDenied"}
Events == {"created", "started", "request", "responseError", "response", "error",
           "warning", "call", "policyAllow", "policyAsk", "policyDeny", "asked",
           "allowed", "denied", "result"} \cup Inner \cup Stops
Labels == Events \cup {"idle", "model", "await", "exec", "inAwait", "ended"}

\* All intents whose scope is "once" are one.
Intents == Commands \cup {"once"}

Over == {"completed", "failed", "canceled"}

\* The owner of the session may append: assertAppendOwnership on an active row.
CanAppend(s) == row[s].status = "active" /\ row[s].live

\* The events of the run have the names of the labels that await them, and the
\* intent of the ask they belong to.
Entry(x) == [kind |-> x.pc, intent |-> x.intent]

Commit(s) ==
  /\ ses[s].pc \in Events /\ ~ses[s].stored
  /\ CanAppend(s)
  /\ log' = [log EXCEPT ![s] = Append(@, Entry(ses[s]))]
  /\ ses' = [ses EXCEPT ![s].stored = TRUE]
  /\ UNCHANGED row

\* recordEvent fails: the run is aborted and the emit throws, out of the loop,
\* or, from within a sandboxed tool, out of the tool.
Unrecorded(x) ==
  [x EXCEPT !.failed = TRUE, !.aborted = TRUE, !.void = TRUE, !.plan = "none",
            !.pc = IF @ \in Inner THEN "result" ELSE "ended"]

Refuse(s) ==
  /\ ses[s].pc \in Events /\ ~ses[s].stored
  /\ ~CanAppend(s)
  /\ ses' = [ses EXCEPT ![s] = Unrecorded(@)]
  /\ UNCHANGED <<row, log>>

-----------------------------------------------------------------------------
(* The loop.  Recorded(s, l): the event of label l is durable and sent.     *)

Recorded(s, l) == ses[s].pc = l /\ ses[s].stored

\* Go on from the memory x to the label l.
Goto(s, x, l) ==
  /\ ses' = [ses EXCEPT ![s] = [x EXCEPT !.pc = l, !.stored = FALSE]]
  /\ UNCHANGED <<row, log>>

Created(s) == Recorded(s, "created") /\ Goto(s, ses[s], "started")

\* The head of the while loop.
NextTurn(s, x) ==
  \/ x.steps = MaxSteps /\ Goto(s, x, "stopFailed")
  \/ x.steps < MaxSteps /\ x.aborted /\ Goto(s, x, "stopCanceled")
  \/ x.steps < MaxSteps /\ ~x.aborted /\ Goto(s, [x EXCEPT !.steps = @ + 1], "request")

Started(s) == Recorded(s, "started") /\ NextTurn(s, ses[s])

-----------------------------------------------------------------------------
(* model.complete: the exchange with the provider.                         *)

\* complete settles: what the loop makes of it is a failure, a response it does
\* not accept, one that ends the run, calls a tool, is cut off or out of the
\* loop's own limits, or spends more tokens than there are.
Receive(s, x, plan) ==
  Goto(s, [x EXCEPT !.plan = plan, !.wire = "none"],
       IF plan \in {"threw", "invalid"} THEN "responseError" ELSE "response")

\* The request is refused, or on its way with its timer running.
Requested(s) ==
  /\ Recorded(s, "request")
  /\ \E bytes \in {MaxBytes, MaxBytes + 1}, schema \in {"json", "deep"} :
       IF /\ Sendable([tools |-> ses[s].tools, schema |-> schema, bytes |-> bytes])
          /\ ~ses[s].aborted
       THEN Goto(s, [ses[s] EXCEPT !.wire = "sent"], "model")
       ELSE Receive(s, ses[s], "threw")

\* Status and headers, after which the body is read; or no connection, or
\* headers that announce too much.
ProviderResponds(s) ==
  /\ ses[s].wire = "sent" /\ ~ses[s].aborted
  /\ \/ ses' = [ses EXCEPT ![s].wire = "reading"] /\ UNCHANGED <<row, log>>
     \/ Receive(s, ses[s], "threw")

\* normalizeToolJson: what the kernel takes of a model or a tool, bounded in
\* depth, nodes and bytes.
Bounded(value) == value = "json"

\* validateModelResponse and the budgets may refuse any response; arguments
\* also when those of the run so far are too many.
Plans(x, reply) ==
  IF ~Decodes(x.tools, reply) THEN {"threw"}
  ELSE {"invalid", "over"} \union
       CASE reply.finish = "stop" -> {"final"}
         [] reply.finish = "length" -> {"bad"}
         [] OTHER -> {"bad"} \union {plan \in {"calls"} :
                       \A i \in DOMAIN reply.calls : Bounded(reply.calls[i].arguments)}

\* The end of the body; tool is the name the adapter gives the calls, meant the
\* tool the provider was shown under the name it answered with.
ProviderAnswers(s) ==
  /\ ses[s].wire = "reading" /\ ~ses[s].aborted
  /\ \E reply \in Replies(Wires) : \E plan \in Plans(ses[s], reply) :
       IF plan # "calls" THEN Receive(s, ses[s], plan)
       ELSE LET wire  == reply.calls[1].wire
                shown == {t \in ses[s].tools : Alias(t) = wire}
            IN  \E meant \in IF shown = {} THEN {wire} ELSE shown :
                  Receive(s, [ses[s] EXCEPT !.tool = Canonical(ses[s].tools, wire),
                                            !.meant = meant], plan)

\* Mutant: the timer is cleared when the headers are there.
DeadlineForHeaders(s) ==
  ses[s].wire = "sent" /\ Receive(s, ses[s], "threw")

\* timeoutMs, which covers the body.
Deadline(s) ==
  ses[s].wire # "none" /\ Receive(s, ses[s], "threw")

\* The run's signal ends the exchange.
CallerAborts(s) ==
  ses[s].wire # "none" /\ ses[s].aborted /\ Receive(s, ses[s], "threw")

Provider(s) == ProviderResponds(s) \/ ProviderAnswers(s)

-----------------------------------------------------------------------------
\* A failed model call: error, then the stop; canceled is decided in between.
ResponseFailed(s) ==
  /\ Recorded(s, "responseError")
  /\ Goto(s, [ses[s] EXCEPT !.void = ses[s].plan = "threw" /\ ses[s].aborted], "error")

ErrorRecorded(s) ==
  /\ Recorded(s, "error")
  /\ \/ ses[s].plan = "calls" /\ Goto(s, ses[s], "result")
     \/ /\ ses[s].plan # "calls"
        /\ Goto(s, ses[s], IF ses[s].void THEN "stopCanceled" ELSE "stopFailed")

\* The head of the loop over the calls of a response.
NextCall(s, x) ==
  \/ x.aborted /\ Goto(s, x, "stopCanceled")
  \/ ~x.aborted /\ x.calls >= MaxToolCalls /\ Goto(s, x, "warning")
  \/ ~x.aborted /\ x.calls < MaxToolCalls /\ Goto(s, x, "call")

Responded(s) ==
  /\ Recorded(s, "response")
  /\ \/ ses[s].plan = "final" /\ Goto(s, ses[s], "stopCompleted")
     \/ ses[s].plan = "bad" /\ Goto(s, ses[s], "error")
     \/ ses[s].plan = "over" /\ Goto(s, ses[s], "warning")
     \/ ses[s].plan = "calls" /\ NextCall(s, ses[s])

Warned(s) == Recorded(s, "warning") /\ Goto(s, ses[s], "stopBudget")

\* Mutant: the key of a grant leaves the subject out.
AnyRunGrant(x, intent) == x.grants # {}

\* An answer of this run has allowed the intent for the rest of it.
HasRunGrant(x, intent) == intent \in x.grants

\* tool.call is durable: the tool is unknown or its input bad, its
\* authorization fails closed, or the policy decides.
CallRecorded(s) ==
  /\ Recorded(s, "call")
  /\ \/ Goto(s, ses[s], "result")
     \/ /\ ses[s].tool \in ses[s].tools
        /\ \/ \E next \in {"error", "policyAllow", "policyDeny"} : Goto(s, ses[s], next)
           \/ \E intent \in Intents :
                /\ ses[s].asks < MaxAsks \/ HasRunGrant(ses[s], intent)
                /\ Goto(s, [ses[s] EXCEPT !.intent = intent], "policyAsk")

\* The tool is executed unless the run has been aborted.
Execute(s, x) ==
  \/ x.aborted /\ Goto(s, x, "stopCanceled")
  \/ ~x.aborted /\ Goto(s, [x EXCEPT !.effects = @ + 1], "exec")

\* A new permission request; one that comes after the abort is denied at once
\* (awaitPermission).
Ask(x) ==
  [x EXCEPT !.asks = @ + 1, !.told = "none",
            !.pending = ~x.aborted,
            !.verdict = IF x.aborted THEN "deny" ELSE "none"]

PolicyRecorded(s) ==
  LET x == ses[s] IN
  \/ Recorded(s, "policyDeny") /\ Goto(s, x, "result")
  \/ Recorded(s, "policyAllow") /\ Execute(s, x)
  \/ Recorded(s, "policyAsk") /\ HasRunGrant(x, x.intent) /\ Execute(s, x)
  \/ Recorded(s, "policyAsk") /\ ~HasRunGrant(x, x.intent) /\ Goto(s, Ask(x), "asked")

Resolved(s, x, verdict) == Goto(s, x, IF verdict = "allow" THEN "allowed" ELSE "denied")

\* raceWithAbort: an abort that is already there wins.
AskRecorded(s) ==
  /\ Recorded(s, "asked")
  /\ \/ ses[s].aborted /\ Resolved(s, [ses[s] EXCEPT !.void = TRUE], "deny")
     \/ ~ses[s].aborted /\ Goto(s, ses[s], "await")

PermissionSettled(s) ==
  /\ ses[s].pc = "await"
  /\ \/ ses[s].verdict # "none" /\ Resolved(s, ses[s], ses[s].verdict)
     \/ /\ ses[s].verdict = "none" /\ ses[s].aborted
        /\ Resolved(s, [ses[s] EXCEPT !.void = TRUE], "deny")

\* runPermissionGrants.add, for an intent with scope "run".
Grant(x) == [x EXCEPT !.grants = @ \cup ({x.intent} \cap Commands)]

ResolutionRecorded(s) ==
  \/ Recorded(s, "denied") /\ Goto(s, ses[s], "result")
  \/ Recorded(s, "allowed") /\ Execute(s, Grant(ses[s]))

\* The tool returns or throws; canceled if the signal is aborted by then.
ToolEnds(s) ==
  /\ ses[s].pc = "exec"
  /\ Goto(s, [ses[s] EXCEPT !.void = ses[s].aborted], "result")

\* toolCalls++ and tool.result, and what was asked about the call is gone; then
\* the next call of the response, the next turn, or, canceled while the tool was
\* asked about or run, the end.
ResultRecorded(s) ==
  LET x == [ses[s] EXCEPT !.calls = @ + 1, !.intent = "none", !.told = "none", !.verdict = "none"] IN
  /\ Recorded(s, "result")
  /\ \/ x.void /\ Goto(s, x, "stopCanceled")
     \/ ~x.void /\ NextCall(s, x)
     \/ ~x.void /\ NextTurn(s, x)

\* agent.stopped is durable: runAgent returns or throws.
StopRecorded(s) ==
  /\ ses[s].pc \in Stops /\ ses[s].stored
  /\ Goto(s, [ses[s] EXCEPT !.ok = ses[s].pc = "stopCompleted", !.plan = "none"], "ended")

-----------------------------------------------------------------------------
(* The sandboxed tool of the agent server asks again, for what the command *)
(* does, always with scope "run" (resolveSandboxPermission); it does not   *)
(* race with the abort.                                                    *)

SandboxAsks(s) ==
  /\ ses[s].pc = "exec" /\ ses[s].asks < MaxAsks
  /\ \E intent \in Commands : Goto(s, [ses[s] EXCEPT !.intent = intent], "inPolicy")

\* What the client has allowed for the run answers (it counts towards MaxAsks);
\* otherwise the client is asked.
SandboxPolicyRecorded(s) ==
  /\ Recorded(s, "inPolicy")
  /\ \/ ses[s].intent \in ses[s].granted /\ Goto(s, [ses[s] EXCEPT !.asks = @ + 1], "exec")
     \/ ses[s].intent \notin ses[s].granted /\ Goto(s, ses[s], "inAsked")

SandboxAskRecorded(s) == Recorded(s, "inAsked") /\ Goto(s, Ask(ses[s]), "inAwait")

SandboxPermissionSettled(s) ==
  /\ ses[s].pc = "inAwait" /\ ses[s].verdict # "none"
  /\ Goto(s, ses[s], IF ses[s].verdict = "allow" THEN "inAllowed" ELSE "inDenied")

\* Denied, the runner throws and the command is not run.
SandboxResolutionRecorded(s) ==
  \/ Recorded(s, "inAllowed") /\ Goto(s, ses[s], "exec")
  \/ Recorded(s, "inDenied") /\ Goto(s, [ses[s] EXCEPT !.void = ses[s].aborted], "result")

-----------------------------------------------------------------------------
LoopStep(s) ==
  \/ Commit(s) \/ Refuse(s)
  \/ Created(s) \/ Started(s) \/ Requested(s) \/ Deadline(s) \/ CallerAborts(s)
  \/ ResponseFailed(s) \/ ErrorRecorded(s) \/ Responded(s) \/ Warned(s)
  \/ CallRecorded(s) \/ PolicyRecorded(s) \/ AskRecorded(s) \/ PermissionSettled(s)
  \/ ResolutionRecorded(s) \/ ToolEnds(s) \/ ResultRecorded(s) \/ StopRecorded(s)
  \/ SandboxAsks(s) \/ SandboxPolicyRecorded(s) \/ SandboxAskRecorded(s)
  \/ SandboxPermissionSettled(s) \/ SandboxResolutionRecorded(s)
=============================================================================
