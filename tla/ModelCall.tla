------------------------------ MODULE ModelCall ------------------------------
(***************************************************************************)
(* One request to a model provider (packages/models openai-compatible.ts): *)
(* what complete sends, how tools are named on the wire, and what is a     *)
(* response.  The exchange itself, with its deadline and the abort of the  *)
(* caller, is part of the loop that makes it (AgentLoop).                  *)
(*                                                                         *)
(* Abstracted: text, JSON values and schemas are well formed or not;       *)
(* which error a failed exchange raises is left out, the loop treats all   *)
(* of them alike but for the code it reports.                              *)
(***************************************************************************)
EXTENDS Naturals, Sequences, FiniteSets

CONSTANTS
  Encoded,   \* of each tool name a provider may not take as it is, its encoding
  Reserved,  \* names that begin like an encoding
  MaxBytes   \* maxRequestBytes

ASSUME CallAssumption == MaxBytes \in Nat /\ \A name \in DOMAIN Encoded : Encoded[name] \in Reserved

-----------------------------------------------------------------------------
(* complete up to the exchange: mapMessages, mapTools, mapProviderOptions  *)

\* The name of a tool in the request.
Alias(name) == IF name \in DOMAIN Encoded THEN Encoded[name] ELSE name

\* Two tools of one name on the wire could not be told apart.
Distinct(tools) == \A t, u \in tools : Alias(t) = Alias(u) => t = u

\* A value the adapter passes on, either way: JSON within its limits of depth
\* and nodes ("large" is more than the kernel takes, "deep" too much for both).
Passes(value) == value \in {"json", "large"}

\* The messages, the tools and their schemas are charged to one byte budget.
WithinBudget(request) == request.bytes <= MaxBytes

ToolsMap(request) == Passes(request.schema) /\ Distinct(request.tools)

Sendable(request) == WithinBudget(request) /\ ToolsMap(request)

-----------------------------------------------------------------------------
(* performRequest, readResponseText and decodeCompletion                   *)

\* The tool the adapter takes a name on the wire for; an unknown one is left
\* to the loop.
Canonical(tools, wire) ==
  IF \E t \in tools : Alias(t) = wire
  THEN CHOOSE t \in tools : Alias(t) = wire ELSE wire

\* Functions with arguments in JSON, under ids of their own.
CallsDecode(calls) ==
  /\ \A i, j \in DOMAIN calls : calls[i].id = calls[j].id => i = j
  /\ \A i \in DOMAIN calls : Passes(calls[i].arguments)

\* No call bears an encoding that was not handed out.
AliasesKnown(tools, calls) ==
  \A i \in DOMAIN calls :
    calls[i].wire \in Reserved => \E t \in tools : Alias(t) = calls[i].wire

FinishDecodes(reply) ==
  /\ reply.finish \in {"stop", "length", "tool_calls"}
  /\ reply.finish = "tool_calls" <=> reply.calls # << >>

\* Usage adds up, or there is none, and it is estimated.
UsageDecodes(reply) == reply.usage \in {"sums", "none"}

\* The bytes come within their limits and are text.
BodyReads(reply) == reply.body # "broken"

\* A status of success, and JSON of the schema with one choice.
Decodes(tools, reply) ==
  /\ BodyReads(reply) /\ reply.status = "ok" /\ reply.body = "completion"
  /\ CallsDecode(reply.calls) /\ FinishDecodes(reply) /\ UsageDecodes(reply)
  /\ AliasesKnown(tools, reply.calls)

\* What a provider may answer when it was shown these tools: a completion, or
\* one with something wrong.
Completion == [status |-> "ok", body |-> "completion", finish |-> "stop", calls |-> << >>, usage |-> "sums"]
Calling(calls) == [Completion EXCEPT !.finish = "tool_calls", !.calls = calls]

Call(id, wire, arguments) == [id |-> id, wire |-> wire, arguments |-> arguments]

Replies(wires) ==
  LET calls == {<< >>} \union {<<Call(1, w, "json")>> : w \in wires}
                 \union {<<Call(1, w, "json"), Call(id, w, "json")>> : w \in wires, id \in {1, 2}}
                 \union {<<Call(1, w, kind)>> : w \in wires, kind \in {"text", "deep", "large"}}
  IN  {[Completion EXCEPT !.finish = finish, !.calls = c, !.usage = usage] :
         finish \in {"stop", "length", "tool_calls", "content_filter"}, c \in calls, usage \in {"sums", "none", "differs"}}
      \union {[Completion EXCEPT !.status = "error"], [Completion EXCEPT !.body = "garbled"],
                  [Completion EXCEPT !.body = "broken"]}
=============================================================================
