# TLA+ models of the harness platform

Formal models of the parts of this repository where several actors share state: the control plane's scheduler, event
outbox, artifact registry and audit export; the durable sessions through which an agent turn survives the loss of its
process; the agent server and the loop it runs; a turn of the streaming kernel; the MCP client; the sandbox runner; and
the CLI's gate run. TLC checks each model on small instances; for seven of them TLAPS proves safety for every
instance. Every definition that models code is listed in `PROJECT.json` (`map`) with the lines it stands for.

## 1. Inventory

Paths are under `src/`.

| Component | Code | State it keeps | Operations | Modules |
|---|---|---|---|---|
| Run scheduler | `services/control-plane/src/{scheduler,memory-repository,state,outbox-events}.ts` | runs with status, lease, fencing token, version; completion keys | enqueue, claim, start, heartbeat, complete, cancel, reconcile, reap | `RunScheduler`, `FencedWork`, `RunSchedulerProofs` |
| Event outbox | `outbox.ts`, `postgres.ts` (outbox part), `cli.ts` (sink) | sequence row, outbox rows with fenced claims, the publisher's `running`/`requested`/`stopped` | enqueue in a transaction, kick, flush, claim, deliver, mark, release, close | `Outbox`, `OrderedDelivery`, `OutboxProofs` |
| Artifact registry | `artifacts.ts`, `s3.ts`, `postgres.ts` (artifacts) | the bucket, the artifact table | look up, upload, register | `Artifacts` |
| Audit export | `audit.ts`, `postgres.ts` (checkpoint), `packages/sessions/src/postgres.ts` (global order) | audit checkpoint, the log's global sequence | read checkpoint, read page, upload, commit | `AuditExport`, `AuditExportProofs` |
| Session store | `packages/sessions/src/{store,sqlite,postgres}.ts` | session row (status, owner lease, checkpoint), event log | create, append, save checkpoint, continue, recover, transition, set metadata | `SessionStore`; the row of `AgentConnection`; the log of `AuditExport` |
| Durable turn and its continuation | `packages/kernel/src/{runtime,checkpoint}.ts`, `packages/sessions/src/runtime-event-store.ts` | the adapter's revision and append queue, the turn's position | run, checkpoint, continue, mark interrupted | `SessionContinuation`, `SessionContinuationProofs` |
| Kernel runtime | `packages/kernel/src/runtime.ts` | status, append queue, acknowledgement, steering, budgets, model stream | run, steer, cancel, publish terminal | `KernelTurn`, `RuntimeProofs` |
| Kernel loop | `packages/kernel/src/run.ts` | steps, calls, the response in work | run, emit, authorize, execute | `AgentLoop` |
| Model adapters | `packages/models/src/openai-compatible.ts` | the exchange under way | map a request, send, read, decode | `ModelCall`, `AgentLoop` |
| Agent server | `services/agent-server/src/{connection,sandbox-tool}.ts` | sessions of a connection, pending permissions, lease, idle and permission timers | initialize, new, prompt, permission, cancel, close, restore | `AgentConnection`, over `AgentLoop`; `AgentConnectionProofs` |
| MCP stdio client | `packages/mcp/src/stdio-client.ts` | state machine, pending and ignored request ids, the child | start, initialize, request, time out, fail, close | `McpClient`, `RuntimeProofs` |
| Policy rules | `packages/policy/src/{rules,index}.ts` | none | decide, check changed paths | `PolicyRules` |
| Sandbox runner | `services/sandbox-runner/src/{runner,plan,mounts,executor}.ts` | leases of run ids, the plan, cidfiles; the daemon's containers | plan, decide, revalidate, run, kill, clean up | `SandboxPlan`, `SandboxRunner`, `SandboxRunnerProofs` |
| CLI gate run | `apps/cli/src/{run,git}.ts` | stage, snapshot, the test process, verdict and evidence | preflight, snapshot, build, test, persist, report | `GateRun`, `GateRunProofs` |
| Postgres repository | `services/control-plane/src/{postgres,pg-wire}.ts` | the tables above behind row locks and statement clocks | the repository's calls as transactions | its outbox, artifact and audit parts, in their modules |
| Control-plane HTTP server, WebSocket transport, ACP client, workspaces, tools, events and SDK, telemetry, native agent, TUI, web, evals | the rest | see section 7 | parsing, framing, rendering, data | none |

How they interact. The HTTP server turns requests into scheduler calls; each changes a record and inserts an event in
one transaction, and then kicks the outbox publisher; the publisher copies events into the session store's append-only
log (or an in-memory stream); the audit exporter reads that log page by page, and its commit is again a mutation with an
event, which comes back through the outbox into the log it reads. On the other side an agent server or a CLI runs one of
the two kernels, whose every step is first appended to the session store under a lease its owner renews. Processes meet
only in the store: there is no direct message between a stale owner and its successor, and time is the only signal of a
crash. The sandbox runner and the MCP client drive other processes (the Docker client and daemon, a tool server) that may
act long after they were given up on; the gate run drives a builder and tests that write into the very tree it attests.

What makes the behaviour hard, and what must hold (`hazards` in `PROJECT.json` names the lines):

* Workers are remote and may be slow, dead or repeat a call: a superseded worker must not decide anything, and work that
  may have begun must not begin again unless an operator says so.
* The reaper has no timer and is hidden in other calls: a claim or a refused heartbeat moves runs the caller never named,
  and these moves must be versioned, announced and ordered as any other.
* Several replicas publish one queue with calls that fail after they took effect: the stream must be in commit order,
  with neither gap nor repetition, and nothing may be written off unsent.
* An export is an upload and a commit, and several replicas export the same page: every event belongs to exactly one
  export, a registered artifact has its bytes, and the export of its own announcements must come to an end.
* A checkpoint is two transactions, a continuation is four reads and a write, and the owner it replaces may still be
  alive: no model round may be run twice, and an interrupted session must be resolved once.
* Requests of one connection interleave at every await: an effect must stay behind the durable record of its permission,
  an accepted answer must be the one that counts, and a session must end although its provider, client or store stalls.
* A turn's producer, its consumer, steering and cancellation meet in one append queue: one outcome, no accepted message
  lost, and a cancellation that waits for nobody.
* A killed client leaves requests behind: what a sandbox run, an MCP client or a gate run reports as stopped must be.
* The tree under a sandbox plan or a gate run changes between any two reads of it.

## 2. Modules

### Control plane

`RunScheduler` follows `InMemoryControlPlaneRepository`. Its methods contain no `await`, so each is one action, with the
reap it performs first and the event it enqueues. `runs` is the table, `outbox[r]` the events of run `r` in order, `now`
the clock `Scheduler.timestamp` reads once per call (assumed not to run backwards). Workers are not in the repository:
`granted` is every identity a claim returned, and any of them may be presented at any later time, any number of times,
which covers delays, duplicates, lost answers and dead workers. `executed` records the identities that were told
"running". Operators name any version a run ever had. Idempotent retries of enqueue and complete change nothing in the
code and are stutters here. Task admission is the precondition of the enqueue, and admission keys one run each. The claim
takes the queued run of the highest priority, of those the one queued first; nothing ages (memory-repository.ts:247-249).
A run that is claimed and lapses before its start, time after time, is put back and granted again before everything of
lower priority, for ever. So `AbandonedLeaseReleased` promises that a lapse is always noticed, and that the run is
decided about or granted again unless, infinitely often, one of higher priority is granted while it waits (`Outranked`).

`FencedWork` is what that amounts to, without clock, queue, versions or outbox: epochs, begin and report in the current
epoch, retry only explicitly, at most one outcome. `ImplementsFencedWork` maps status, fencing token and result to it.

`Outbox` follows the Postgres tables and `OutboxPublisher`. Writers allocate from the singleton sequence row and hold its
lock to the end of their transaction. A publisher's `pc` is the `await` it stands at; between two awaits the event loop
runs one action. Kick covers API calls, the poll timer and the retry timer. A failed call may or may not have taken
effect, a sink call given up on may take effect later (`inFlight`), a claim may expire while its holder still works
(`Overrun`), and replicas crash and restart. Durations are abstracted: `lapsed` and `due` are what the code compares. The
sink deduplicates by event id, as the code requires of it (EVENTS.md) and the session store does. A restarted replica
keeps its publisher id, which the constructor permits; it is the harder case for fencing, since its old claims are then
in its own name. Health reporting is left out.

`OrderedDelivery` is the promise: a log, a growing prefix without gaps as the stream, and settling after delivery,
with everything in the end delivered and settled. `ImplementsOrderedDelivery` includes those liveness conditions.

`Artifacts` has the bucket, the table and clients that register and retry. `PutObject` is the conditional upload
(`if-none-match`, then a comparison with what is there), `PutFails` an upload that may have happened, `Register` the
transaction that refuses an id with other content. The idempotency key of a call is its artifact id. A key has a
directory, an id and a body, since the code's keys hold the digest: clients' objects and the exporter's never share one,
but a client may register any safe id, that of an export included (server.ts:416-426). Two uploads of the same bytes with
different content types would meet in one key in the code; the model does not tell them apart.

`AuditExport` extends it with the log it reads. Writers allocate the global sequence under its row lock and commit in any
order that lock permits, or roll back (`Allocate`, `CommitEvent`, `RollBack`). Every replica runs one export at a time:
`ReadCheckpoint`, `ReadPage`, `UploadPage`, `CommitExport`, with a crash between any two. A page that is too large is
halved, so any length up to the limit that fits may come out. It fails, and the replica's drain with it, when the next
event alone is too large (`CP_PAYLOAD_TOO_LARGE`, audit.ts:188-193) or an event of the page is malformed; nothing ever
passes such an event. `CommitExport` is refused when a client's artifact bears the name of the export with other content.
`AuditDrains` says what remains true: the log is exported up to the first event that is `Kept`, by one of these three, and
the announcements come to an end. An export with evidence announces itself; `PublishBookkeeping` puts the announcement into
the log, where the filter of `isExportable` leaves it out of every body. The artifact id of an export is its range and
content.

### Sessions and the agent server

`SessionStore` holds one session: `row` and `events`. Each operator is a transaction under the row's lock. The lease is a
flag (`live`) that `Expire` may clear at any moment, and a lease number that stands for the metadata value the code
compares for equality. Sequence numbers start at 1.

`SessionContinuation` extends it with the processes. A turn writes a safe checkpoint, the request (which stands for every
event between the safe checkpoint and the model checkpoint, compaction included), a model checkpoint, then calls the model
and runs tools (`Stream`, recorded in `executed`), then the round's result. A checkpoint is `Checkpoint` (the event) and
`Save` (the row). `start` stands for the three events that open a turn. Another process runs `continue()`: `Load`,
`ReadRevision`, `ReadRecord`, `Claim` or `ClaimRefused`, `ReadMetadata`, `MarkInterrupted`, one action for each call it
awaits. A crash may fall between any two actions; it also stands for an append whose answer was lost, since the runtime
writes nothing after one. What happens inside a turn is `KernelTurn`. Both backends run the same transactions; Postgres
reads its clock after the row lock is taken or at the start of the transaction, a difference the free `Expire` covers.

`ModelCall` is one request of the OpenAI-compatible adapter as operators: what may be sent (`Sendable`: bytes, schemas,
and tool names that stay apart under the encoding of names a provider does not take) and what is an answer (`Decodes`:
calls with ids of their own and arguments in JSON, a finish reason that agrees with them, usage that adds up, no encoded
name that was not handed out). `Replies` is what a provider may answer, right and wrong.

`AgentLoop` is `runAgent`, one action per stretch between two awaits. Every event the loop emits is a label at which the
server's `recordEvent` awaits the store (`Commit`, `Refuse`); the action named after the label is what follows. The
exchange with the provider is `Requested`, `ProviderResponds`, `ProviderAnswers`, with the deadline that covers the body
and the abort of the caller. The policy decides at will. Where it asks, it asks about an intent, action and subject: one
of `Commands` has scope "run", and an answer that allows it is remembered (`Grant`, runPermissionGrants) and not asked for
again (`HasRunGrant`); all others have scope "once". A sandboxed tool asks again for what its command does, always with
scope "run", and the connection remembers those answers for itself (`granted`). An entry of the log is the kind of the
event and the intent it is about, so that `EffectsAreDurable` can say which answer authorized a tool. `effects`
counts the tools that were begun, and `meant` remembers which tool the provider was shown under the name it called.

`AgentConnection` adds the connection around the loops: the cap on sessions and its window, creation, prompt, the idle,
permission and lease timers, answers and cancels of the client, the close of the socket, `finishSession` with its fenced
transaction, a crash of the process, and other replicas that run `restoreSession` (`ReadRow`, `ReadSize`, `ReadClock`,
`RestoreCloses`, `RestoreMarks`, `ReadStatus`, one action for each read or transaction).

`KernelTurn` is the producer of one run of the streaming runtime, from `startRun` to the `finally` of `produce`. The
producer stands at a stage (`at`, `step`); stages that publish queue an operation behind `appendTail`, wait for the store
and, where the code does, for the consumer. Steering shares the queue and cancellation does not. The model's stream is
checked event by event (`Streamed`) as `snapshotModelEvent` and `normalizeCompletion` do. A store failure poisons the run
and may have stored the event all the same. `workspace.snapshot()` before a safe checkpoint (runtime.ts:1221), which
nothing races with the abort, may throw (`SnapshotFails`) and is assumed to return.

### Processes and files

`McpClient` has the client's state machine, its pending and remembered ids, and the escalating close; the server answers
in any order, late or never, writes noise, starts helpers in its group and dies at any step.

`PolicyRules` decides as the compiled rules do; `SandboxPlan` holds the rules, the allowed paths and the workspace, which
others change at any time (`Disturb`); `SandboxRunner` runs calls of `runSandbox` for one run id: decisions one after
another, revalidation, the Docker client with its requests on their way to the daemon (`requests`), the timer that kills
it, and the cleanup by cidfile or by name and label. The fingerprint of an allowed path is of all that is in it and taken
when the plan begins; that of the root is its own directory entry, a bare `lstat` (mounts.ts:393-398), taken when the plan
is complete (plan.ts:414). `SpawnedAsPlanned` says that much: an exchange of the root while the operator is asked, and
changes in the root outside the allowed paths, go unnoticed in the code and in the model. The daemon serves requests of killed clients late or drops them.

`GateRun` is a run of the gate over a repository of paths that have one content or none in the base, HEAD, the index and
the tree. A snapshot is nine steps (`Verify` three times, `Read` six times, `Compare`), with anything in between; the test
process, its group and what left it are `leader`, `group` and `escaped`; evidence is written by `Persist`, `Construct`,
`Commit` to one of two paths, and `Exit`. The attestation after the builder may fail (`RecordAttestation`). Not modelled in it: what replacement objects and hidden index flags do to git's
answers while they are there, and the report that was committed but could not be read back, which leaves a "passed"
report on disk although the run exits with 1 (`Commit` has it; no property forbids it).

## 3. Runs

| Run | Instance | What it shows |
|---|---|---|
| `scheduler_core` | 1 run, 2 workers (symmetric), leases of 1 and 2 ticks, 4 ticks, versions up to 6 for heartbeats | fencing, no re-execution without an operator, outcome only from the last lease, complete outbox, final records, refinement of `FencedWork` |
| `scheduler_queue` | 2 runs of priority 0 or 5, 1 worker, 1 shared completion key, 2 ticks | keys name one run, claim order across the reap, release of abandoned leases up to starvation by priority |
| `outbox` | 2 writers, 2 replicas (one steady), 2 events, 2 faults | order, no loss, claims end by their holder, refinement with liveness |
| `audit_export` | 2 writers, one of them of events that fit, are too large or malformed, 2 replicas, 2 clients with the name of one export and different content, pages of 2, 5 log numbers, 1 fault | every event in one export, artifacts stored, the drain ends, at the end of the log or at what stops it |
| `session_continuation` | 3 processes (owner, a steady and an unsteady successor), 2 rounds, one renewal | no round twice, checkpoint and log agree, takeovers only at a safe tail, one closing marker, resolution |
| `session_marker` | 2 processes, 1 round | the first divergence of section 6 |
| `agent_session` | 1 session, 1 restoring replica, 1 step, 2 calls in budget, 2 asks, 1 command with scope "run", one renewal, registries with one tool or two of one wire name | effects behind the fence, accepted answers stand, restores agree with the log, sessions end |
| `kernel_turn` | 2 steers, 2 cancels, 2 steps, 1 call in budget, 2 waiting messages | no accepted steering lost, one outcome, a cancellation ends the run |
| `kernel_restore` | the same | the second divergence of section 6 |
| `mcp_client` | 4 requests (handshake included), 2 remembered ids, 1 frame of noise | late answers tolerated as long as they are remembered, a close leaves nothing |
| `sandbox_runner` | 3 calls (symmetric), 2 processes (symmetric), 2 allowed paths, 1 change of the workspace | stopped means gone, nothing runs after the return, only one's own is removed, spawned as planned |
| `gate_run` | 1 path, any contents, 2 foreign changes | exit 0 is verified, receipts are true, a snapshot is of a tree that was there |

Why the bounds suffice. `Max...` constants cap clocks, versions, events, faults, rounds, renewals, requests, asks and
changes; nothing else is bounded. Scheduler: four ticks with leases of one and two allow a lease to lapse before its
start, after its start, after a heartbeat, and a third grant. Expiry is per run and the properties of `scheduler_core`
are per run, so one run suffices there; everything that relates runs is in `scheduler_queue`. Outbox: two events show any
exchange, two faults a lost mark followed by a failed release or a crash. Audit: two writers show a number allocated early
and committed late, pages of two a page that is halved, five numbers an announcement exported with evidence and one
exported alone; one writer of bad events shows one before, behind and in the page of good ones, and a name in use the
commit that never succeeds. Sessions: two successors show competing takeovers and a takeover of the takeover, two rounds a checkpoint
that replaces another. Agent session: sessions of one connection share nothing but the cap and the close, so one suffices
for what the properties say; two calls and two asks show an answer for the run used by a
later call, an answer that does not hold for another intent, and a request of the loop and one of the sandbox. Kernel: two steers show one
applied and one handed on, two cancels one that wins and one that is late. MCP: four requests with two remembered
ids are the least with which one is forgotten. Sandbox: the third call meets a name while the container of the first is
being removed for the second. Gate: a path may be changed and changed back (two changes), which is what a snapshot could
miss; paths do not influence one another, and the theorems hold for any number.

Fairness, and why the code justifies it. `scheduler_queue`: some worker keeps polling `POST /v1/runs/claim`. The service
itself has no reaper timer, so this is an assumption about its callers and the property does not hold without it. The
instance's clock stops at two, so in it nobody outranks a run for ever; `AbandonedLeaseReleased` excludes that case in its
own words and not by the bound, and is meant for a clock that goes on.
`outbox`: a replica that stays up polls (`start` sets an interval), every call of a live process returns (pool and HTTP
time-outs), claims expire and retries become due as time passes. Nothing is assumed of the unsteady replica, of writers,
or of faults. `audit_export`: replicas drain on a timer, open transactions end, the outbox publishes (what `outbox`
shows). `session_continuation`: leases expire, and a process that stays up retries `continue()`; that retry is its
host's, the runtime itself tries once. The owner is never assumed to do anything. `agent_session`: the event loop runs
what is ready, timers fire, the store answers; a tool ends, a sandboxed one by its timeout; nothing is asked of the
provider or the client. `kernel_turn`: microtasks and timers run and the store answers, if with a failure; nothing is
asked of the consumer, the model, the tools or the permission resolver.

Deadlock is checked in the scheduler and outbox runs. In the others it is off: turns, calls and runs end, and then
nothing remains to be done.

Every property of a passing run has a mutant, a variation of one mapped definition of the kind a bug would be (a fencing token
not advanced, a fence not compared, a tail not looked at, a group not signalled), under which TLC reports that property
violated. Mutant operators are marked as such and used by no specification.

## 4. Proofs

Eight modules prove theorems, each about the component in its name (`RuntimeProofs` about two), from the named ASSUMEs of
the modules it extends and nothing else: for all sets of runs, workers, publishers, processes, paths, requests, and for all bounds. TLC evaluates
those ASSUMEs in the runs. All follow one pattern: an inductive invariant in named parts, lemmas that say what an
operator or a group of actions does, one preservation lemma per action or kind of step, and a temporal step at the end.

`RunSchedulerProofs`, from `SchedulerAssumption`:

* `TypeCorrect`: inductive as it stands. Each record step has a lemma `...WellFormed`; `Reap`, which rewrites the whole
  table, is handled by one lemma on `Reaped`.
* `OutboxCorrect` (`OutboxMirrorsRun`) needs `FreshRuns` (an absent run is the empty record): otherwise an enqueue could
  meet old events. Its core is `MirrorsNext`: a step that adds one version and one event with a new id keeps the run
  mirrored. The id is new because every earlier event has a smaller version.
* `LeaseCorrect` (`SingleLeaseHolder`), with `GrantsNumbered` (tokens are positive). `StepKinds` says that every step is
  a quiet row step, a reap, a grant, or changes no table; the invariant is shown for each kind.
* `ReexecutionCorrect` and `ResultCorrect` share `ExecInv`: an executed lease is accounted for (its run still works under
  it, waits as indeterminate, is over, or a later retry is in the outbox), and a run that is running or has a result has
  executed its newest lease. Neither property is inductive without it: a requeued run says nothing about whether its old
  lease had begun.
* `FinalCorrect`, `KeysCorrect` and `OrderCorrect` for terminal records, completion keys and claim order. The last one
  needs `Prioritized` (a run in the table has a priority) and that a claim chooses after its own reap.
* `PromiseKept`: `Spec => ImplementsFencedWork`, the whole refinement, one `FencedWork` step or stutter per run and step.

`OutboxProofs`, from `OutboxAssumption`. The invariant is `OutboxInv`. The properties alone are not inductive: a publisher
that lost its claim, or a sink call nobody waits for, may deliver at any later time, so one must know what it can still
deliver. `Claims` says that everything worked on or in flight was *reached* (all events before it are written off), which
no step undoes, and that what is about to be marked is in the stream. A reached event is then either in the stream or its
next element (`StoredIs`). `Numbered` says that one open transaction holds the newest number. `StepKind` sorts every step
into numbering, writing off, and leaving the log as it is. Results: `StreamCorrect`, `DeliveryCorrect`, `ClaimsCorrect`
and `DeliversInOrder`, the safety part of `ImplementsOrderedDelivery`.

`SessionContinuationProofs`, from `StoreAssumption` and `TurnAssumption`. The invariant is `TurnsInv`. The core is
`Pinned`: a process with an event in the log that its checkpoint does not cover, or with a model call under way, still
owns the row, since a continuation needs a safe checkpoint that is the end of the log. A stale owner is therefore never
about to call the model, although nothing tells it that it is stale. `InRound` ties the owner's round, and the checkpoint
a successor would resume from, to the number of rounds run. Results: `RoundsCorrect`, `CheckpointCorrect`,
`WritersCorrect`, `ContinuationCorrect`, `RestoredCorrect`.

`RuntimeProofs`, about the host process of an agent, holds the proofs of two modules that share nothing; each uses the
assumption of its own constants.

* `KernelTurn`, from `KernelAssumption`. The invariant is `KernelInv`; neither property is inductive, because a step that
  appends to the log says nothing of what may still be appended. `QueueInv` says that the producer has at most one
  operation in the queue and waits for it. `Closed` is the point for steering: the status is at its end and what the store
  works on is not a message; a turn whose outcome is "completed" is closed, uncanceled and without pending steering
  (`OutcomeInv`), so no `steering.queued` can slip in between the decision and `turn.completed`. `EndInv` then says where
  the producer stands once `turn.completed` is in the log, which rules out a second one whichever append fails.
  `CallersInv` ties what a `cancel` was told to the log, `ServedInv` says that accepted steering is pending or applied;
  after a failed append the log may hold a message that is nobody's, but that run does not complete. Results:
  `KernelInvHolds`, `OneOutcomeHolds`, `SteeringServedHolds`. With `CheckpointInv` (a run whose outcome is success or its
  cancellation is `Quiet` from its terminal checkpoint on) also `OrderlyRestorableHolds`, the counterpart of the finding
  `kernel_restore`: what `RestorableTerminal` claims of every run is true of those that completed or were canceled.
* `McpClient`, from `McpAssumption`: `CloseCorrect`, with `Started` (a helper has a child that was spawned), and
  `LateAnswersCorrect`, whose `LateInv` says that an id is answered at most once (`AnsweredOnce`) and that only an
  overflow of the list forgets an id whose answer may still come (`Forgotten`); once overflowed, the list stays so.

`AgentConnectionProofs` uses no assumption on the constants. The invariant is `ConnInv`; the properties alone are not
inductive, because a restore reads the row, the log, the size and the clock in separate steps and answers from all of
them, and a tool begins on a decision that was recorded many steps earlier. `MemoryInv` is about a session in memory: a
permission request has one answer, an event that could not be recorded aborts the run, the provider was shown every tool
under a name of its own. `LogInv` ties the loop's place to the log: while a call is worked on, its entry comes after every
result, and once it is allowed and stored, what allowed it comes after the call, or the policy's question does and what the
loop remembers as allowed for the run is in the log (`Backed`). `RowInv` says that a row is created once
and closed for good, and that the answers of restores and the marker come with the closing. `RestoreInv` ties what a
restore has read to what is there: the log only grows, a row only closes, and a restore that is about to close has seen a
stop. Results: `ConnInvHolds`, `AcceptedAnswerStandsHolds`, `RestoresAgreeHolds`, `EffectsAreDurableHolds`,
`RestoreSparesLiveOwnerHolds`.

`SandboxRunnerProofs`, from `PlanAssumption` and `SandboxAssumption`: `SandboxInv` follows a lease's own
container from request to removal. `CreatedOnce` is the point: the Docker client writes the cidfile before it asks to
start, so a cidfile that the cleanup did not find once its client was gone will never be written, and a late create makes
at most a container that never runs. `SpawnCorrect` rests on `PlanInv`: a plan decides about the command
before anything else, and one that is ready to run has decided something Docker can express (`Representable`). Results: `StoppedCorrect`, `ReturnCorrect`, `RemovalCorrect`, `SpawnCorrect`; and
`StrictestDecides`, about the rules a plan is made from: whatever the patterns, as long as their length is bounded, a best
match exists and no equally specific denial is overruled.

`GateRunProofs`, from `GateAssumption`, in `GateInv`. `Honest` says why two captures and three verifications are enough
against one change: either the first capture is of the tree before it or the second, as far as it is done, of the tree
after it, so that two equal captures name a tree that was there. `Verified` carries a clean snapshot after the tests to
the verdict, `Evidence` the verdict to the report, the telemetry and the exit status through writes that fail. Results:
`PassedCorrect`, `ReceiptsCorrect`, `SnapshotCorrect`.

`AuditExportProofs`, from `ArtifactAssumption` and `ExportAssumption`, which ask nothing of the names clients choose:
`ExportInv` with the log (numbers become visible in their order, because whoever allocates one holds the
sequence until it ends), the registry (what is about to be registered is stored), the pages under way (each has all
evidence from the checkpoint it read) and the checkpoint. Results: `RegistryCorrect`, `AuditCorrect`.

Only model-checked: liveness (`AbandonedLeaseReleased`, `SessionResolved`, `SessionsEnd`, `CancelEnds`, `AuditDrains` and
the fairness part of `ImplementsOrderedDelivery`), which with ENABLED is out of the prover's reach, as is induction over
recursive data. Every invariant and every action property of a passing run is proved.

## 5. Further work

In the order of what they would add: the scheduler's Postgres transactions with row locks, `SKIP LOCKED` and statement
clocks, shown to implement `FencedWork`; an abstract specification of a session for one client, which the connection, its
restores and `continue()` implement; the disposable workspace lane of the gate run; the ACP client with the agent server
at the other end.

## 6. Findings

`session_marker`. EVENTS.md ("Scheduling and replay ordering", lines 298-302) says that when an expired active session
already ends in `agent.stopped`, recovery closes it as completed, and only a nonterminal tail gets `session.restored`.
`continue()` in the kernel recovers through `SessionEventStore.markInterrupted`, which never looks at the tail, and
`recoverInterrupted` compares only the row's metadata and lease. TLC's trace: a process loads no checkpoint, or one whose
work may have begun, and decides to mark; the owner finishes its turn, `agent.stopped` included; its lease expires before
it closes the row; the marker is appended after `agent.stopped` with outcome `interrupted`.

`kernel_restore`. EVENTS.md (lines 350-352) says that `restoreSession` loads committed terminal history for a new
follow-up, and `skills/platform-builder/SKILL.md` (lines 109-110) that a follow-up after a completed turn uses it.
`publishTerminal` persists the terminal checkpoint (runtime.ts:1671) before it sets the status to completing
(runtime.ts:1697). In TLC's trace a run fails or exceeds its budget while a steer is queued behind that append: the steer
is still controllable when its turn comes, `steering.queued` is committed after the terminal checkpoint, and the run ends
in order. `restoreSession` then throws "steering after terminal checkpoint" (runtime.ts:1196-1197): the accepted message
reaches no follow-up, and the session cannot be restored.

Observed while modelling, with no text that says otherwise: `continue()` refuses a session whose checkpoint is terminal
without closing it, so a session whose owner died between its terminal checkpoint and `turn.completed` stays active
on that path (`SessionResolved` therefore excludes it; the ACP restore closes such sessions); `flush()` may miss a kick
made as its pass ends, which the poll timer repairs; a report that was committed but could not be read back stays on disk
as "passed" while the gate run exits with 1; a Docker client killed during its create may leave a created container that
keeps the name of its lease until another run of it cleans up.

## 7. Not modelled

* Postgres scheduler transactions: `CURRENT_TIMESTAMP` of the transaction's start, row locks and `SKIP LOCKED`, and the
  keyed retry of an enqueue, which announces `run.scheduled` again for the run as it is then. The scheduler is modelled
  after the in-memory repository, whose calls are atomic; the outbox, artifact and audit tables after Postgres.
* The exact cap of `newSession`: sessions under creation are not counted, so that concurrent requests may exceed it. The
  model has the window; nothing in the repository promises the exact number, so no property does.
* Starvation in the queue is stated, not judged: no document promises a fair share to lower priorities.
* An outbox writer commits one event per transaction, while an audit commit and a claim that reaps enqueue several; their
  numbers are allocated under the same row lock and follow one another.
* The content type of an object, which is compared on a repeated upload.
* The token budget at the head of the agent loop, which is one more reason to stop there.
* A workspace snapshot that never returns; `CancelEnds` assumes it does, as local file operations do.
* `Close` of `SessionContinuation` stands for any host that closes the row once its turn is done, and is mapped to the one
  in the agent server's connection; it is taken from the done state only.
* Artifact registrations are not tied to a lease (EVENTS.md:278-280), so none of the fencing properties speaks of them.
* Processes that leave their group (`setsid`) are only marked as `escaped` in the gate run, and its promises exclude them.
* What replacement objects and hidden index flags do to git's answers; redaction failures; the disposable workspace lane.
* Token budgets are as strict as the code (runtime.ts:2794) and soft warnings, which change no state, are left out.
* Archiving, paging and idempotent redelivery of the session store; downloads, the local object store and request
  signing of the artifact service.
* HTTP routing and parsing, WebSocket framing, the ACP client, workspaces, tool definitions, event schemas and the SDK,
  telemetry, the native agent, the TUI, the web server and the evals: data transformation, input and output without a
  protocol of their own, or the other end of a protocol that is modelled.
* The fake model, which is a test double.

## 8. Running

`tlc -config MCRunScheduler.cfg MCRunScheduler.tla`, and likewise for the other configurations (`PROJECT.json`, `runs`, names
the module of each; `session_marker` and `kernel_restore` are expected to report a violation). `tlapm
RunSchedulerProofs.tla`, and likewise for the other proof modules.
