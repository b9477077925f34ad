------------------------------ MODULE McpClient ------------------------------
(***************************************************************************)
(* A client of a Model Context Protocol server on its standard streams     *)
(* (packages/mcp/src/stdio-client.ts): one child process, the handshake,   *)
(* requests that time out while their answers are still on the way, and a  *)
(* close that escalates until the child and its helpers are gone.          *)
(*                                                                         *)
(* The server is the environment: it answers a request it was sent at most *)
(* once, in any order, may write anything else to its output, may start    *)
(* helper processes in its group and may die at any step.  Frames are read *)
(* in the order they were written; what a call returns is its request's    *)
(* outcome.                                                                *)
(***************************************************************************)
EXTENDS Integers, SequencesExt

CONSTANTS MaxRequests,  \* bound: requests a client sends, the handshake's included
          MaxIgnored,   \* MAX_IGNORED_RESPONSE_IDS
          MaxNoise      \* bound: frames of the server that answer nothing

ASSUME McpAssumption == {MaxRequests, MaxIgnored} \subseteq Nat \ {0} /\ MaxNoise \in Nat

VARIABLES
  state,     \* stateValue
  error,     \* terminalError, by its cause
  child,     \* the process: "dead" has died and its exit event is still to come
  helpers,   \* processes the server started in its group: "none", "running", "signalled"
  req,       \* outcome of the request of each id; pending is the Map of the code
  ignored,   \* ignoredResponseIds, in the order they were added
  owed,      \* ids written to the server and not answered by it
  out,       \* the server's frames on their way
  noise,     \* frames so far that answer nothing
  init,      \* where the one run of initializeInternal stands
  closing    \* where closeInternal stands

mcpVars == <<state, error, child, helpers, req, ignored, owed, out, noise, init, closing>>

Ids == 1..MaxRequests
HandshakeId == 1

-----------------------------------------------------------------------------
Terminal == {"closed", "closing", "failed"}

(* rejectPending *)
RejectPending == [id \in Ids |-> IF req[id] = "pending" THEN "rejected" ELSE req[id]]

(* signalProcessGroup: the child's group, whether or not the child lives *)
SignalGroup == helpers' = IF child # "none" /\ helpers = "running" THEN "signalled" ELSE helpers

(* fail: the first error wins and nothing after a close or a failure does  *)
(* anything                                                                *)
Fail(e) ==
  IF state \in Terminal
  THEN UNCHANGED <<state, error, req, helpers>>
  ELSE state' = "failed" /\ error' = e /\ req' = RejectPending /\ SignalGroup

(* canWrite: the exit is known to the client once its event came *)
CanWrite == state \in {"running", "initializing", "initialized"} /\ child \in {"alive", "dead"}

-----------------------------------------------------------------------------
(* start: spawn throws, or returns a process whose spawn event will come *)
Spawn ==
  \/ child' = "spawning" /\ state' = "starting" /\ UNCHANGED error
  \/ state' = "failed" /\ error' = "spawn" /\ UNCHANGED child

Start ==
  /\ state = "idle"
  /\ Spawn
  /\ UNCHANGED <<helpers, req, ignored, owed, out, noise, init, closing>>

Spawned ==
  /\ child = "spawning"
  /\ child' = "alive"
  /\ state' = IF state = "starting" THEN "running" ELSE state
  /\ UNCHANGED <<error, helpers, req, ignored, owed, out, noise, init, closing>>

SpawnFails ==
  /\ child = "spawning"
  /\ child' = "exited"
  /\ Fail("spawn")
  /\ UNCHANGED <<ignored, owed, out, noise, init, closing>>

ChildExits ==
  /\ child = "dead"
  /\ child' = "exited"
  /\ Fail("exited")
  /\ UNCHANGED <<ignored, owed, out, noise, init, closing>>

(* handleStreamError and every rejected write (a request's, a              *)
(* cancellation's, a reply's), while the process is or was there           *)
TransportFails ==
  /\ child \in {"alive", "dead", "exited"}
  /\ state \notin Terminal
  /\ Fail("transport")
  /\ UNCHANGED <<child, ignored, owed, out, noise, init, closing>>

-----------------------------------------------------------------------------
(* sendRequest: pending before the write, which may fail later *)
Send(id) ==
  /\ req' = [req EXCEPT ![id] = "pending"]
  /\ owed' = owed \union {id}

(* initialize and its handshake: one attempt at a time, and no second one  *)
(* after the first, for the state does not come back to running            *)
Initialize ==
  /\ init = "no"
  /\ \/ state = "idle" /\ Spawn /\ init' = "starting"
     \/ state \in {"starting", "running"} /\ init' = "starting" /\ UNCHANGED <<state, error, child>>
  /\ UNCHANGED <<helpers, req, ignored, owed, out, noise, closing>>

InitializeSends ==
  /\ init = "starting" /\ state # "starting"
  /\ IF state = "running"
     THEN /\ state' = "initializing" /\ init' = "sent"
          /\ Send(HandshakeId)
     ELSE init' = "failed" /\ UNCHANGED <<state, req, owed>>
  /\ UNCHANGED <<error, child, helpers, ignored, out, noise, closing>>

(* the answer: a result the schema or the version check refuses fails the  *)
(* client; a good one is followed by notifications/initialized             *)
InitializeAnswered ==
  /\ init = "sent" /\ req[HandshakeId] # "pending"
  /\ \/ req[HandshakeId] = "answered" /\ CanWrite
        /\ init' = "notify" /\ UNCHANGED <<state, error, req, helpers>>
     \/ init' = "failed" /\ Fail("protocol")
  /\ UNCHANGED <<child, ignored, owed, out, noise, closing>>

InitializedWritten ==
  /\ init = "notify"
  /\ IF state = "initializing"
     THEN state' = "initialized" /\ init' = "done"
     ELSE init' = "failed" /\ UNCHANGED state
  /\ UNCHANGED <<error, child, helpers, req, ignored, owed, out, noise, closing>>

(* assertInitialized *)
Initialized == state = "initialized"

(* request, and ping, listTools and callTool over it: the ids are used in  *)
(* the order of sequence                                                   *)
Request ==
  /\ Initialized
  /\ \E id \in Ids :
       /\ req[id] = "unsent" /\ \A earlier \in 1..(id - 1) : req[earlier] # "unsent"
       /\ Send(id)
  /\ UNCHANGED <<state, error, child, helpers, ignored, out, noise, init, closing>>

(* mutant: the oldest id is forgotten one too early *)
ForgetOneTooEarly(id) ==
  LET longer == Append(ignored, id)
  IN  ignored' = IF Len(longer) < MaxIgnored THEN longer ELSE Tail(longer)

(* rememberIgnoredResponseId *)
RememberIgnored(id) ==
  LET longer == Append(ignored, id)
  IN  ignored' = IF Len(longer) <= MaxIgnored THEN longer ELSE Tail(longer)

(* the timer of a request; what the cancelled notification does is the     *)
(* server's affair, which may answer all the same                          *)
Timeout(id) ==
  /\ req[id] = "pending"
  /\ IF id = HandshakeId
     THEN /\ state' = "failed" /\ error' = "timeout"
          /\ req' = [RejectPending EXCEPT ![id] = "timedOut"]
          /\ SignalGroup /\ UNCHANGED ignored
     ELSE /\ req' = [req EXCEPT ![id] = "timedOut"]
          /\ RememberIgnored(id) /\ UNCHANGED <<state, error, helpers>>
  /\ UNCHANGED <<child, owed, out, noise, init, closing>>

-----------------------------------------------------------------------------
(* handleResponse *)
Respond(id) ==
  \/ /\ req[id] = "pending"
     /\ req' = [req EXCEPT ![id] = "answered"]
     /\ UNCHANGED <<state, error, helpers, ignored>>
  \/ /\ req[id] # "pending"
     /\ \E i \in DOMAIN ignored : ignored[i] = id /\ ignored' = RemoveAt(ignored, i)
     /\ UNCHANGED <<state, error, helpers, req>>
  \/ /\ req[id] # "pending" /\ \A i \in DOMAIN ignored : ignored[i] # id
     /\ Fail("unknownId") /\ UNCHANGED ignored

(* handleStdout and handleFrame, a frame at a time: what is not a          *)
(* response, a request or a notification, or is too long, is fatal         *)
HandleFrame ==
  /\ out # << >>
  /\ out' = Tail(out)
  /\ LET frame == Head(out)
     IN  IF state \in {"failed", "closed"} \/ frame.kind \in {"notification", "request"}
         THEN UNCHANGED <<state, error, req, helpers, ignored>>
         ELSE IF frame.kind = "response" THEN Respond(frame.id)
         ELSE Fail("protocol") /\ UNCHANGED ignored
  /\ UNCHANGED <<child, owed, noise, init, closing>>

(* parseResult: an answer that does not fit its method's schema *)
ResultMismatch ==
  /\ state \notin Terminal
  /\ \E id \in Ids \ {HandshakeId} : req[id] = "answered"
  /\ Fail("protocol")
  /\ UNCHANGED <<child, ignored, owed, out, noise, init, closing>>

-----------------------------------------------------------------------------
(* close and closeInternal *)
Close ==
  /\ closing = "no"
  /\ IF state = "idle" \/ child \in {"none", "exited"}
     THEN state' = "closed" /\ closing' = "done"
     ELSE state' = "closing" /\ closing' = "stdin"
  /\ req' = RejectPending
  /\ IF child = "exited" THEN SignalGroup ELSE UNCHANGED helpers
  /\ UNCHANGED <<error, child, ignored, owed, out, noise, init>>

(* mutant: the group is not signalled after the child exited *)
ChildIsGoneOnly ==
  /\ closing \in {"stdin", "term", "kill"} /\ child = "exited"
  /\ state' = "closed" /\ closing' = "done"
  /\ UNCHANGED <<error, child, helpers, req, ignored, owed, out, noise, init>>

(* waitForExit answers true: the group is signalled once more, for what    *)
(* the child started before it went                                        *)
ChildIsGone ==
  /\ closing \in {"stdin", "term", "kill"} /\ child = "exited"
  /\ state' = "closed" /\ closing' = "done"
  /\ SignalGroup
  /\ UNCHANGED <<error, child, req, ignored, owed, out, noise, init>>

(* waitForExit answers false: the next signal, or the end of the escalation *)
Escalate ==
  /\ \/ closing = "stdin" /\ closing' = "term" /\ SignalGroup /\ UNCHANGED <<state, error>>
     \/ closing = "term" /\ closing' = "kill" /\ SignalGroup /\ UNCHANGED <<state, error>>
     \/ closing = "kill" /\ closing' = "failed" /\ state' = "failed" /\ error' = "closeTimeout"
        /\ UNCHANGED helpers
  /\ UNCHANGED <<child, req, ignored, owed, out, noise, init>>

-----------------------------------------------------------------------------
(* the server *)
Answer(id) ==
  /\ child = "alive" /\ id \in owed
  /\ owed' = owed \ {id} /\ out' = Append(out, [kind |-> "response", id |-> id])
  /\ UNCHANGED <<state, error, child, helpers, req, ignored, noise, init, closing>>

WriteNoise ==
  /\ child = "alive" /\ noise < MaxNoise
  /\ noise' = noise + 1 /\ \E kind \in {"malformed", "notification", "request"} :
                           out' = Append(out, [kind |-> kind, id |-> 0])
  /\ UNCHANGED <<state, error, child, helpers, req, ignored, owed, init, closing>>

StartHelper ==
  /\ child = "alive" /\ helpers = "none"
  /\ helpers' = "running"
  /\ UNCHANGED <<state, error, child, req, ignored, owed, out, noise, init, closing>>

Die ==
  /\ child = "alive"
  /\ child' = "dead"
  /\ UNCHANGED <<state, error, helpers, req, ignored, owed, out, noise, init, closing>>

-----------------------------------------------------------------------------
McpInit ==
  /\ state = "idle" /\ error = "none" /\ child = "none" /\ helpers = "none"
  /\ req = [id \in Ids |-> "unsent"] /\ ignored = << >> /\ owed = {} /\ out = << >>
  /\ noise = 0 /\ init = "no" /\ closing = "no"

McpNext ==
  \/ Start \/ Spawned \/ SpawnFails \/ ChildExits \/ TransportFails
  \/ Initialize \/ InitializeSends \/ InitializeAnswered \/ InitializedWritten
  \/ Request \/ (\E id \in Ids : Timeout(id)) \/ HandleFrame \/ ResultMismatch
  \/ Close \/ ChildIsGone \/ Escalate
  \/ (\E id \in Ids : Answer(id)) \/ WriteNoise \/ StartHelper \/ Die

McpSpec == McpInit /\ [][McpNext]_mcpVars

-----------------------------------------------------------------------------
(* An answer that comes after its request timed out does not end the       *)
(* connection: an id is unknown to handleResponse only after more requests *)
(* timed out than ignoredResponseIds remembers.                            *)
LateAnswersTolerated ==
  error = "unknownId" => Cardinality({id \in Ids : req[id] = "timedOut"}) > MaxIgnored

(* A client whose close returned left nothing running unasked: its child   *)
(* has exited and the helpers of its group were signalled, at whichever    *)
(* stage of the escalation the child went and whatever it started since    *)
(* the last signal.                                                        *)
ClosedMeansExited ==
  state = "closed" => child \in {"none", "exited"} /\ helpers # "running"

=============================================================================
