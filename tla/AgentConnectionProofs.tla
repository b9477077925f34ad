----------------------- MODULE AgentConnectionProofs -----------------------
(***************************************************************************)
(* Proofs about AgentConnection and the agent loop it runs, for any number *)
(* of sessions, replicas, permission requests, tools and lease renewals.   *)
(* That sessions end is model-checked only.                                *)
(***************************************************************************)
EXTENDS AgentConnection, WellFoundedInduction, TLAPS

-----------------------------------------------------------------------------
(* The invariant.                                                          *)

\* The last index at which a log has one of the kinds; 0 for none.
LastIn(events, kinds) ==
  SelectLastInSubSeq(events, 1, Len(events), LAMBDA e : e.kind \in kinds)

\* A session in memory: a request to the client has one answer, an event that
\* could not be recorded aborts the run, what went to the provider named every
\* tool differently, and nothing runs before the prompt.
MemoryInv(x) ==
  /\ DOMAIN x = DOMAIN NoSession
  /\ x.effects \in Nat
  /\ {x.pending, x.failed, x.aborted, x.stored} \subseteq BOOLEAN
  /\ x.pending => x.verdict = "none"
  /\ x.told # "none" => x.verdict = x.told
  /\ x.failed => x.aborted
  /\ x.wire # "none" => Distinct(x.tools)
  /\ x.tool = x.meant
  /\ x.intent \in Intents \cup {"none"}
  /\ x.call # "done" => x.state = "none"
  /\ x.state \in {"none", "created"} => x.pc = "idle" /\ x.wire = "none"

\* Where the loop stands in the calls of a response: the call is in the log with
\* no result yet, and then what was decided about it; what an operator allowed
\* for the run is in the log as well.
Called == Decisions \cup {"await"}

Decided(x, events) ==
  LET i == LastIn(events, Decisions) IN i > LastIn(events, {"call"}) /\ events[i] = Entry(x)

Backed(grants, events) ==
  \A intent \in grants :
    intent \in Commands /\ [kind |-> "allowed", intent |-> intent] \in Range(events)

LogInv(x, events) ==
  /\ x.pc \in Called \/ (x.pc = "call" /\ x.stored) =>
       LastIn(events, {"call"}) > LastIn(events, {"result"})
  /\ x.pc \in Decisions /\ x.stored => Decided(x, events)
  /\ Backed(x.grants, events)

\* A row is created once, and closed for good; what a restore answered, and the
\* marker, come with the closing.
Marked(events) == events # <<>> /\ Last(events).kind = "restored"

Early == {"none", "create", "refused"}
RowInv(s) ==
  /\ Up /\ ses[s].call \in Early => row[s].status = "none"
  /\ row[s].status # "closed" => answers[s] = {} /\ ~Marked(log[s])
  /\ row[s].status = "closed" => \A status \in answers[s] : status = "interrupted" <=> Marked(log[s])

\* A restore works with a row that exists, and with the end of the log that it
\* has seen.
RestoreInv(r) ==
  ~At(r, "idle") =>
    LET x == restore[r]
        s == x.s
    IN  /\ s \in Session /\ row[s].status # "none"
        /\ DOMAIN x = {"at", "s", "status", "lease", "stopped"}
        /\ x.status \in {"active", "closed"}
        /\ x.status = "closed" => row[s].status = "closed"
        /\ x.at \in {"size", "clock", "close", "mark", "status"}
        /\ x.stopped = TRUE \/ x.at = "close" => LastIn(log[s], Stops) > 0
        /\ x.at = "status" => row[s].status = "closed"

Row == [status : {"none", "active", "closed"}, lease : Nat, live : BOOLEAN]
Entries == [kind : Events \cup {"restored"}, intent : Intents \cup {"none"}]

ConnTypes ==
  /\ DOMAIN ses = Session
  /\ row \in [Session -> Row]
  /\ log \in [Session -> Seq(Entries)]
  /\ DOMAIN restore = Replica
  /\ DOMAIN answers = Session

ConnInv ==
  /\ ConnTypes
  /\ \A s \in Session : MemoryInv(ses[s]) /\ LogInv(ses[s], log[s]) /\ RowInv(s)
  /\ \A r \in Replica : RestoreInv(r)

-----------------------------------------------------------------------------
(* The last event of a kind.                                               *)
LEMMA LastOfIs ==
  ASSUME NEW s, NEW kinds
  PROVE  LastOf(s, kinds) = LastIn(log[s], kinds)
  BY DEF LastOf, LastIn

LEMMA LargestIn ==
  ASSUME NEW n \in Nat, NEW S \in SUBSET (1 .. n), S # {}
  PROVE  Max(S) \in S /\ \A i \in S : i <= Max(S)
<1> DEFINE T == {n - i : i \in S}
<1>1. T \in SUBSET Nat /\ T # {}
  <2>1. \A i \in S : n - i \in Nat
    OBVIOUS
  <2> QED
    BY <2>1
<1>2. PICK least \in T : \A other \in T : <<other, least>> \notin OpToRel(<, Nat)
  BY <1>1, NatLessThanWellFounded, WFMin
<1>3. PICK i \in S : least = n - i
  OBVIOUS
<1>4. \A j \in S : n - j \in T /\ n - j \in Nat /\ n - i \in Nat
  BY <1>1
<1>5. \A j \in S : ~(n - j < n - i)
  BY <1>2, <1>3, <1>4 DEF OpToRel
<1>6. \A j \in S : i >= j
  BY <1>4, <1>5
<1>7. Max(S) \in S /\ \A j \in S : Max(S) >= j
  BY <1>6 DEF Max
<1> QED
  BY <1>7

LEMMA LastInIs ==
  ASSUME NEW S, NEW events \in Seq(S), NEW kinds
  PROVE  /\ LastIn(events, kinds) \in 0 .. Len(events)
         /\ LastIn(events, kinds) > 0 <=> \E i \in 1 .. Len(events) : events[i].kind \in kinds
         /\ \A i \in 1 .. Len(events) : events[i].kind \in kinds => i <= LastIn(events, kinds)
<1> DEFINE I == {i \in 1 .. Len(events) : events[i].kind \in kinds}
<1>1. LastIn(events, kinds) = IF I # {} THEN Max(I) ELSE 0
  BY DEF LastIn, SelectLastInSubSeq
<1>2. Len(events) \in Nat
  OBVIOUS
<1>3. I # {} => Max(I) \in I /\ \A i \in I : i <= Max(I)
  BY <1>2, LargestIn
<1> QED
  BY <1>1, <1>2, <1>3

LEMMA LastInAppend ==
  ASSUME NEW S, NEW events \in Seq(S), NEW e \in S, NEW kinds
  PROVE  LastIn(Append(events, e), kinds) =
           IF e.kind \in kinds THEN Len(events) + 1 ELSE LastIn(events, kinds)
<1> DEFINE longer == Append(events, e)
           I == {i \in 1 .. Len(events) : events[i].kind \in kinds}
           J == {i \in 1 .. Len(longer) : longer[i].kind \in kinds}
<1>1. /\ longer \in Seq(S) /\ Len(events) \in Nat /\ Len(longer) = Len(events) + 1
      /\ longer[Len(events) + 1] = e /\ \A i \in 1 .. Len(events) : longer[i] = events[i]
  OBVIOUS
<1> HIDE DEF longer
<1>2. CASE e.kind \in kinds
  <2>1. /\ LastIn(longer, kinds) \in 0 .. Len(events) + 1
        /\ \A i \in 1 .. Len(events) + 1 : longer[i].kind \in kinds => i <= LastIn(longer, kinds)
    BY <1>1, LastInIs
  <2>2. Len(events) + 1 <= LastIn(longer, kinds)
    BY <1>1, <1>2, <2>1
  <2> QED
    BY <1>1, <1>2, <2>1, <2>2 DEF longer
<1>3. CASE e.kind \notin kinds
  <2>1. J = I
    BY <1>1, <1>3
  <2>2. LastIn(longer, kinds) = IF J # {} THEN Max(J) ELSE 0
    BY DEF LastIn, SelectLastInSubSeq
  <2>3. LastIn(events, kinds) = IF I # {} THEN Max(I) ELSE 0
    BY DEF LastIn, SelectLastInSubSeq
  <2> QED
    BY <1>3, <2>1, <2>2, <2>3 DEF longer
<1> QED
  BY <1>2, <1>3

LEMMA LogsHave ==
  ASSUME ConnInv, NEW s \in Session
  PROVE  /\ log[s] \in Seq(Entries) /\ Len(log[s]) \in Nat /\ row[s] \in Row
         /\ \A kinds : LastIn(log[s], kinds) \in 0 .. Len(log[s])
<1>1. log[s] \in Seq(Entries) /\ row[s] \in Row
  BY DEF ConnInv, ConnTypes
<1> QED
  BY <1>1, LastInIs

-----------------------------------------------------------------------------
(* A step of one session's memory.                                         *)

\* What holds when the effect of a tool begins.
Begun(s) ==
  /\ ~ses[s].aborted /\ ~ses[s].failed
  /\ LastOf(s, {"call"}) > LastOf(s, {"result"})
  /\ Authorized(s)
  /\ ses[s].tool = ses[s].meant

EffectsBegun == \A s \in Session : ses'[s].effects > ses[s].effects => Begun(s)

LEMMA MemoryMoves ==
  ASSUME ConnInv, NEW s \in Session, NEW y, ses' = [ses EXCEPT ![s] = y],
         UNCHANGED <<row, log, others>>, MemoryInv(y), LogInv(y, log[s]),
         y.call \in Early => ses[s].call \in Early,
         y.effects > ses[s].effects => Begun(s)
  PROVE  ConnInv' /\ EffectsBegun
<1>1. /\ DOMAIN ses = Session /\ DOMAIN ses' = Session /\ ses'[s] = y
      /\ \A t \in Session : t # s => ses'[t] = ses[t]
  BY DEF ConnInv, ConnTypes
<1>2. /\ row' = row /\ log' = log /\ conn' = conn /\ restore' = restore /\ answers' = answers
  BY DEF others
<1>3. ConnTypes'
  BY <1>1, <1>2 DEF ConnInv, ConnTypes
<1>4. ASSUME NEW t \in Session
      PROVE  MemoryInv(ses'[t]) /\ LogInv(ses'[t], log'[t]) /\ RowInv(t)'
  <2>1. MemoryInv(ses[t]) /\ LogInv(ses[t], log[t]) /\ RowInv(t)
    BY DEF ConnInv
  <2>2. MemoryInv(ses'[t]) /\ LogInv(ses'[t], log'[t])
    BY <1>1, <1>2, <2>1
  <2>3. ses'[t].call \in Early => ses[t].call \in Early
    BY <1>1
  <2> QED
    BY <1>2, <2>1, <2>2, <2>3 DEF RowInv, Up
<1>5. ASSUME NEW r \in Replica PROVE RestoreInv(r)'
  BY <1>2 DEF ConnInv, RestoreInv, At
<1>6. ASSUME NEW t \in Session, ses'[t].effects > ses[t].effects PROVE Begun(t)
  <2>1. ses[t].effects \in Nat
    BY DEF ConnInv, MemoryInv
  <2> QED
    BY <1>1, <1>6, <2>1
<1> QED
  BY <1>3, <1>4, <1>5, <1>6 DEF ConnInv, EffectsBegun

\* The loop goes on with a memory that differs from the session's in what the
\* step has changed.
Follows(s, x) ==
  /\ MemoryInv(x)
  /\ x.state = ses[s].state /\ x.call = ses[s].call
  /\ x.effects > ses[s].effects => Begun(s)
  /\ Backed(x.grants, log[s])

Running(s) == ses[s].state \notin {"none", "created"}
InCall(s) == ses[s].pc \in Called \/ (ses[s].pc = "call" /\ ses[s].stored)

LEMMA GoesOn ==
  ASSUME ConnInv, NEW s \in Session, NEW x, NEW l, Goto(s, x, l), UNCHANGED others,
         Follows(s, x), Running(s), l \in Called => InCall(s)
  PROVE  ConnInv' /\ EffectsBegun
<1> DEFINE y == [x EXCEPT !.pc = l, !.stored = FALSE]
<1>1. ses' = [ses EXCEPT ![s] = y] /\ UNCHANGED <<row, log>>
  BY DEF Goto
<1>2. DOMAIN NoSession = DOMAIN x /\ {"pc", "stored"} \subseteq DOMAIN x
  BY DEF Follows, MemoryInv, NoSession
<1>3. /\ DOMAIN y = DOMAIN x /\ y.pc = l /\ y.stored = FALSE
      /\ \A f \in DOMAIN x : f \notin {"pc", "stored"} => y[f] = x[f]
  BY <1>2
<1> HIDE DEF y
<1>4. MemoryInv(y)
  <2>1. {"effects", "pending", "failed", "aborted", "verdict", "told", "wire", "tools", "tool",
         "meant", "intent", "call", "state"}
          \subseteq DOMAIN x
    BY <1>2 DEF NoSession
  <2> QED
    BY <1>2, <1>3, <2>1 DEF Follows, MemoryInv, Running
<1>5. LogInv(y, log[s])
  <2>1. LogInv(ses[s], log[s])
    BY DEF ConnInv
  <2> QED
    BY <1>2, <1>3, <2>1 DEF LogInv, InCall, Called, Decisions, Follows, NoSession
<1>6. y.call = x.call /\ y.effects = x.effects
  BY <1>2, <1>3 DEF NoSession
<1> QED
  BY <1>1, <1>4, <1>5, <1>6, MemoryMoves DEF Follows

-----------------------------------------------------------------------------
(* The memories the loop goes on with.                                     *)
Fields == {"effects", "pending", "failed", "aborted", "stored", "verdict", "told", "wire", "tools",
           "tool", "meant", "intent", "grants", "call", "state", "pc"}

LEMMA Watched ==
  ASSUME ConnInv, NEW s \in Session
  PROVE  /\ MemoryInv(ses[s]) /\ LogInv(ses[s], log[s]) /\ RowInv(s)
         /\ DOMAIN ses[s] = DOMAIN NoSession /\ Fields \subseteq DOMAIN ses[s]
         /\ {"steps", "plan", "void", "calls", "ok", "asks", "granted"} \subseteq DOMAIN ses[s]
<1>1. MemoryInv(ses[s]) /\ LogInv(ses[s], log[s]) /\ RowInv(s)
  BY DEF ConnInv
<1>2. DOMAIN ses[s] = DOMAIN NoSession
  BY <1>1 DEF MemoryInv
<1> QED
  BY <1>1, <1>2 DEF Fields, NoSession

LEMMA Itself ==
  ASSUME ConnInv, NEW s \in Session
  PROVE  Follows(s, ses[s])
  BY Watched DEF Follows, MemoryInv, LogInv

LEMMA RunsOn ==
  ASSUME ConnInv, NEW s \in Session, ses[s].pc # "idle" \/ ses[s].wire # "none"
  PROVE  Running(s)
  BY Watched DEF MemoryInv, Running

\* Fields the invariant does not look at.
LEMMA Alike ==
  ASSUME NEW s, NEW w, Follows(s, w), NEW x, DOMAIN x = DOMAIN w, \A f \in Fields : x[f] = w[f]
  PROVE  Follows(s, x)
<1>1. /\ x.effects = w.effects /\ x.pending = w.pending /\ x.failed = w.failed
      /\ x.aborted = w.aborted /\ x.stored = w.stored /\ x.verdict = w.verdict
      /\ x.told = w.told /\ x.intent = w.intent /\ x.grants = w.grants /\ x.wire = w.wire
      /\ x.tools = w.tools
      /\ x.tool = w.tool /\ x.meant = w.meant /\ x.call = w.call
      /\ x.state = w.state /\ x.pc = w.pc
  BY DEF Fields
<1>2. MemoryInv(x)
  BY <1>1 DEF Follows, MemoryInv
<1> QED
  BY <1>1, <1>2 DEF Follows

LEMMA Counted ==
  ASSUME NEW s, NEW w, Follows(s, w), NEW v
  PROVE  /\ Follows(s, [w EXCEPT !.steps = v])
         /\ Follows(s, [w EXCEPT !.calls = v])
         /\ Follows(s, [w EXCEPT !.asks = v])
         /\ Follows(s, [w EXCEPT !.void = v])
<1>0. Fields \subseteq DOMAIN w
  BY DEF Follows, MemoryInv, NoSession, Fields
<1>1. Follows(s, [w EXCEPT !.steps = v])
  <2> DEFINE x == [w EXCEPT !.steps = v]
  <2>1. DOMAIN x = DOMAIN w /\ \A f \in Fields : x[f] = w[f]
    BY <1>0 DEF Fields
  <2> QED
    BY <2>1, Alike
<1>2. Follows(s, [w EXCEPT !.calls = v])
  <2> DEFINE x == [w EXCEPT !.calls = v]
  <2>1. DOMAIN x = DOMAIN w /\ \A f \in Fields : x[f] = w[f]
    BY <1>0 DEF Fields
  <2> QED
    BY <2>1, Alike
<1>3. Follows(s, [w EXCEPT !.asks = v])
  <2> DEFINE x == [w EXCEPT !.asks = v]
  <2>1. DOMAIN x = DOMAIN w /\ \A f \in Fields : x[f] = w[f]
    BY <1>0 DEF Fields
  <2> QED
    BY <2>1, Alike
<1>4. Follows(s, [w EXCEPT !.void = v])
  <2> DEFINE x == [w EXCEPT !.void = v]
  <2>1. DOMAIN x = DOMAIN w /\ \A f \in Fields : x[f] = w[f]
    BY <1>0 DEF Fields
  <2> QED
    BY <2>1, Alike
<1> QED
  BY <1>1, <1>2, <1>3, <1>4

LEMMA Intended ==
  ASSUME ConnInv, NEW s \in Session, NEW v \in Intents
  PROVE  Follows(s, [ses[s] EXCEPT !.intent = v])
<1> DEFINE x == ses[s]  y == [x EXCEPT !.intent = v]
<1>1. Follows(s, x) /\ Fields \subseteq DOMAIN x
  BY Itself, Watched
<1>2. DOMAIN y = DOMAIN x /\ y.intent = v /\ \A f \in Fields : f # "intent" => y[f] = x[f]
  BY <1>1 DEF Fields
<1> HIDE DEF y
<1>3. /\ y.effects = x.effects /\ y.pending = x.pending /\ y.failed = x.failed
      /\ y.aborted = x.aborted /\ y.stored = x.stored /\ y.verdict = x.verdict
      /\ y.told = x.told /\ y.grants = x.grants /\ y.wire = x.wire /\ y.tools = x.tools
      /\ y.tool = x.tool /\ y.meant = x.meant /\ y.call = x.call /\ y.state = x.state
      /\ y.pc = x.pc
  BY <1>2 DEF Fields
<1>4. MemoryInv(y)
  BY <1>1, <1>2, <1>3 DEF Follows, MemoryInv
<1>5. Follows(s, y)
  BY <1>1, <1>3, <1>4 DEF Follows
<1> QED
  BY <1>5 DEF y

\* The result of a call is durable, and what was asked about it is over.
LEMMA Forgotten ==
  ASSUME ConnInv, NEW s \in Session
  PROVE  Follows(s, [ses[s] EXCEPT !.calls = @ + 1, !.intent = "none", !.told = "none",
                                   !.verdict = "none"])
<1> DEFINE x == ses[s]
           y == [x EXCEPT !.calls = @ + 1, !.intent = "none", !.told = "none", !.verdict = "none"]
<1>1. Follows(s, x) /\ Fields \subseteq DOMAIN x /\ "calls" \in DOMAIN x
  BY Itself, Watched
<1>2. /\ DOMAIN y = DOMAIN x /\ y.intent = "none" /\ y.told = "none" /\ y.verdict = "none"
      /\ \A f \in Fields : f \notin {"intent", "told", "verdict"} => y[f] = x[f]
  BY <1>1 DEF Fields
<1> HIDE DEF y
<1>3. /\ y.effects = x.effects /\ y.pending = x.pending /\ y.failed = x.failed
      /\ y.aborted = x.aborted /\ y.stored = x.stored /\ y.grants = x.grants
      /\ y.wire = x.wire /\ y.tools = x.tools /\ y.tool = x.tool /\ y.meant = x.meant
      /\ y.call = x.call /\ y.state = x.state /\ y.pc = x.pc
  BY <1>2 DEF Fields
<1>4. MemoryInv(y)
  BY <1>1, <1>2, <1>3 DEF Follows, MemoryInv
<1>5. Follows(s, y)
  BY <1>1, <1>3, <1>4 DEF Follows
<1> QED
  BY <1>5 DEF y

LEMMA Planned ==
  ASSUME ConnInv, NEW s \in Session, NEW x, Follows(s, x), NEW plan
  PROVE  Follows(s, [x EXCEPT !.plan = plan, !.wire = "none"])
<1> DEFINE y == [x EXCEPT !.plan = plan, !.wire = "none"]
<1>1. /\ DOMAIN x = DOMAIN NoSession /\ "wire" \in DOMAIN x /\ "plan" \in DOMAIN x
      /\ Fields \subseteq DOMAIN x
  BY DEF Follows, MemoryInv, NoSession, Fields
<1>2. DOMAIN y = DOMAIN x /\ y.wire = "none" /\ \A f \in Fields : f # "wire" => y[f] = x[f]
  BY <1>1 DEF Fields
<1> HIDE DEF y
<1>3. /\ y.effects = x.effects /\ y.pending = x.pending /\ y.failed = x.failed
      /\ y.aborted = x.aborted /\ y.stored = x.stored /\ y.verdict = x.verdict
      /\ y.told = x.told /\ y.intent = x.intent /\ y.grants = x.grants /\ y.tool = x.tool
      /\ y.meant = x.meant /\ y.call = x.call
      /\ y.state = x.state /\ y.pc = x.pc
  BY <1>2 DEF Fields
<1>4. MemoryInv(y)
  BY <1>1, <1>2, <1>3 DEF Follows, MemoryInv
<1> QED
  BY <1>3, <1>4 DEF Follows, y

\* A new request to the client has no answer yet, or the one an abort gives it.
LEMMA Asked ==
  ASSUME ConnInv, NEW s \in Session
  PROVE  Follows(s, Ask(ses[s]))
<1> DEFINE x == ses[s]  y == Ask(ses[s])
<1>1. /\ MemoryInv(x) /\ LogInv(x, log[s]) /\ Fields \subseteq DOMAIN x
      /\ "asks" \in DOMAIN x /\ x.effects \in Nat
  BY Watched DEF MemoryInv
<1>2. /\ DOMAIN y = DOMAIN x /\ y.told = "none" /\ y.pending = ~x.aborted
      /\ y.verdict = IF x.aborted THEN "deny" ELSE "none"
      /\ \A f \in Fields : f \notin {"told", "pending", "verdict"} => y[f] = x[f]
  BY <1>1 DEF Ask, Fields
<1> HIDE DEF y
<1>3. /\ y.effects = x.effects /\ y.failed = x.failed /\ y.aborted = x.aborted
      /\ y.stored = x.stored /\ y.intent = x.intent /\ y.grants = x.grants
      /\ y.wire = x.wire /\ y.tools = x.tools /\ y.tool = x.tool
      /\ y.meant = x.meant /\ y.call = x.call /\ y.state = x.state /\ y.pc = x.pc
  BY <1>2 DEF Fields
<1>4. MemoryInv(y)
  BY <1>1, <1>2, <1>3 DEF MemoryInv
<1>5. Backed(x.grants, log[s])
  BY <1>1 DEF LogInv
<1> QED
  BY <1>1, <1>3, <1>4, <1>5 DEF Follows, y

-----------------------------------------------------------------------------
(* The steps of the loop.                                                  *)
LEMMA NextTurnInv ==
  ASSUME ConnInv, NEW s \in Session, NEW x, Follows(s, x), Running(s),
         NextTurn(s, x), UNCHANGED others
  PROVE  ConnInv' /\ EffectsBegun
<1>1. Follows(s, [x EXCEPT !.steps = @ + 1])
  BY Counted
<1>2. CASE Goto(s, x, "stopFailed") \/ Goto(s, x, "stopCanceled")
  BY <1>2, GoesOn DEF Called, Decisions
<1>3. CASE Goto(s, [x EXCEPT !.steps = @ + 1], "request")
  BY <1>1, <1>3, GoesOn DEF Called, Decisions
<1> QED
  BY <1>2, <1>3 DEF NextTurn

LEMMA NextCallInv ==
  ASSUME ConnInv, NEW s \in Session, NEW x, Follows(s, x), Running(s),
         NextCall(s, x), UNCHANGED others
  PROVE  ConnInv' /\ EffectsBegun
<1>1. Goto(s, x, "stopCanceled") \/ Goto(s, x, "warning") \/ Goto(s, x, "call")
  BY DEF NextCall
<1> QED
  BY <1>1, GoesOn DEF Called, Decisions

LEMMA ReceiveInv ==
  ASSUME ConnInv, NEW s \in Session, NEW x, Follows(s, x), Running(s), NEW plan,
         Receive(s, x, plan), UNCHANGED others
  PROVE  ConnInv' /\ EffectsBegun
<1> DEFINE y == [x EXCEPT !.plan = plan, !.wire = "none"]
<1>1. Follows(s, y)
  BY Planned
<1>2. Goto(s, y, "responseError") \/ Goto(s, y, "response")
  BY DEF Receive
<1> HIDE DEF y
<1> QED
  BY <1>1, <1>2, GoesOn DEF Called, Decisions

\* A grant for the run rests on an answer that is in the log.
LEMMA GrantInv ==
  ASSUME ConnInv, NEW s \in Session, Recorded(s, "allowed")
  PROVE  Follows(s, Grant(ses[s]))
<1> DEFINE x == ses[s]  added == {x.intent} \cap Commands  y == [x EXCEPT !.grants = @ \cup added]
<1>1. MemoryInv(x) /\ LogInv(x, log[s]) /\ Fields \subseteq DOMAIN x /\ x.effects \in Nat
  BY Watched DEF MemoryInv
<1>2. /\ DOMAIN y = DOMAIN x /\ y.grants = x.grants \cup added
      /\ \A f \in Fields : f # "grants" => y[f] = x[f]
  BY <1>1 DEF Fields
<1>3. y = Grant(ses[s])
  BY DEF Grant
<1>4. Backed(x.grants \cup added, log[s])
  <2>1. Decided(x, log[s]) /\ x.pc = "allowed" /\ Backed(x.grants, log[s])
    BY <1>1 DEF LogInv, Recorded, Decisions
  <2> DEFINE i == LastIn(log[s], Decisions)  j == LastIn(log[s], {"call"})
  <2>a. i > j /\ log[s][i] = Entry(x)
    BY <2>1 DEF Decided
  <2>b. i \in 0 .. Len(log[s]) /\ j \in 0 .. Len(log[s])
    BY LogsHave
  <2>c. DOMAIN log[s] = 1 .. Len(log[s]) /\ Len(log[s]) \in Nat
    BY LogsHave
  <2>d. Entry(x) = [kind |-> "allowed", intent |-> x.intent]
    BY <2>1 DEF Entry
  <2> HIDE DEF i, j, x
  <2>2. i \in DOMAIN log[s] /\ log[s][i] = [kind |-> "allowed", intent |-> x.intent]
    BY <2>a, <2>b, <2>c, <2>d
  <2> QED
    BY <2>1, <2>2 DEF Backed, Range
<1> HIDE DEF y, added
<1>5. /\ y.effects = x.effects /\ y.pending = x.pending /\ y.failed = x.failed
      /\ y.aborted = x.aborted /\ y.stored = x.stored /\ y.verdict = x.verdict
      /\ y.told = x.told /\ y.intent = x.intent /\ y.wire = x.wire /\ y.tools = x.tools
      /\ y.tool = x.tool /\ y.meant = x.meant /\ y.call = x.call /\ y.state = x.state
      /\ y.pc = x.pc
  BY <1>2 DEF Fields
<1>6. MemoryInv(y)
  BY <1>1, <1>2, <1>5 DEF MemoryInv
<1>7. Follows(s, y)
  BY <1>1, <1>2, <1>4, <1>5, <1>6 DEF Follows
<1> QED
  BY <1>3, <1>7

\* A tool begins behind the durability fence.
LEMMA ExecuteInv ==
  ASSUME ConnInv, NEW s \in Session, ses[s].stored,
         \/ ses[s].pc \in {"policyAllow", "allowed"}
         \/ ses[s].pc = "policyAsk" /\ HasRunGrant(ses[s], ses[s].intent),
         NEW x, Follows(s, x), x.aborted = ses[s].aborted, x.effects = ses[s].effects,
         Execute(s, x), UNCHANGED others
  PROVE  ConnInv' /\ EffectsBegun
<1> DEFINE y == [x EXCEPT !.effects = @ + 1]
<1>1. /\ MemoryInv(ses[s]) /\ LogInv(ses[s], log[s]) /\ MemoryInv(x) /\ Fields \subseteq DOMAIN x
      /\ Running(s) /\ ses[s].pc \in Decisions
  BY Watched, RunsOn DEF Decisions, Follows, MemoryInv, Fields, NoSession
<1>2. CASE x.aborted /\ Goto(s, x, "stopCanceled")
  BY <1>1, <1>2, GoesOn DEF Called, Decisions
<1>3. CASE ~x.aborted /\ Goto(s, y, "exec")
  <2>1. Begun(s)
    <3>1. Decided(ses[s], log[s]) /\ Backed(ses[s].grants, log[s])
      BY <1>1 DEF LogInv
    <3>2. Authorized(s)
      BY <3>1, LastOfIs DEF Authorized, Decided, Entry, Backed, HasRunGrant
    <3> QED
      BY <1>1, <1>3, <3>2, LastOfIs DEF Begun, MemoryInv, LogInv, Called, Decisions
  <2>2. DOMAIN y = DOMAIN x /\ y.effects = x.effects + 1 /\ \A f \in Fields : f # "effects" => y[f] = x[f]
    BY <1>1 DEF Fields
  <2> HIDE DEF y
  <2>3. /\ y.pending = x.pending /\ y.failed = x.failed /\ y.aborted = x.aborted
        /\ y.stored = x.stored /\ y.verdict = x.verdict /\ y.told = x.told /\ y.wire = x.wire
        /\ y.intent = x.intent /\ y.grants = x.grants /\ y.tools = x.tools /\ y.tool = x.tool
        /\ y.meant = x.meant /\ y.call = x.call /\ y.state = x.state /\ y.pc = x.pc
    BY <2>2 DEF Fields
  <2>4. MemoryInv(y)
    BY <1>1, <2>2, <2>3 DEF MemoryInv
  <2>5. Follows(s, y)
    BY <2>1, <2>3, <2>4 DEF Follows
  <2> QED
    BY <1>1, <1>3, <2>5, GoesOn DEF Called, Decisions, y
<1> QED
  BY <1>2, <1>3 DEF Execute

\* What is said of a request that the provider may take.
LEMMA RequestedInv ==
  ASSUME ConnInv, NEW s \in Session, Requested(s), UNCHANGED others
  PROVE  ConnInv' /\ EffectsBegun
<1> DEFINE x == ses[s]  y == [x EXCEPT !.wire = "sent"]
<1>1. /\ MemoryInv(x) /\ Fields \subseteq DOMAIN x /\ Running(s) /\ x.effects \in Nat
      /\ Backed(x.grants, log[s])
  BY Watched, RunsOn DEF LogInv, Requested, Recorded, MemoryInv
<1>2. CASE Receive(s, x, "threw")
  BY <1>1, <1>2, Itself, ReceiveInv
<1>3. CASE Distinct(x.tools) /\ Goto(s, y, "model")
  <2>1. DOMAIN y = DOMAIN x /\ y.wire = "sent" /\ \A f \in Fields : f # "wire" => y[f] = x[f]
    BY <1>1 DEF Fields
  <2> HIDE DEF y
  <2>2. /\ y.effects = x.effects /\ y.pending = x.pending /\ y.failed = x.failed
        /\ y.aborted = x.aborted /\ y.stored = x.stored /\ y.verdict = x.verdict
        /\ y.told = x.told /\ y.intent = x.intent /\ y.grants = x.grants /\ y.tools = x.tools
        /\ y.tool = x.tool /\ y.meant = x.meant
        /\ y.call = x.call /\ y.state = x.state /\ y.pc = x.pc
    BY <2>1 DEF Fields
  <2>3. MemoryInv(y)
    BY <1>1, <1>3, <2>1, <2>2 DEF MemoryInv, Running
  <2>4. Follows(s, y)
    BY <1>1, <2>2, <2>3 DEF Follows
  <2> QED
    BY <1>1, <1>3, <2>4, GoesOn DEF Called, Decisions, y
<1> QED
  BY <1>2, <1>3 DEF Requested, Sendable, ToolsMap

\* The tool of a call is the one whose name the provider was shown.
LEMMA NamesTool ==
  ASSUME NEW tools, Distinct(tools), NEW wire, NEW meant,
         LET shown == {t \in tools : Alias(t) = wire}
         IN  meant \in IF shown = {} THEN {wire} ELSE shown
  PROVE  Canonical(tools, wire) = meant
<1>1. CASE {t \in tools : Alias(t) = wire} = {}
  BY <1>1 DEF Canonical
<1>2. CASE {t \in tools : Alias(t) = wire} # {}
  <2>1. meant \in tools /\ Alias(meant) = wire /\ \A t \in tools : Alias(t) = wire => t = meant
    BY <1>2 DEF Distinct
  <2> QED
    BY <2>1 DEF Canonical
<1> QED
  BY <1>1, <1>2

LEMMA ProviderInv ==
  ASSUME ConnInv, NEW s \in Session, Provider(s), UNCHANGED others
  PROVE  ConnInv' /\ EffectsBegun
<1> DEFINE x == ses[s]
<1>1. /\ MemoryInv(x) /\ LogInv(x, log[s]) /\ Fields \subseteq DOMAIN x /\ Running(s)
      /\ x.effects \in Nat /\ Distinct(x.tools)
  BY Watched, RunsOn DEF Provider, ProviderResponds, ProviderAnswers, MemoryInv
<1>2. ASSUME NEW plan, Receive(s, x, plan)
      PROVE  ConnInv' /\ EffectsBegun
  BY <1>1, <1>2, Itself, ReceiveInv
<1>3. CASE ses' = [ses EXCEPT ![s].wire = "reading"] /\ UNCHANGED <<row, log>>
  <2> DEFINE y == [x EXCEPT !.wire = "reading"]
  <2>1. DOMAIN y = DOMAIN x /\ y.wire = "reading" /\ \A f \in Fields : f # "wire" => y[f] = x[f]
    BY <1>1 DEF Fields
  <2>2. ses' = [ses EXCEPT ![s] = y]
    BY <1>3
  <2>6. UNCHANGED <<row, log, others>>
    BY <1>3
  <2> HIDE DEF y
  <2>3. /\ y.effects = x.effects /\ y.pending = x.pending /\ y.failed = x.failed
        /\ y.aborted = x.aborted /\ y.stored = x.stored /\ y.verdict = x.verdict
        /\ y.told = x.told /\ y.intent = x.intent /\ y.grants = x.grants /\ y.tools = x.tools
        /\ y.tool = x.tool /\ y.meant = x.meant
        /\ y.call = x.call /\ y.state = x.state /\ y.pc = x.pc
    BY <2>1 DEF Fields
  <2>4. MemoryInv(y)
    BY <1>1, <2>1, <2>3 DEF MemoryInv, Running
  <2>5. LogInv(y, log[s])
    BY <1>1, <2>3 DEF LogInv, Decided, Entry
  <2>7. /\ y.call \in Early => ses[s].call \in Early
        /\ y.effects > ses[s].effects => Begun(s)
    BY <1>1, <2>3
  <2> QED
    BY <2>2, <2>4, <2>5, <2>6, <2>7, MemoryMoves
<1>4. ASSUME NEW wire, NEW meant, Canonical(x.tools, wire) = meant,
             Receive(s, [x EXCEPT !.tool = Canonical(x.tools, wire), !.meant = meant], "calls")
      PROVE  ConnInv' /\ EffectsBegun
  <2> DEFINE y == [x EXCEPT !.tool = Canonical(x.tools, wire), !.meant = meant]
  <2>1. /\ DOMAIN y = DOMAIN x /\ y.tool = meant /\ y.meant = meant
        /\ \A f \in Fields : f \notin {"tool", "meant"} => y[f] = x[f]
    BY <1>1, <1>4 DEF Fields
  <2> HIDE DEF y
  <2>2. /\ y.effects = x.effects /\ y.pending = x.pending /\ y.failed = x.failed
        /\ y.aborted = x.aborted /\ y.stored = x.stored /\ y.verdict = x.verdict
        /\ y.told = x.told /\ y.intent = x.intent /\ y.grants = x.grants /\ y.wire = x.wire
        /\ y.tools = x.tools
        /\ y.call = x.call /\ y.state = x.state /\ y.pc = x.pc
    BY <2>1 DEF Fields
  <2>3. MemoryInv(y)
    BY <1>1, <2>1, <2>2 DEF MemoryInv
  <2>4. Follows(s, y)
    BY <1>1, <2>2, <2>3 DEF Follows, LogInv
  <2> QED
    BY <1>1, <1>4, <2>4, ReceiveInv DEF y
<1>5. CASE ProviderResponds(s)
  BY <1>2, <1>3, <1>5 DEF ProviderResponds
<1>6. CASE ProviderAnswers(s)
  <2>1. PICK reply \in Replies(Wires) : \E plan \in Plans(x, reply) :
           IF plan # "calls" THEN Receive(s, x, plan)
           ELSE LET wire  == reply.calls[1].wire
                    shown == {t \in x.tools : Alias(t) = wire}
                IN  \E meant \in IF shown = {} THEN {wire} ELSE shown :
                      Receive(s, [x EXCEPT !.tool = Canonical(x.tools, wire), !.meant = meant], plan)
    BY <1>6 DEF ProviderAnswers
  <2>2. PICK plan \in Plans(x, reply) :
           IF plan # "calls" THEN Receive(s, x, plan)
           ELSE LET wire  == reply.calls[1].wire
                    shown == {t \in x.tools : Alias(t) = wire}
                IN  \E meant \in IF shown = {} THEN {wire} ELSE shown :
                      Receive(s, [x EXCEPT !.tool = Canonical(x.tools, wire), !.meant = meant], plan)
    BY <2>1
  <2>3. CASE plan # "calls"
    BY <1>2, <2>2, <2>3
  <2>4. CASE plan = "calls"
    <3> DEFINE wire  == reply.calls[1].wire
               shown == {t \in x.tools : Alias(t) = wire}
    <3>1. PICK meant \in IF shown = {} THEN {wire} ELSE shown :
             Receive(s, [x EXCEPT !.tool = Canonical(x.tools, wire), !.meant = meant], "calls")
      BY <2>2, <2>4
    <3>2. Canonical(x.tools, wire) = meant
      <4> HIDE DEF x, wire
      <4> QED
        BY <1>1, <3>1, NamesTool
    <3> HIDE DEF wire
    <3> QED
      BY <1>4, <3>1, <3>2
  <2> QED
    BY <2>3, <2>4
<1> QED
  BY <1>5, <1>6 DEF Provider

LEMMA AskInv ==
  ASSUME ConnInv, NEW s \in Session, UNCHANGED others,
         \/ AskRecorded(s) \/ PermissionSettled(s)
         \/ SandboxAsks(s) \/ SandboxPolicyRecorded(s) \/ SandboxAskRecorded(s)
         \/ SandboxPermissionSettled(s) \/ SandboxResolutionRecorded(s)
  PROVE  ConnInv' /\ EffectsBegun
<1>1. /\ Running(s) /\ Follows(s, ses[s]) /\ Follows(s, Ask(ses[s]))
      /\ \A v : Follows(s, [ses[s] EXCEPT !.void = v]) /\ Follows(s, [ses[s] EXCEPT !.asks = v])
      /\ \A v \in Intents : Follows(s, [ses[s] EXCEPT !.intent = v])
  <2>1. Running(s)
    BY RunsOn DEF AskRecorded, PermissionSettled, SandboxAsks, SandboxPolicyRecorded,
       SandboxAskRecorded,
                  SandboxPermissionSettled, SandboxResolutionRecorded, Recorded
  <2> QED
    BY <2>1, Itself, Asked, Counted, Intended
<1>2. CASE AskRecorded(s)
  <2>1. InCall(s)
    BY <1>2 DEF AskRecorded, Recorded, InCall, Called, Decisions
  <2>2. \/ Goto(s, ses[s], "await")
        \/ Goto(s, [ses[s] EXCEPT !.void = TRUE], "denied")
    BY <1>2 DEF AskRecorded, Resolved
  <2> QED
    BY <1>1, <2>1, <2>2, GoesOn
<1>3. CASE PermissionSettled(s)
  <2>1. InCall(s)
    BY <1>3 DEF PermissionSettled, InCall, Called, Decisions
  <2>2. \/ Goto(s, ses[s], "allowed") \/ Goto(s, ses[s], "denied")
        \/ Goto(s, [ses[s] EXCEPT !.void = TRUE], "denied")
    BY <1>3 DEF PermissionSettled, Resolved
  <2> QED
    BY <1>1, <2>1, <2>2, GoesOn
<1>4. CASE SandboxAsks(s) \/ SandboxPolicyRecorded(s)
  <2>1. \/ \E intent \in Intents : Goto(s, [ses[s] EXCEPT !.intent = intent], "inPolicy")
        \/ Goto(s, ses[s], "inAsked")
        \/ Goto(s, [ses[s] EXCEPT !.asks = ses[s].asks + 1], "exec")
    BY <1>4 DEF SandboxAsks, SandboxPolicyRecorded, Intents
  <2> QED
    BY <1>1, <2>1, GoesOn DEF Called, Decisions
<1>5. CASE SandboxAskRecorded(s)
  BY <1>1, <1>5, GoesOn DEF SandboxAskRecorded, Called, Decisions
<1>6. CASE SandboxPermissionSettled(s) \/ SandboxResolutionRecorded(s)
  <2>1. \/ Goto(s, ses[s], "inAllowed") \/ Goto(s, ses[s], "inDenied") \/ Goto(s, ses[s], "exec")
        \/ Goto(s, [ses[s] EXCEPT !.void = ses[s].aborted], "result")
    BY <1>6 DEF SandboxPermissionSettled, SandboxResolutionRecorded
  <2> QED
    BY <1>1, <2>1, GoesOn DEF Called, Decisions
<1> QED
  BY <1>2, <1>3, <1>4, <1>5, <1>6

LEMMA CallInv ==
  ASSUME ConnInv, NEW s \in Session, UNCHANGED others,
         CallRecorded(s) \/ PolicyRecorded(s) \/ ResolutionRecorded(s)
  PROVE  ConnInv' /\ EffectsBegun
<1>1. /\ Running(s) /\ Follows(s, ses[s]) /\ Follows(s, Ask(ses[s])) /\ InCall(s) /\ ses[s].stored
      /\ \A v \in Intents : Follows(s, [ses[s] EXCEPT !.intent = v])
  <2>1. ses[s].pc # "idle" /\ InCall(s) /\ ses[s].stored
    BY DEF CallRecorded, PolicyRecorded, ResolutionRecorded, Recorded, InCall, Called, Decisions
  <2> QED
    BY <2>1, RunsOn, Itself, Asked, Intended
<1>2. CASE CallRecorded(s)
  <2>1. \/ \E next : Goto(s, ses[s], next)
        \/ \E intent \in Intents : Goto(s, [ses[s] EXCEPT !.intent = intent], "policyAsk")
    BY <1>2 DEF CallRecorded
  <2> QED
    BY <1>1, <2>1, GoesOn
<1>3. CASE Goto(s, ses[s], "result") \/ Goto(s, Ask(ses[s]), "asked")
  BY <1>1, <1>3, GoesOn
<1>4. CASE /\ Execute(s, ses[s])
           /\ \/ Recorded(s, "policyAllow")
              \/ Recorded(s, "policyAsk") /\ HasRunGrant(ses[s], ses[s].intent)
  BY <1>1, <1>4, ExecuteInv DEF Recorded
<1>5. CASE Recorded(s, "allowed") /\ Execute(s, Grant(ses[s]))
  <2> DEFINE x == Grant(ses[s])
  <2>1. Follows(s, x)
    BY <1>5, GrantInv
  <2>2. x.aborted = ses[s].aborted /\ x.effects = ses[s].effects
    BY Watched DEF Grant, Fields
  <2> HIDE DEF x
  <2> QED
    BY <1>5, <2>1, <2>2, ExecuteInv DEF Recorded, x
<1> QED
  BY <1>2, <1>3, <1>4, <1>5 DEF PolicyRecorded, ResolutionRecorded

LEMMA RoundInv ==
  ASSUME ConnInv, NEW s \in Session, UNCHANGED others,
         \/ Created(s) \/ Started(s) \/ Deadline(s) \/ CallerAborts(s)
         \/ ResponseFailed(s) \/ ErrorRecorded(s) \/ Responded(s) \/ Warned(s)
         \/ ToolEnds(s) \/ ResultRecorded(s)
  PROVE  ConnInv' /\ EffectsBegun
<1>1. /\ Running(s) /\ Follows(s, ses[s])
      /\ \A v : Follows(s, [ses[s] EXCEPT !.void = v]) /\ Follows(s, [ses[s] EXCEPT !.calls = v])
  <2>1. Running(s)
    BY RunsOn DEF Created, Started, Deadline, CallerAborts, ResponseFailed, ErrorRecorded,
       Responded, Warned,
                  ToolEnds, ResultRecorded, Recorded
  <2> QED
    BY <2>1, Itself, Counted
<1>2. CASE Created(s) \/ Warned(s) \/ ErrorRecorded(s)
  <2>1. \/ Goto(s, ses[s], "started") \/ Goto(s, ses[s], "stopBudget") \/ Goto(s, ses[s], "result")
        \/ Goto(s, ses[s], "stopCanceled") \/ Goto(s, ses[s], "stopFailed")
    BY <1>2 DEF Created, Warned, ErrorRecorded
  <2> QED
    BY <1>1, <2>1, GoesOn DEF Called, Decisions
<1>3. CASE ResponseFailed(s) \/ ToolEnds(s)
  <2>1. PICK v : Goto(s, [ses[s] EXCEPT !.void = v], "error") \/ Goto(s, [ses[s] EXCEPT !.void = v], "result")
    BY <1>3 DEF ResponseFailed, ToolEnds
  <2> QED
    BY <1>1, <2>1, GoesOn DEF Called, Decisions
<1>4. CASE Started(s)
  BY <1>1, <1>4, NextTurnInv DEF Started
<1>5. CASE Deadline(s) \/ CallerAborts(s)
  BY <1>1, <1>5, ReceiveInv DEF Deadline, CallerAborts
<1>6. CASE Responded(s)
  <2>1. \/ Goto(s, ses[s], "stopCompleted") \/ Goto(s, ses[s], "error") \/ Goto(s, ses[s], "warning")
        \/ NextCall(s, ses[s])
    BY <1>6 DEF Responded
  <2> QED
    BY <1>1, <2>1, GoesOn, NextCallInv DEF Called, Decisions
<1>7. CASE ResultRecorded(s)
  <2> DEFINE x == [ses[s] EXCEPT !.calls = @ + 1, !.intent = "none", !.told = "none", !.verdict = "none"]
  <2>1. Goto(s, x, "stopCanceled") \/ NextCall(s, x) \/ NextTurn(s, x)
    BY <1>7 DEF ResultRecorded
  <2>2. Follows(s, x)
    BY Forgotten
  <2> HIDE DEF x
  <2> QED
    BY <1>1, <2>1, <2>2, GoesOn, NextCallInv, NextTurnInv DEF Called, Decisions
<1> QED
  BY <1>2, <1>3, <1>4, <1>5, <1>6, <1>7

LEMMA StopRecordedInv ==
  ASSUME ConnInv, NEW s \in Session, StopRecorded(s), UNCHANGED others
  PROVE  ConnInv' /\ EffectsBegun
<1> DEFINE x == [ses[s] EXCEPT !.ok = ses[s].pc = "stopCompleted", !.plan = "none"]
<1>1. Running(s) /\ Follows(s, ses[s]) /\ Fields \subseteq DOMAIN ses[s]
  BY RunsOn, Itself, Watched DEF StopRecorded, Stops
<1>2. DOMAIN x = DOMAIN ses[s] /\ \A f \in Fields : x[f] = ses[s][f]
  BY <1>1 DEF Fields
<1>3. Goto(s, x, "ended")
  BY DEF StopRecorded
<1> HIDE DEF x
<1>4. Follows(s, x)
  BY <1>1, <1>2, Alike
<1> QED
  BY <1>1, <1>3, <1>4, GoesOn DEF Called, Decisions

-----------------------------------------------------------------------------
(* What the store makes of an event: it is in the log, or the run aborts.  *)

\* A row is opened once and then closed, and a log grows at its end.
Advances(s) ==
  /\ row[s].status # "none" => row'[s].status # "none"
  /\ row[s].status = "closed" => row'[s].status = "closed"
  /\ LastIn(log[s], Stops) > 0 => LastIn(log'[s], Stops) > 0

LEMMA RestoreStays ==
  ASSUME ConnInv, ConnTypes', NEW r \in Replica, restore'[r] = restore[r],
         \A s \in Session : Advances(s)
  PROVE  RestoreInv(r)'
<1>1. RestoreInv(r)
  BY DEF ConnInv
<1>2. CASE At(r, "idle")
  BY <1>2 DEF RestoreInv, At
<1>3. CASE ~At(r, "idle")
  <2> DEFINE s == restore[r].s
  <2>1. s \in Session /\ Advances(s)
    BY <1>1, <1>3 DEF RestoreInv
  <2> QED
    BY <1>1, <1>3, <2>1 DEF RestoreInv, At, Advances
<1> QED
  BY <1>2, <1>3

\* A step of one session that may move its row and its log.
LEMMA SessionMoves ==
  ASSUME ConnInv, NEW s \in Session, ConnTypes', UNCHANGED others,
         \A t \in Session : t # s => ses'[t] = ses[t] /\ row'[t] = row[t] /\ log'[t] = log[t],
         MemoryInv(ses'[s]), LogInv(ses'[s], log'[s]), RowInv(s)', Advances(s),
         ses'[s].effects = ses[s].effects
  PROVE  ConnInv' /\ EffectsBegun
<1>1. conn' = conn /\ restore' = restore /\ answers' = answers
  BY DEF others
<1>2. ASSUME NEW t \in Session
      PROVE  MemoryInv(ses'[t]) /\ LogInv(ses'[t], log'[t]) /\ RowInv(t)' /\ Advances(t)
  <2>1. CASE t = s
    BY <2>1
  <2>2. CASE t # s
    <3>1. MemoryInv(ses[t]) /\ LogInv(ses[t], log[t]) /\ RowInv(t)
      BY DEF ConnInv
    <3>2. ses'[t] = ses[t] /\ row'[t] = row[t] /\ log'[t] = log[t]
      BY <2>2
    <3>3. RowInv(t)'
      BY <1>1, <3>1, <3>2 DEF RowInv, Up
    <3>4. Advances(t)
      BY <3>2, LogsHave DEF Advances
    <3> QED
      BY <3>1, <3>2, <3>3, <3>4
  <2> QED
    BY <2>1, <2>2
<1>3. ASSUME NEW r \in Replica PROVE RestoreInv(r)'
  BY <1>1, <1>2, RestoreStays
<1>4. ASSUME NEW t \in Session, ses'[t].effects > ses[t].effects PROVE Begun(t)
  <2>1. ses[t].effects \in Nat
    BY DEF ConnInv, MemoryInv
  <2> QED
    BY <1>4, <2>1
<1> QED
  BY <1>2, <1>3, <1>4 DEF ConnInv, EffectsBegun

LEMMA Appending ==
  ASSUME ConnInv, NEW s \in Session, NEW e \in Entries, log' = [log EXCEPT ![s] = Append(@, e)]
  PROVE  /\ log' \in [Session -> Seq(Entries)]
         /\ \A t \in Session : t # s => log'[t] = log[t]
         /\ \A kinds : LastIn(log'[s], kinds) = IF e.kind \in kinds THEN Len(log[s]) + 1
                                                 ELSE LastIn(log[s], kinds)
         /\ log'[s][Len(log[s]) + 1] = e /\ \A i \in 1 .. Len(log[s]) : log'[s][i] = log[s][i]
         /\ \A grants : Backed(grants, log[s]) => Backed(grants, log'[s])
         /\ Marked(log'[s]) <=> e.kind = "restored"
<1>1. log \in [Session -> Seq(Entries)] /\ log[s] \in Seq(Entries)
  BY DEF ConnInv, ConnTypes
<1>2. Append(log[s], e) \in Seq(Entries) /\ log'[s] = Append(log[s], e)
  BY <1>1
<1>3. log' \in [Session -> Seq(Entries)] /\ \A t \in Session : t # s => log'[t] = log[t]
  BY <1>1, <1>2
<1>4. \A kinds : LastIn(log'[s], kinds) = IF e.kind \in kinds THEN Len(log[s]) + 1
                                          ELSE LastIn(log[s], kinds)
  BY <1>1, <1>2, LastInAppend
<1>5. /\ Len(log[s]) \in Nat /\ Len(log'[s]) = Len(log[s]) + 1 /\ log'[s] # << >>
      /\ log'[s][Len(log'[s])] = e /\ \A i \in 1 .. Len(log[s]) : log'[s][i] = log[s][i]
  BY <1>1, <1>2
<1>6. Marked(log'[s]) <=> e.kind = "restored"
  BY <1>5 DEF Marked, Last
<1>7. Range(log[s]) \subseteq Range(log'[s])
  <2>1. DOMAIN log[s] = 1 .. Len(log[s]) /\ DOMAIN log'[s] = 1 .. Len(log'[s])
    BY <1>1, <1>2
  <2> QED
    BY <1>5, <2>1 DEF Range
<1>8. \A grants : Backed(grants, log[s]) => Backed(grants, log'[s])
  BY <1>7 DEF Backed
<1> QED
  BY <1>3, <1>4, <1>5, <1>6, <1>8

LEMMA CommitInv ==
  ASSUME ConnInv, NEW s \in Session, Commit(s), UNCHANGED others
  PROVE  ConnInv' /\ EffectsBegun
<1> DEFINE x == ses[s]  y == [ses[s] EXCEPT !.stored = TRUE]  size == Len(log[s])
<1>1. /\ MemoryInv(x) /\ LogInv(x, log[s]) /\ RowInv(s) /\ Fields \subseteq DOMAIN x
      /\ x.pc # "restored" /\ ~x.stored /\ Entry(x) \in Entries /\ Entry(x).kind = x.pc
  BY Watched DEF Commit, Entry, Entries, Events, Inner, Stops, MemoryInv
<1>2. /\ log' \in [Session -> Seq(Entries)] /\ ~Marked(log'[s])
      /\ \A t \in Session : t # s => log'[t] = log[t]
      /\ log'[s][size + 1] = Entry(x) /\ \A grants : Backed(grants, log[s]) => Backed(grants, log'[s])
      /\ \A kinds : LastIn(log'[s], kinds) = IF x.pc \in kinds THEN size + 1 ELSE LastIn(log[s], kinds)
  <2>1. log' = [log EXCEPT ![s] = Append(@, Entry(x))]
    BY DEF Commit
  <2> DEFINE e == Entry(x)
  <2>2. e \in Entries /\ e.kind = x.pc /\ x.pc # "restored"
    BY <1>1
  <2> HIDE DEF e, x
  <2>3. /\ log' \in [Session -> Seq(Entries)] /\ (Marked(log'[s]) <=> e.kind = "restored")
        /\ \A t \in Session : t # s => log'[t] = log[t]
        /\ log'[s][Len(log[s]) + 1] = e /\ \A grants : Backed(grants, log[s]) => Backed(grants, log'[s])
        /\ \A kinds : LastIn(log'[s], kinds) = IF e.kind \in kinds THEN Len(log[s]) + 1
                                                ELSE LastIn(log[s], kinds)
    BY <2>1, <2>2, Appending DEF e
  <2> QED
    BY <2>2, <2>3 DEF e
<1>3. size \in Nat /\ \A kinds : LastIn(log[s], kinds) \in 0 .. size
  BY LogsHave
<1>4. ses' = [ses EXCEPT ![s] = y] /\ row' = row /\ row[s].status = "active"
  BY DEF Commit, CanAppend
<1>5. DOMAIN ses' = Session /\ ses'[s] = y /\ \A t \in Session : t # s => ses'[t] = ses[t]
  BY <1>4 DEF ConnInv, ConnTypes
<1>6. DOMAIN y = DOMAIN x /\ y.stored = TRUE /\ \A f \in Fields : f # "stored" => y[f] = x[f]
  BY <1>1 DEF Fields
<1> HIDE DEF y
<1>7. /\ y.effects = x.effects /\ y.pending = x.pending /\ y.failed = x.failed
      /\ y.aborted = x.aborted /\ y.verdict = x.verdict /\ y.told = x.told
      /\ y.intent = x.intent /\ y.grants = x.grants /\ y.wire = x.wire
      /\ y.tools = x.tools /\ y.tool = x.tool /\ y.meant = x.meant /\ y.call = x.call
      /\ y.state = x.state /\ y.pc = x.pc
  BY <1>6 DEF Fields
<1>8. MemoryInv(y)
  BY ZenonT(60), <1>1, <1>6, <1>7 DEF MemoryInv
<1> HIDE DEF x, size
<1>9. LogInv(y, log'[s])
  <2>0. Backed(y.grants, log'[s]) /\ Entry(y) = Entry(x)
    BY <1>1, <1>2, <1>7 DEF LogInv, Entry
  <2>1. CASE x.pc = "call"
    <3>1. LastIn(log'[s], {"call"}) = size + 1 /\ LastIn(log'[s], {"result"}) <= size
      BY <1>2, <1>3, <2>1
    <3>2. LastIn(log'[s], {"result"}) \in Nat
      BY <1>2, <1>3, <2>1
    <3> QED
      BY <1>3, <1>7, <2>0, <2>1, <3>1, <3>2 DEF LogInv, Decisions
  <2>2. CASE x.pc \in Called
    <3>1. /\ LastIn(log'[s], {"call"}) = LastIn(log[s], {"call"})
          /\ LastIn(log'[s], {"result"}) = LastIn(log[s], {"result"})
          /\ LastIn(log[s], {"call"}) \in 0 .. size
      BY <1>2, <1>3, <2>2 DEF Called, Decisions
    <3>2. x.pc \in Decisions => LastIn(log'[s], Decisions) = size + 1
      BY <1>2
    <3>3. x.pc \in Decisions => Decided(y, log'[s])
      BY <1>2, <1>3, <2>0, <3>1, <3>2 DEF Decided
    <3> QED
      BY <1>1, <1>3, <1>7, <2>0, <2>2, <3>1, <3>3 DEF LogInv
  <2> QED
    BY <1>7, <2>0, <2>1, <2>2 DEF LogInv, Called, Decisions
<1>10. ConnTypes' /\ Advances(s)
  <2>1. ConnTypes'
    BY <1>2, <1>4, <1>5 DEF ConnInv, ConnTypes, others
  <2>2. LastIn(log[s], Stops) > 0 => LastIn(log'[s], Stops) > 0
    BY <1>2, <1>3
  <2> QED
    BY <1>4, <2>1, <2>2 DEF Advances
<1>11. RowInv(s)'
  <2>1. answers'[s] = {} /\ row'[s].status = "active" /\ conn' = conn
    BY <1>1, <1>4 DEF RowInv, others
  <2> QED
    BY <1>1, <1>2, <1>4, <1>5, <1>7, <2>1 DEF RowInv, Up, x
<1>12. /\ MemoryInv(ses'[s]) /\ LogInv(ses'[s], log'[s]) /\ ses'[s].effects = ses[s].effects
  BY <1>5, <1>7, <1>8, <1>9 DEF x
<1>13. \A t \in Session : t # s => ses'[t] = ses[t] /\ row'[t] = row[t] /\ log'[t] = log[t]
  BY <1>2, <1>4, <1>5
<1> QED
  BY <1>10, <1>11, <1>12, <1>13, SessionMoves

LEMMA RefuseInv ==
  ASSUME ConnInv, NEW s \in Session, Refuse(s), UNCHANGED others
  PROVE  ConnInv' /\ EffectsBegun
<1> DEFINE x == ses[s]
           place == IF x.pc \in Inner THEN "result" ELSE "ended"
           y == Unrecorded(x)
<1>1. /\ MemoryInv(x) /\ Fields \subseteq DOMAIN x /\ Running(s) /\ x.effects \in Nat
  BY Watched, RunsOn DEF Refuse, Events, Inner, Stops, MemoryInv
<1>2. ses' = [ses EXCEPT ![s] = y] /\ UNCHANGED <<row, log, others>>
  BY DEF Refuse
<1>3. /\ DOMAIN y = DOMAIN x /\ y.failed = TRUE /\ y.aborted = TRUE /\ y.pc = place
      /\ \A f \in Fields : f \notin {"failed", "aborted", "pc"} => y[f] = x[f]
  BY <1>1 DEF Unrecorded, Fields
<1> HIDE DEF y
<1>4. /\ y.effects = x.effects /\ y.pending = x.pending /\ y.stored = x.stored
      /\ y.verdict = x.verdict /\ y.told = x.told /\ y.intent = x.intent
      /\ y.grants = x.grants /\ y.wire = x.wire
      /\ y.tools = x.tools /\ y.tool = x.tool /\ y.meant = x.meant /\ y.call = x.call
      /\ y.state = x.state
  BY <1>3 DEF Fields
<1>5. MemoryInv(y)
  BY ZenonT(60), <1>1, <1>3, <1>4 DEF MemoryInv, Running
<1>6. LogInv(y, log[s])
  BY <1>1, <1>3, <1>4, Watched DEF LogInv, Called, Decisions
<1>7. /\ y.call \in Early => ses[s].call \in Early
      /\ y.effects > ses[s].effects => Begun(s)
  BY <1>1, <1>4
<1> QED
  BY <1>2, <1>5, <1>6, <1>7, MemoryMoves

LEMMA LoopInv ==
  ASSUME ConnInv, NEW s \in Session, Loop(s) \/ Answered(s)
  PROVE  ConnInv' /\ EffectsBegun
<1>1. UNCHANGED others
  BY DEF Loop, Answered
<1> QED
  BY <1>1, CommitInv, RefuseInv, RequestedInv, ProviderInv, AskInv, CallInv, RoundInv,
     StopRecordedInv
     DEF Loop, Answered, LoopStep

-----------------------------------------------------------------------------
(* The connection.                                                         *)

\* What the connection does to a session's memory leaves the loop where it is.
LEMMA RememberInv ==
  ASSUME ConnInv, NEW s \in Session, NEW y, Remember(s, y), MemoryInv(y),
         y.intent = ses[s].intent, y.grants = ses[s].grants,
         (y.pc = ses[s].pc /\ y.stored = ses[s].stored) \/ y.pc \notin Called \cup {"call"},
         y.call \in Early => ses[s].call \in Early, y.effects = ses[s].effects
  PROVE  ConnInv' /\ EffectsBegun
<1>1. ses' = [ses EXCEPT ![s] = y] /\ UNCHANGED <<row, log, others>>
  BY DEF Remember
<1>2. LogInv(ses[s], log[s]) /\ ses[s].effects \in Nat
  BY Watched DEF MemoryInv
<1>3. LogInv(y, log[s])
  BY <1>2 DEF LogInv, Called, Decisions, Decided, Entry
<1>4. y.effects > ses[s].effects => Begun(s)
  BY <1>2
<1> QED
  BY <1>1, <1>3, <1>4, MemoryMoves

\* A memory that differs in what the invariant does not relate to the rest.
Resembles(x, y) ==
  /\ DOMAIN y = DOMAIN x
  /\ \A f \in Fields \ {"aborted", "pending", "verdict"} : y[f] = x[f]
  /\ y.aborted \in BOOLEAN /\ (x.aborted => y.aborted)
  /\ \/ y.pending = x.pending /\ y.verdict = x.verdict
     \/ y.pending = FALSE /\ (x.told = "none" \/ y.verdict = x.verdict)

LEMMA Resembling ==
  ASSUME NEW x, NEW y, MemoryInv(x), Resembles(x, y)
  PROVE  /\ MemoryInv(y)
         /\ y.pc = x.pc /\ y.stored = x.stored /\ y.call = x.call /\ y.effects = x.effects
         /\ y.intent = x.intent /\ y.grants = x.grants /\ y.state = x.state
<1>1. /\ y.effects = x.effects /\ y.failed = x.failed /\ y.stored = x.stored
      /\ y.told = x.told /\ y.intent = x.intent /\ y.grants = x.grants
      /\ y.wire = x.wire /\ y.tools = x.tools /\ y.tool = x.tool /\ y.meant = x.meant
      /\ y.call = x.call /\ y.state = x.state /\ y.pc = x.pc
  BY DEF Resembles, Fields
<1>2. MemoryInv(y)
  BY <1>1 DEF MemoryInv, Resembles
<1> QED
  BY <1>1, <1>2

LEMMA ResemblingTwice ==
  ASSUME NEW x, NEW y, NEW z, MemoryInv(x), Resembles(x, y), Resembles(y, z)
  PROVE  Resembles(x, z)
  BY DEF Resembles, MemoryInv, Fields

LEMMA Settling ==
  ASSUME NEW x, MemoryInv(x), NEW decision
  PROVE  /\ Resembles(x, Settle(x, decision))
         /\ Settle(x, decision).verdict = IF x.pending THEN decision ELSE x.verdict
<1> DEFINE y == Settle(x, decision)
<1>1. Fields \subseteq DOMAIN x
  BY DEF MemoryInv, Fields, NoSession
<1>2. /\ DOMAIN y = DOMAIN x /\ y.pending = FALSE
      /\ y.verdict = IF x.pending /\ x.verdict = "none" THEN decision ELSE x.verdict
      /\ \A f \in Fields : f \notin {"pending", "verdict"} => y[f] = x[f]
  BY <1>1 DEF Settle, Fields
<1> HIDE DEF y
<1>3. y.aborted = x.aborted
  BY <1>2 DEF Fields
<1>4. Resembles(x, y)
  BY <1>2, <1>3 DEF Resembles, MemoryInv
<1> QED
  BY <1>2, <1>4 DEF y, MemoryInv

\* Fields that nothing here looks at.
LEMMA Timers ==
  ASSUME NEW x, MemoryInv(x), NEW i, NEW l, NEW f
  PROVE  /\ Resembles(x, [x EXCEPT !.idle = i, !.lease = l, !.finish = f])
         /\ Resembles(x, [x EXCEPT !.lease = l])
         /\ Resembles(x, [x EXCEPT !.finish = f])
<1>1. Fields \subseteq DOMAIN x /\ x.aborted \in BOOLEAN
  BY DEF MemoryInv, Fields, NoSession
<1>2. Resembles(x, [x EXCEPT !.idle = i, !.lease = l, !.finish = f])
  BY <1>1 DEF Resembles, Fields
<1>3. Resembles(x, [x EXCEPT !.lease = l])
  BY <1>1 DEF Resembles, Fields
<1>4. Resembles(x, [x EXCEPT !.finish = f])
  BY <1>1 DEF Resembles, Fields
<1> QED
  BY <1>2, <1>3, <1>4

LEMMA Aborting ==
  ASSUME NEW x, MemoryInv(x)
  PROVE  Resembles(x, [x EXCEPT !.aborted = TRUE])
<1>1. Fields \subseteq DOMAIN x /\ x.aborted \in BOOLEAN
  BY DEF MemoryInv, Fields, NoSession
<1> QED
  BY <1>1 DEF Resembles, Fields

LEMMA FinishingIs ==
  ASSUME NEW x, MemoryInv(x), NEW durable
  PROVE  Resembles(x, Finishing(x, durable))
<1> DEFINE y == Settle(x, "deny")
           lease == IF y.lease = "armed" THEN "off" ELSE y.lease
           finish == IF durable THEN "closing" ELSE "done"
<1>1. Resembles(x, y) /\ MemoryInv(y)
  BY Settling, Resembling
<1>2. "idle" \in DOMAIN y /\ "lease" \in DOMAIN y /\ "finish" \in DOMAIN y
  BY <1>1 DEF MemoryInv, NoSession
<1>3. Finishing(x, durable) = [y EXCEPT !.idle = FALSE, !.lease = lease, !.finish = finish]
  BY <1>2 DEF Finishing
<1> HIDE DEF y, lease, finish
<1>4. Resembles(y, Finishing(x, durable))
  <2>1. Resembles(y, [y EXCEPT !.idle = FALSE, !.lease = lease, !.finish = finish])
    BY <1>1, Timers
  <2> QED
    BY <1>3, <2>1
<1> QED
  BY <1>1, <1>4, ResemblingTwice

\* The state moves on, once the session is created.
LEMMA Concludes ==
  ASSUME NEW x, MemoryInv(x), x.state \notin {"none"}, NEW state, state \notin {"none", "created"}
  PROVE  /\ MemoryInv([x EXCEPT !.state = state])
         /\ [x EXCEPT !.state = state].pc = x.pc /\ [x EXCEPT !.state = state].stored = x.stored
         /\ [x EXCEPT !.state = state].call = x.call
         /\ [x EXCEPT !.state = state].effects = x.effects
         /\ [x EXCEPT !.state = state].intent = x.intent
         /\ [x EXCEPT !.state = state].grants = x.grants
         /\ x.call = "done"
<1> DEFINE y == [x EXCEPT !.state = state]
<1>1. Fields \subseteq DOMAIN x /\ x.call = "done"
  BY DEF MemoryInv, Fields, NoSession
<1>2. DOMAIN y = DOMAIN x /\ y.state = state /\ \A f \in Fields : f # "state" => y[f] = x[f]
  BY <1>1 DEF Fields
<1> HIDE DEF y
<1>3. /\ y.effects = x.effects /\ y.pending = x.pending /\ y.failed = x.failed
      /\ y.aborted = x.aborted /\ y.stored = x.stored /\ y.verdict = x.verdict
      /\ y.told = x.told /\ y.intent = x.intent /\ y.grants = x.grants /\ y.wire = x.wire
      /\ y.tools = x.tools /\ y.tool = x.tool
      /\ y.meant = x.meant /\ y.call = x.call /\ y.pc = x.pc
  BY <1>2 DEF Fields
<1>4. MemoryInv(y)
  BY <1>1, <1>2, <1>3 DEF MemoryInv
<1> QED
  BY <1>1, <1>3, <1>4 DEF y

LEMMA CanceledIs ==
  ASSUME NEW x, MemoryInv(x), x.state \notin {"none"}
  PROVE  /\ MemoryInv(Canceled(x))
         /\ Canceled(x).pc = x.pc /\ Canceled(x).stored = x.stored
         /\ Canceled(x).call = x.call /\ Canceled(x).effects = x.effects
         /\ Canceled(x).intent = x.intent /\ Canceled(x).grants = x.grants
<1> DEFINE y == [x EXCEPT !.state = "canceled"]
<1>1. /\ MemoryInv(y) /\ y.pc = x.pc /\ y.stored = x.stored /\ y.call = x.call
      /\ y.effects = x.effects
     /\ y.intent = x.intent /\ y.grants = x.grants
  BY Concludes
<1>2. Canceled(x) = Finishing(y, TRUE)
  BY DEF Canceled
<1> HIDE DEF y
<1> DEFINE z == Finishing(y, TRUE)
<1>3. Resembles(y, z)
  BY <1>1, FinishingIs
<1> HIDE DEF z
<1>4. /\ MemoryInv(z) /\ z.pc = y.pc /\ z.stored = y.stored /\ z.call = y.call
      /\ z.effects = y.effects
      /\ z.intent = y.intent /\ z.grants = y.grants
  BY <1>1, <1>3, Resembling
<1> QED
  BY <1>1, <1>2, <1>4 DEF z

LEMMA CancelIs ==
  ASSUME NEW x, MemoryInv(x), x.state \notin {"none"}
  PROVE  /\ MemoryInv(Cancel(x))
         /\ Cancel(x).pc = x.pc /\ Cancel(x).stored = x.stored
         /\ Cancel(x).call = x.call /\ Cancel(x).effects = x.effects
         /\ Cancel(x).intent = x.intent /\ Cancel(x).grants = x.grants
<1> DEFINE w == Settle(x, "deny")
           y == [w EXCEPT !.aborted = TRUE]
<1>1. Resembles(x, w) /\ MemoryInv(w)
  BY Settling, Resembling
<1>2. Resembles(w, y)
  <2> HIDE DEF w
  <2> QED
    BY <1>1, Aborting
<1> HIDE DEF w, y
<1>3. Resembles(x, y)
  BY <1>1, <1>2, ResemblingTwice
<1>4. /\ MemoryInv(y) /\ y.pc = x.pc /\ y.stored = x.stored /\ y.call = x.call
      /\ y.effects = x.effects /\ y.state = x.state
      /\ y.intent = x.intent /\ y.grants = x.grants
  BY <1>3, Resembling
<1>5. Cancel(x) = IF x.state = "created" THEN Canceled(y) ELSE y
  BY DEF Cancel, w, y
<1> QED
  BY <1>4, <1>5, CanceledIs

\* The steps that touch a session's memory only.
LEMMA AnswerInv ==
  ASSUME ConnInv, NEW s \in Session, PermissionTimeout(s) \/ RespondPermission(s)
  PROVE  ConnInv' /\ EffectsBegun
<1> DEFINE x == ses[s]
<1>1. MemoryInv(x) /\ x.pending
  BY Watched DEF PermissionTimeout, RespondPermission
<1>2. CASE PermissionTimeout(s)
  <2>1. Remember(s, Settle(x, "deny"))
    BY <1>2 DEF PermissionTimeout
  <2>2. Resembles(x, Settle(x, "deny"))
    BY <1>1, Settling
  <2> HIDE DEF x
  <2> DEFINE y == Settle(x, "deny")
  <2>3. /\ MemoryInv(y) /\ y.pc = x.pc /\ y.stored = x.stored /\ y.call = x.call
        /\ y.effects = x.effects
        /\ y.intent = x.intent /\ y.grants = x.grants
    BY <1>1, <2>2, Resembling
  <2> HIDE DEF y
  <2> QED
    BY <2>1, <2>3, RememberInv DEF x, y
<1>3. CASE RespondPermission(s)
  <2>a. PICK decision \in {"allow", "deny"} : \E granted :
           Remember(s, [Settle(x, decision) EXCEPT !.told = decision, !.granted = granted])
    <3>1. PICK decision \in {"allow", "deny"} :
             Remember(s, [Settle(x, decision) EXCEPT
                            !.told = decision,
                            !.granted = IF decision = "allow" THEN @ \cup ({x.intent} \cap Commands)
                                                              ELSE @])
      BY <1>3 DEF RespondPermission
    <3> DEFINE w == Settle(x, decision)
    <3>2. "granted" \in DOMAIN w
      BY <1>1 DEF MemoryInv, NoSession, Settle
    <3> HIDE DEF w
    <3>3. \E granted : Remember(s, [w EXCEPT !.told = decision, !.granted = granted])
      BY <3>1, <3>2 DEF w
    <3> QED
      BY <3>3 DEF w
  <2>1. PICK granted :
           Remember(s, [Settle(x, decision) EXCEPT !.told = decision, !.granted = granted])
    BY <2>a
  <2> DEFINE w == Settle(x, decision)
             y == [w EXCEPT !.told = decision, !.granted = granted]
  <2>2. /\ MemoryInv(w) /\ w.pc = x.pc /\ w.stored = x.stored /\ w.call = x.call
        /\ w.effects = x.effects /\ w.intent = x.intent /\ w.grants = x.grants
    BY <1>1, Settling, Resembling
  <2>3. w.verdict = decision /\ w.pending = FALSE
    <3>1. w.verdict = decision
      BY <1>1, Settling
    <3>2. "pending" \in DOMAIN x /\ "verdict" \in DOMAIN x
      BY <1>1 DEF MemoryInv, NoSession
    <3> QED
      BY <3>1, <3>2 DEF Settle
  <2>4. Fields \subseteq DOMAIN w
    BY <2>2 DEF MemoryInv, Fields, NoSession
  <2> HIDE DEF w
  <2>5. DOMAIN y = DOMAIN w /\ y.told = decision /\ \A f \in Fields : f # "told" => y[f] = w[f]
    BY <2>4 DEF Fields
  <2>6. Remember(s, y)
    BY <2>1 DEF w
  <2> HIDE DEF y
  <2>7. /\ y.effects = w.effects /\ y.pending = w.pending /\ y.failed = w.failed
        /\ y.aborted = w.aborted /\ y.stored = w.stored /\ y.verdict = w.verdict
        /\ y.intent = w.intent /\ y.grants = w.grants
        /\ y.wire = w.wire /\ y.tools = w.tools /\ y.tool = w.tool /\ y.meant = w.meant
        /\ y.call = w.call /\ y.state = w.state /\ y.pc = w.pc
    BY <2>5 DEF Fields
  <2>8. MemoryInv(y)
    BY <2>2, <2>3, <2>5, <2>7 DEF MemoryInv
  <2> QED
    BY <2>2, <2>6, <2>7, <2>8, RememberInv
<1> QED
  BY <1>2, <1>3

LEMMA OpeningInv ==
  ASSUME ConnInv, NEW s \in Session, NewSession(s) \/ InsertSession(s) \/ Prompt(s)
  PROVE  ConnInv' /\ EffectsBegun
<1> DEFINE x == ses[s]
<1>1. /\ MemoryInv(x) /\ Fields \subseteq DOMAIN x /\ x.pc = "idle" /\ x.wire = "none"
      /\ x.state \in {"none", "created"}
  BY Watched DEF NewSession, InsertSession, Prompt, MemoryInv
<1>2. \A f \in {"idle", "lease"} : f \in DOMAIN x
  BY <1>1 DEF MemoryInv, NoSession
<1>3. CASE NewSession(s)
  <2> DEFINE y == [x EXCEPT !.call = "create"]
  <2>1. DOMAIN y = DOMAIN x /\ y.call = "create" /\ \A f \in Fields : f # "call" => y[f] = x[f]
    BY <1>1 DEF Fields
  <2>2. Remember(s, y) /\ x.call \in Early
    BY <1>3 DEF NewSession, Early
  <2> HIDE DEF y
  <2>3. /\ y.effects = x.effects /\ y.pending = x.pending /\ y.failed = x.failed
        /\ y.aborted = x.aborted /\ y.stored = x.stored /\ y.verdict = x.verdict
        /\ y.told = x.told /\ y.intent = x.intent /\ y.grants = x.grants /\ y.wire = x.wire
        /\ y.tools = x.tools /\ y.tool = x.tool
        /\ y.meant = x.meant /\ y.state = x.state /\ y.pc = x.pc
    BY <2>1 DEF Fields
  <2>4. MemoryInv(y)
    BY <1>1, <2>1, <2>2, <2>3 DEF MemoryInv, Early
  <2> QED
    BY <2>2, <2>3, <2>4, RememberInv
<1>4. CASE InsertSession(s)
  <2> DEFINE y == [x EXCEPT !.call = "done", !.state = "created", !.idle = TRUE, !.lease = "armed"]
  <2>1. /\ DOMAIN y = DOMAIN x /\ y.call = "done" /\ y.state = "created"
        /\ \A f \in Fields : f \notin {"call", "state"} => y[f] = x[f]
    BY <1>1, <1>2 DEF Fields
  <2>2. Remember(s, y)
    BY <1>4 DEF InsertSession
  <2> HIDE DEF y
  <2>3. /\ y.effects = x.effects /\ y.pending = x.pending /\ y.failed = x.failed
        /\ y.aborted = x.aborted /\ y.stored = x.stored /\ y.verdict = x.verdict
        /\ y.told = x.told /\ y.intent = x.intent /\ y.grants = x.grants /\ y.wire = x.wire
        /\ y.tools = x.tools /\ y.tool = x.tool
        /\ y.meant = x.meant /\ y.pc = x.pc
    BY <2>1 DEF Fields
  <2>4. MemoryInv(y)
    BY <1>1, <2>1, <2>3 DEF MemoryInv
  <2> QED
    BY <2>1, <2>2, <2>3, <2>4, RememberInv DEF Early
<1>5. CASE Prompt(s)
  <2>1. PICK tools \in Toolsets :
           Remember(s, [x EXCEPT !.state = "running", !.idle = FALSE, !.pc = "created",
                                 !.tools = tools])
    BY <1>5 DEF Prompt
  <2> DEFINE y == [x EXCEPT !.state = "running", !.idle = FALSE, !.pc = "created", !.tools = tools]
  <2>2. /\ DOMAIN y = DOMAIN x /\ y.state = "running" /\ y.pc = "created"
        /\ \A f \in Fields : f \notin {"state", "pc", "tools"} => y[f] = x[f]
    BY <1>1, <1>2 DEF Fields
  <2>3. x.call = "done"
    BY <1>1, <1>5 DEF Prompt, MemoryInv
  <2> HIDE DEF y
  <2>4. /\ y.effects = x.effects /\ y.pending = x.pending /\ y.failed = x.failed
        /\ y.aborted = x.aborted /\ y.stored = x.stored /\ y.verdict = x.verdict
        /\ y.told = x.told /\ y.intent = x.intent /\ y.grants = x.grants /\ y.wire = x.wire
        /\ y.tool = x.tool
        /\ y.meant = x.meant /\ y.call = x.call
    BY <2>2 DEF Fields
  <2>5. MemoryInv(y)
    BY <1>1, <2>2, <2>3, <2>4 DEF MemoryInv
  <2> QED
    BY <2>1, <2>2, <2>3, <2>4, <2>5, RememberInv DEF Early, Called, Decisions, y
<1> QED
  BY <1>3, <1>4, <1>5

LEMMA EndingInv ==
  ASSUME ConnInv, NEW s \in Session,
         PromptEnds(s) \/ IdleTimeout(s) \/ CancelSession(s) \/ LeaseTimer(s)
  PROVE  ConnInv' /\ EffectsBegun
<1> DEFINE x == ses[s]
<1>1. MemoryInv(x)
  BY Watched
<1>2. ASSUME NEW y, Remember(s, y), MemoryInv(y), y.pc = x.pc, y.stored = x.stored,
             y.call = x.call, y.effects = x.effects, y.intent = x.intent, y.grants = x.grants
      PROVE  ConnInv' /\ EffectsBegun
  BY <1>2, RememberInv
<1>3. CASE PromptEnds(s)
  <2> DEFINE state == IF x.failed THEN "failed" ELSE IF x.aborted THEN "canceled"
                      ELSE IF x.ok THEN "completed" ELSE "failed"
             y == [x EXCEPT !.state = state]
  <2>1. Remember(s, Finishing(y, ~x.failed)) /\ x.state # "none"
    BY <1>3 DEF PromptEnds
  <2>2. state \notin {"none", "created"}
    OBVIOUS
  <2> HIDE DEF state
  <2>3. /\ MemoryInv(y) /\ y.pc = x.pc /\ y.stored = x.stored /\ y.call = x.call
        /\ y.effects = x.effects
        /\ y.intent = x.intent /\ y.grants = x.grants
    BY <1>1, <2>1, <2>2, Concludes
  <2> HIDE DEF y
  <2> DEFINE z == Finishing(y, ~x.failed)
  <2>4. /\ MemoryInv(z) /\ z.pc = y.pc /\ z.stored = y.stored /\ z.call = y.call
        /\ z.effects = y.effects
        /\ z.intent = y.intent /\ z.grants = y.grants
    BY <2>3, FinishingIs, Resembling
  <2> HIDE DEF z
  <2> QED
    BY <1>2, <2>1, <2>3, <2>4 DEF z
<1>4. CASE IdleTimeout(s)
  <2> DEFINE y == [x EXCEPT !.aborted = TRUE]
  <2>1. Remember(s, Canceled(y)) /\ x.state = "created"
    BY <1>4 DEF IdleTimeout
  <2>2. Resembles(x, y)
    BY <1>1, Aborting
  <2> HIDE DEF y
  <2>3. /\ MemoryInv(y) /\ y.pc = x.pc /\ y.stored = x.stored /\ y.call = x.call
        /\ y.effects = x.effects /\ y.state = x.state
        /\ y.intent = x.intent /\ y.grants = x.grants
    BY <1>1, <2>2, Resembling
  <2> DEFINE z == Canceled(y)
  <2>4. /\ MemoryInv(z) /\ z.pc = y.pc /\ z.stored = y.stored /\ z.call = y.call
        /\ z.effects = y.effects
        /\ z.intent = y.intent /\ z.grants = y.grants
    BY <2>1, <2>3, CanceledIs
  <2> HIDE DEF z
  <2> QED
    BY <1>2, <2>1, <2>3, <2>4 DEF z
<1>5. CASE CancelSession(s)
  <2>1. Remember(s, Cancel(x)) /\ x.state # "none"
    BY <1>5 DEF CancelSession
  <2> DEFINE z == Cancel(x)
  <2>2. /\ MemoryInv(z) /\ z.pc = x.pc /\ z.stored = x.stored /\ z.call = x.call
        /\ z.effects = x.effects
        /\ z.intent = x.intent /\ z.grants = x.grants
    BY <1>1, <2>1, CancelIs
  <2> HIDE DEF z
  <2> QED
    BY <1>2, <2>1, <2>2 DEF z
<1>6. CASE LeaseTimer(s)
  <2> DEFINE lease == IF x.state \in Over THEN "off" ELSE "renew"
             y == [x EXCEPT !.lease = lease]
  <2>1. Remember(s, y)
    BY <1>6 DEF LeaseTimer
  <2> HIDE DEF lease
  <2>2. Resembles(x, y)
    BY <1>1, Timers
  <2> HIDE DEF y
  <2>3. /\ MemoryInv(y) /\ y.pc = x.pc /\ y.stored = x.stored /\ y.call = x.call
        /\ y.effects = x.effects
        /\ y.intent = x.intent /\ y.grants = x.grants
    BY <1>1, <2>2, Resembling
  <2> QED
    BY <1>2, <2>1, <2>3
<1> QED
  BY <1>3, <1>4, <1>5, <1>6

\* A row that stays as it was but for its lease, or is closed.
LEMMA RowMoves ==
  ASSUME ConnInv, NEW s \in Session, row[s].status = "active", UNCHANGED <<log, others>>,
         NEW y, ses' = [ses EXCEPT ![s] = y], Resembles(ses[s], y),
         NEW v \in Row, row' = [row EXCEPT ![s] = v], v.status # "none"
  PROVE  ConnInv' /\ EffectsBegun
<1>1. MemoryInv(ses[s]) /\ LogInv(ses[s], log[s]) /\ RowInv(s)
  BY Watched
<1>2. /\ DOMAIN ses' = Session /\ ses'[s] = y /\ \A t \in Session : t # s => ses'[t] = ses[t]
      /\ row' \in [Session -> Row] /\ row'[s] = v /\ \A t \in Session : t # s => row'[t] = row[t]
  BY DEF ConnInv, ConnTypes
<1>3. /\ MemoryInv(y) /\ y.pc = ses[s].pc /\ y.stored = ses[s].stored /\ y.call = ses[s].call
      /\ y.effects = ses[s].effects
      /\ y.intent = ses[s].intent /\ y.grants = ses[s].grants
  BY <1>1, Resembling
<1>4. log' = log /\ conn' = conn /\ restore' = restore /\ answers' = answers
  BY DEF others
<1>5. LogInv(y, log'[s])
  BY <1>1, <1>3, <1>4 DEF LogInv, Decided, Entry
<1>6. answers[s] = {} /\ ~Marked(log[s]) /\ ~(Up /\ ses[s].call \in Early)
  BY <1>1 DEF RowInv
<1>7. RowInv(s)'
  BY <1>2, <1>3, <1>4, <1>6 DEF RowInv, Up
<1>8. Advances(s)
  BY <1>2, <1>4, LogsHave DEF Advances
<1>9. ConnTypes'
  BY <1>2, <1>4 DEF ConnInv, ConnTypes
<1> QED
  BY <1>2, <1>3, <1>4, <1>5, <1>7, <1>8, <1>9, SessionMoves

LEMMA CreateInv ==
  ASSUME ConnInv, NEW s \in Session, CreateSession(s)
  PROVE  ConnInv' /\ EffectsBegun
<1> DEFINE x == ses[s]
<1>1. /\ MemoryInv(x) /\ LogInv(x, log[s]) /\ RowInv(s) /\ Fields \subseteq DOMAIN x
      /\ x.call = "create" /\ row[s].status = "none" /\ Up
  BY Watched DEF CreateSession, RowInv, Early
<1>2. log' = log /\ conn' = conn /\ restore' = restore /\ answers' = answers /\ UNCHANGED others
  BY DEF CreateSession, others
<1>3. ASSUME NEW call \in {"insert", "refused"}
      PROVE  LET y == [x EXCEPT !.call = call]
             IN  /\ MemoryInv(y) /\ LogInv(y, log[s]) /\ y.call = call /\ y.effects = x.effects
  <2> DEFINE y == [x EXCEPT !.call = call]
  <2>1. DOMAIN y = DOMAIN x /\ y.call = call /\ \A f \in Fields : f # "call" => y[f] = x[f]
    BY <1>1 DEF Fields
  <2> HIDE DEF y
  <2>2. /\ y.effects = x.effects /\ y.pending = x.pending /\ y.failed = x.failed
        /\ y.aborted = x.aborted /\ y.stored = x.stored /\ y.verdict = x.verdict
        /\ y.told = x.told /\ y.intent = x.intent /\ y.grants = x.grants /\ y.wire = x.wire
        /\ y.tools = x.tools /\ y.tool = x.tool
        /\ y.meant = x.meant /\ y.state = x.state /\ y.pc = x.pc
    BY <2>1 DEF Fields
  <2>3. MemoryInv(y)
    BY <1>1, <2>1, <2>2 DEF MemoryInv
  <2>4. LogInv(y, log[s])
    BY <1>1, <2>2 DEF LogInv, Decided, Entry
  <2> QED
    BY <2>1, <2>2, <2>3, <2>4 DEF y
<1>4. CASE row' = [row EXCEPT ![s] = CreatedRow] /\ ses' = [ses EXCEPT ![s].call = "insert"]
  <2> DEFINE y == [x EXCEPT !.call = "insert"]
  <2>1. MemoryInv(y) /\ LogInv(y, log[s]) /\ y.call = "insert" /\ y.effects = x.effects
    BY <1>3
  <2>2. /\ DOMAIN ses' = Session /\ ses'[s] = y /\ \A t \in Session : t # s => ses'[t] = ses[t]
    BY <1>4 DEF ConnInv, ConnTypes
  <2> HIDE DEF y
  <2>3. CreatedRow \in Row /\ CreatedRow.status = "active"
    BY DEF CreatedRow, Row
  <2>4. /\ row' \in [Session -> Row] /\ row'[s] = CreatedRow
        /\ \A t \in Session : t # s => row'[t] = row[t]
    BY <1>4, <2>3 DEF ConnInv, ConnTypes
  <2>5. ConnTypes'
    BY <1>2, <2>2, <2>4 DEF ConnInv, ConnTypes
  <2>6. answers[s] = {} /\ ~Marked(log[s])
    BY <1>1 DEF RowInv
  <2>7. RowInv(s)'
    BY <1>2, <2>1, <2>2, <2>3, <2>4, <2>6 DEF RowInv, Early
  <2>8. Advances(s)
    BY <1>1, <1>2, <2>3, <2>4, LogsHave DEF Advances
  <2> QED
    BY <1>2, <2>1, <2>2, <2>4, <2>5, <2>7, <2>8, SessionMoves
<1>5. CASE ses' = [ses EXCEPT ![s].call = "refused"] /\ UNCHANGED row
  <2> DEFINE y == [x EXCEPT !.call = "refused"]
  <2>1. MemoryInv(y) /\ LogInv(y, log[s]) /\ y.effects = x.effects
    BY <1>3
  <2>2. ses' = [ses EXCEPT ![s] = y] /\ UNCHANGED <<row, log, others>>
    BY <1>2, <1>5
  <2>3. x.effects \in Nat
    BY <1>1 DEF MemoryInv
  <2> HIDE DEF y
  <2>4. /\ y.call \in Early => ses[s].call \in Early
        /\ y.effects > ses[s].effects => Begun(s)
    BY <1>1, <2>1, <2>3 DEF Early
  <2> QED
    BY <2>1, <2>2, <2>4, MemoryMoves
<1> QED
  BY <1>4, <1>5 DEF CreateSession

LEMMA CloseRowInv ==
  ASSUME ConnInv, NEW s \in Session, CloseRow(s)
  PROVE  ConnInv' /\ EffectsBegun
<1> DEFINE y == [ses[s] EXCEPT !.finish = "done"]
<1>1. ses' = [ses EXCEPT ![s] = y] /\ UNCHANGED <<log, others>>
  BY DEF CloseRow
<1>2. MemoryInv(ses[s]) /\ Resembles(ses[s], y)
  BY Watched, Timers
<1> HIDE DEF y
<1>3. /\ MemoryInv(y) /\ y.pc = ses[s].pc /\ y.stored = ses[s].stored /\ y.call = ses[s].call
      /\ y.effects = ses[s].effects
      /\ y.intent = ses[s].intent /\ y.grants = ses[s].grants
  BY <1>2, Resembling
<1>4. CASE row[s].status = "active" /\ row[s].live
  <2> DEFINE v == [row[s] EXCEPT !.status = "closed"]
  <2>1. row[s] \in Row
    BY LogsHave
  <2>2. v \in Row /\ v.status # "none"
    BY <2>1 DEF Row
  <2>3. row' = [row EXCEPT ![s] = v]
    BY <1>4 DEF CloseRow, TransitionSession
  <2> HIDE DEF v
  <2> QED
    BY <1>1, <1>2, <1>4, <2>2, <2>3, RowMoves
<1>5. CASE ~(row[s].status = "active" /\ row[s].live)
  <2>1. Remember(s, y)
    BY <1>1, <1>5 DEF CloseRow, TransitionSession, Remember
  <2> QED
    BY <1>3, <2>1, RememberInv
<1> QED
  BY <1>4, <1>5

LEMMA LeaseInv ==
  ASSUME ConnInv, NEW s \in Session, RefreshLease(s) \/ Expire(s)
  PROVE  ConnInv' /\ EffectsBegun
<1> DEFINE x == ses[s]
<1>1. MemoryInv(x) /\ row[s] \in Row /\ UNCHANGED <<log, others>>
  BY Watched, LogsHave DEF RefreshLease, Expire
<1>2. CASE RefreshLease(s) /\ row[s].lease < MaxLease /\ SetMetadata(s)
           /\ ses' = [ses EXCEPT ![s].lease = "armed"]
  <2> DEFINE y == [x EXCEPT !.lease = "armed"]
             v == [row[s] EXCEPT !.lease = @ + 1]
  <2>1. ses' = [ses EXCEPT ![s] = y] /\ Resembles(x, y)
    BY <1>1, <1>2, Timers
  <2>2. v \in Row /\ v.status = row[s].status /\ row[s].status = "active"
    BY <1>1, <1>2 DEF Row, SetMetadata, CanAppend
  <2>3. row' = [row EXCEPT ![s] = v]
    BY <1>2 DEF SetMetadata
  <2> HIDE DEF y, v
  <2> QED
    BY <1>1, <2>1, <2>2, <2>3, RowMoves
<1>3. CASE UNCHANGED row
           /\ ses' = [ses EXCEPT ![s] = [@ EXCEPT !.lease = "off", !.failed = TRUE, !.aborted = TRUE]]
  <2> DEFINE y == [x EXCEPT !.lease = "off", !.failed = TRUE, !.aborted = TRUE]
  <2>1. Fields \subseteq DOMAIN x /\ "lease" \in DOMAIN x
    BY <1>1 DEF MemoryInv, Fields, NoSession
  <2>2. /\ DOMAIN y = DOMAIN x /\ y.failed = TRUE /\ y.aborted = TRUE
        /\ \A f \in Fields : f \notin {"failed", "aborted"} => y[f] = x[f]
    BY <2>1 DEF Fields
  <2>3. Remember(s, y)
    BY <1>1, <1>3 DEF Remember
  <2> HIDE DEF y
  <2>4. /\ y.effects = x.effects /\ y.pending = x.pending
        /\ y.stored = x.stored /\ y.verdict = x.verdict
        /\ y.told = x.told /\ y.intent = x.intent /\ y.grants = x.grants /\ y.wire = x.wire
        /\ y.tools = x.tools /\ y.tool = x.tool
        /\ y.meant = x.meant /\ y.state = x.state /\ y.pc = x.pc /\ y.call = x.call
    BY <2>2 DEF Fields
  <2>5. MemoryInv(y)
    BY ZenonT(60), <1>1, <2>2, <2>4 DEF MemoryInv
  <2> QED
    BY <2>3, <2>4, <2>5, RememberInv
<1>4. CASE Expire(s)
  <2> DEFINE v == [row[s] EXCEPT !.live = FALSE]
  <2>1. row' = [row EXCEPT ![s] = v] /\ ses' = ses
    BY <1>4 DEF Expire
  <2>2. v \in Row /\ v.status = row[s].status
    BY <1>1 DEF Row
  <2> HIDE DEF v
  <2>3. /\ row' \in [Session -> Row] /\ row'[s] = v
        /\ \A t \in Session : t # s => row'[t] = row[t]
    BY <2>1, <2>2 DEF ConnInv, ConnTypes
  <2>4. log' = log /\ conn' = conn /\ restore' = restore /\ answers' = answers
    BY <1>1 DEF others
  <2>5. ConnTypes'
    BY <2>1, <2>3, <2>4 DEF ConnInv, ConnTypes
  <2>6. LogInv(x, log[s]) /\ RowInv(s)
    BY Watched
  <2>7. RowInv(s)'
    BY <2>1, <2>2, <2>3, <2>4, <2>6 DEF RowInv, Up
  <2>8. Advances(s)
    BY <2>2, <2>3, <2>4, LogsHave DEF Advances
  <2>9. /\ ses'[s] = x /\ LogInv(ses'[s], log'[s]) /\ MemoryInv(ses'[s])
        /\ \A t \in Session : t # s => ses'[t] = ses[t] /\ row'[t] = row[t] /\ log'[t] = log[t]
    BY <1>1, <2>1, <2>3, <2>4, <2>6
  <2> QED
    BY <1>1, <2>5, <2>7, <2>8, <2>9, SessionMoves
<1> QED
  BY <1>2, <1>3, <1>4 DEF RefreshLease

\* A session that is not in the map any more, or not yet.
LEMMA NothingInMemory ==
  /\ MemoryInv(NoSession) /\ \A events : LogInv(NoSession, events)
  /\ NoSession.effects = 0
<1>1. /\ NoSession.effects = 0 /\ NoSession.pending = FALSE /\ NoSession.failed = FALSE
      /\ NoSession.aborted = FALSE /\ NoSession.stored = FALSE /\ NoSession.told = "none"
      /\ NoSession.wire = "none" /\ NoSession.tool = "none" /\ NoSession.meant = "none"
      /\ NoSession.state = "none" /\ NoSession.pc = "idle"
      /\ NoSession.intent = "none" /\ NoSession.grants = {}
  BY DEF NoSession
<1>2. MemoryInv(NoSession)
  <2>1. 0 \in Nat /\ {FALSE} \subseteq BOOLEAN
    OBVIOUS
  <2>2. {NoSession.pending, NoSession.failed, NoSession.aborted, NoSession.stored} \subseteq BOOLEAN
    BY <1>1
  <2> QED
    BY <1>1, <2>1, <2>2 DEF MemoryInv
<1>3. \A events : LogInv(NoSession, events)
  BY <1>1 DEF LogInv, Called, Decisions, Backed
<1> QED
  BY <1>1, <1>2, <1>3

\* A step of the process as a whole.
LEMMA ProcessInv ==
  ASSUME ConnInv, Initialize \/ Close \/ Crash
  PROVE  ConnInv' /\ EffectsBegun
<1>1. row' = row /\ log' = log /\ restore' = restore /\ answers' = answers
  BY DEF Initialize, Close, Crash
<1>2. /\ DOMAIN ses' = Session
      /\ \A s \in Session : \/ ses'[s] = ses[s]
                            \/ ses'[s] = Cancel(ses[s]) /\ ses[s].state # "none"
                            \/ ses'[s] = NoSession /\ ~Up'
  BY DEF ConnInv, ConnTypes, Initialize, Close, Crash, Sessions, Up
<1>3. Up' => Up
  BY DEF Initialize, Close, Crash, Up
<1>4. ASSUME NEW s \in Session
      PROVE  /\ MemoryInv(ses'[s]) /\ LogInv(ses'[s], log'[s]) /\ RowInv(s)' /\ Advances(s)
             /\ ~(ses'[s].effects > ses[s].effects)
  <2>1. MemoryInv(ses[s]) /\ LogInv(ses[s], log[s]) /\ RowInv(s) /\ ses[s].effects \in Nat
    BY Watched DEF MemoryInv
  <2>2. Advances(s)
    BY <1>1, LogsHave DEF Advances
  <2>3. CASE ses'[s] = ses[s]
    <3>1. RowInv(s)'
      BY <1>1, <1>3, <2>1, <2>3 DEF RowInv
    <3> QED
      BY <1>1, <2>1, <2>2, <2>3, <3>1
  <2>4. CASE ses'[s] = Cancel(ses[s]) /\ ses[s].state # "none"
    <3> DEFINE y == Cancel(ses[s])
    <3>1. /\ MemoryInv(y) /\ y.pc = ses[s].pc /\ y.stored = ses[s].stored /\ y.call = ses[s].call
          /\ y.effects = ses[s].effects
          /\ y.intent = ses[s].intent /\ y.grants = ses[s].grants
      BY <2>1, <2>4, CancelIs
    <3>2. ses'[s] = y
      BY <2>4
    <3> HIDE DEF y
    <3>3. LogInv(y, log[s])
      BY <2>1, <3>1 DEF LogInv, Decided, Entry
    <3>4. RowInv(s)'
      BY <1>1, <1>3, <2>1, <3>1, <3>2 DEF RowInv
    <3> QED
      BY <1>1, <2>1, <2>2, <3>1, <3>2, <3>3, <3>4
  <2>5. CASE ses'[s] = NoSession /\ ~Up'
    <3>1. RowInv(s)'
      BY <1>1, <2>1, <2>5 DEF RowInv
    <3>2. ~(ses'[s].effects > ses[s].effects)
      BY <2>1, <2>5, NothingInMemory
    <3> QED
      BY <2>2, <2>5, <3>1, <3>2, NothingInMemory
  <2> QED
    BY <1>2, <2>3, <2>4, <2>5
<1>5. ConnTypes'
  BY <1>1, <1>2 DEF ConnInv, ConnTypes
<1>6. ASSUME NEW r \in Replica PROVE RestoreInv(r)'
  BY <1>1, <1>4, <1>5, RestoreStays
<1> QED
  BY <1>4, <1>5, <1>6 DEF ConnInv, EffectsBegun

-----------------------------------------------------------------------------
(* The restores on the other replicas.                                     *)

LEMMA ReplicaMoves ==
  ASSUME ConnInv, NEW r \in Replica, NEW x, Restoring(r, x), ConnTypes', RestoreInv(r)',
         \A s \in Session : Advances(s) /\ LogInv(ses[s], log'[s]) /\ RowInv(s)'
  PROVE  ConnInv' /\ EffectsBegun
<1>1. ses' = ses /\ \A q \in Replica : q # r => restore'[q] = restore[q]
  BY DEF Restoring, ConnInv, ConnTypes
<1>2. ASSUME NEW q \in Replica PROVE RestoreInv(q)'
  <2>1. CASE q = r
    BY <2>1
  <2>2. CASE q # r
    BY <1>1, <2>2, RestoreStays
  <2> QED
    BY <2>1, <2>2
<1>3. \A s \in Session : MemoryInv(ses[s]) /\ ses[s].effects \in Nat
  BY DEF ConnInv, MemoryInv
<1> QED
  BY <1>1, <1>2, <1>3 DEF ConnInv, EffectsBegun

\* A restore that only reads, and may answer about s.
LEMMA ReplicaReads ==
  ASSUME ConnInv, NEW r \in Replica, NEW x, Restoring(r, x), UNCHANGED <<row, log>>,
         \/ UNCHANGED answers
         \/ \E s \in Session : \E status :
              /\ answers' = [answers EXCEPT ![s] = @ \cup {status}]
              /\ row[s].status = "closed" /\ (status = "interrupted" <=> Marked(log[s])),
         x.at = "idle" \/ (/\ x.s \in Session /\ row[x.s].status # "none"
                           /\ DOMAIN x = {"at", "s", "status", "lease", "stopped"}
                           /\ x.status \in {"active", "closed"}
                           /\ x.status = "closed" => row[x.s].status = "closed"
                           /\ x.at \in {"size", "clock", "close", "mark", "status"}
                           /\ x.stopped = TRUE \/ x.at = "close" => LastIn(log[x.s], Stops) > 0
                           /\ x.at = "status" => row[x.s].status = "closed")
  PROVE  ConnInv' /\ EffectsBegun
<1>1. /\ ses' = ses /\ conn' = conn /\ row' = row /\ log' = log
      /\ DOMAIN restore' = Replica /\ restore'[r] = x /\ DOMAIN answers' = Session
  BY DEF Restoring, ConnInv, ConnTypes
<1>2. ConnTypes'
  BY <1>1 DEF ConnInv, ConnTypes
<1>3. RestoreInv(r)'
  BY <1>1 DEF RestoreInv, At
<1>4. ASSUME NEW s \in Session
      PROVE  Advances(s) /\ LogInv(ses[s], log'[s]) /\ RowInv(s)'
  <2>1. LogInv(ses[s], log[s]) /\ RowInv(s)
    BY Watched
  <2>2. Advances(s)
    BY <1>1, LogsHave DEF Advances
  <2>3. \/ answers'[s] = answers[s]
        \/ \E status : /\ answers'[s] = answers[s] \cup {status} /\ row[s].status = "closed"
                       /\ (status = "interrupted" <=> Marked(log[s]))
    BY DEF ConnInv, ConnTypes
  <2>4. RowInv(s)'
    BY <1>1, <2>1, <2>3 DEF RowInv, Up
  <2> QED
    BY <1>1, <2>1, <2>2, <2>4
<1> QED
  BY <1>2, <1>3, <1>4, ReplicaMoves

\* The page of the one event at the end of the log.
LEMMA LastEventIs ==
  ASSUME NEW s, log[s] \in Seq(Entries), NEW kinds
  PROVE  LastEventIn(s, kinds) <=> log[s] # << >> /\ Last(log[s]).kind \in kinds
<1> DEFINE size == Len(log[s])
<1>1. size \in Nat /\ (size > 0 <=> log[s] # << >>)
  OBVIOUS
<1>2. ASSUME size > 0 PROVE ReadEvents(s, size - 2, 1)[1] = Last(log[s])
  <2>1. (size - 2) + 2 = size /\ (size - 2) + 1 + 1 = size /\ size \in 1 .. Len(log[s])
    BY <1>1, <1>2
  <2>2. ReadEvents(s, size - 2, 1) = SubSeq(log[s], size, size)
    BY <2>1 DEF ReadEvents
  <2>3. SubSeq(log[s], size, size)[1] = log[s][size]
    BY <2>1
  <2> QED
    BY <2>2, <2>3 DEF Last
<1> QED
  BY <1>1, <1>2 DEF LastEventIn

LEMMA RestoredStatusIs ==
  ASSUME NEW s, log[s] \in Seq(Entries)
  PROVE  RestoredStatus(s) = "interrupted" <=> Marked(log[s])
<1>1. LastEventIn(s, {"restored"}) <=> Marked(log[s])
  BY LastEventIs DEF Marked
<1> QED
  BY <1>1 DEF RestoredStatus

LEMMA ReadInv ==
  ASSUME ConnInv, NEW r \in Replica, ReadRow(r) \/ ReadSize(r) \/ ReadClock(r)
  PROVE  ConnInv' /\ EffectsBegun
<1> DEFINE x == restore[r]
<1>1. UNCHANGED <<row, log, answers>> /\ RestoreInv(r)
  BY DEF ConnInv, ReadRow, ReadSize, ReadClock
<1>2. CASE ReadRow(r)
  <2>1. PICK s \in Session :
           /\ row[s].status # "none"
           /\ Restoring(r, [at |-> "size", s |-> s, status |-> row[s].status,
                            lease |-> row[s].lease, stopped |-> FALSE])
    BY <1>2 DEF ReadRow
  <2> DEFINE y == [at |-> "size", s |-> s, status |-> row[s].status,
                   lease |-> row[s].lease, stopped |-> FALSE]
  <2>2. row[s] \in Row
    BY LogsHave
  <2>3. /\ y.at = "size" /\ y.s = s /\ y.status = row[s].status /\ y.stopped = FALSE
        /\ DOMAIN y = {"at", "s", "status", "lease", "stopped"}
    OBVIOUS
  <2>4. Restoring(r, y)
    BY <2>1
  <2> HIDE DEF y
  <2>5. y.status \in {"active", "closed"}
    BY <2>1, <2>2, <2>3 DEF Row
  <2> QED
    BY <1>1, <2>1, <2>3, <2>4, <2>5, ReplicaReads
<1>3. CASE ReadSize(r)
  <2>1. /\ At(r, "size") /\ x.s \in Session /\ row[x.s].status # "none"
        /\ DOMAIN x = {"at", "s", "status", "lease", "stopped"}
        /\ x.status \in {"active", "closed"}
        /\ x.status = "closed" => row[x.s].status = "closed"
        /\ x.stopped = TRUE => LastIn(log[x.s], Stops) > 0
    BY <1>1, <1>3 DEF ReadSize, RestoreInv, At
  <2>2. CASE x.status = "active"
    <3> DEFINE stopped == LastEventIn(x.s, Stops)
               y == [x EXCEPT !.at = "clock", !.stopped = stopped]
    <3>1. Restoring(r, y)
      BY <1>3, <2>2 DEF ReadSize
    <3>2. ASSUME stopped PROVE LastIn(log[x.s], Stops) > 0
      <4>1. /\ log[x.s] \in Seq(Entries) /\ Len(log[x.s]) \in 1 .. Len(log[x.s])
            /\ log[x.s][Len(log[x.s])].kind \in Stops
        BY <2>1, <3>2, LogsHave, LastEventIs DEF Last
      <4> QED
        BY <4>1, LastInIs
    <3>3. /\ DOMAIN y = DOMAIN x /\ y.at = "clock" /\ y.stopped = stopped /\ y.s = x.s
          /\ y.status = x.status
      BY <2>1
    <3> HIDE DEF y
    <3>4. y.stopped = TRUE => LastIn(log[x.s], Stops) > 0
      BY <3>2, <3>3
    <3> HIDE DEF stopped, x
    <3> QED
      BY <1>1, <2>1, <3>1, <3>3, <3>4, ReplicaReads
  <2>3. CASE x.status # "active"
    <3> DEFINE y == [x EXCEPT !.at = "status"]
    <3>1. Restoring(r, y)
      BY <1>3, <2>3 DEF ReadSize
    <3>2. /\ DOMAIN y = DOMAIN x /\ y.at = "status" /\ y.stopped = x.stopped /\ y.s = x.s
          /\ y.status = x.status
      BY <2>1
    <3> HIDE DEF y, x
    <3> QED
      BY <1>1, <2>1, <2>3, <3>1, <3>2, ReplicaReads
  <2> QED
    BY <2>2, <2>3
<1>4. CASE ReadClock(r)
  <2>1. /\ At(r, "clock") /\ x.s \in Session /\ row[x.s].status # "none"
        /\ DOMAIN x = {"at", "s", "status", "lease", "stopped"}
        /\ x.status \in {"active", "closed"}
        /\ x.status = "closed" => row[x.s].status = "closed"
        /\ x.stopped = TRUE => LastIn(log[x.s], Stops) > 0
    BY <1>1, <1>4 DEF ReadClock, RestoreInv, At
  <2>2. CASE Restoring(r, NoRestore)
    <3>1. NoRestore.at = "idle"
      BY DEF NoRestore
    <3> QED
      BY <1>1, <2>2, <3>1, ReplicaReads
  <2> DEFINE at == IF x.stopped THEN "close" ELSE "mark"
             y == [x EXCEPT !.at = at]
  <2>3. CASE Restoring(r, y)
    <3>1. DOMAIN y = DOMAIN x /\ y.at = at /\ y.stopped = x.stopped /\ y.s = x.s /\ y.status = x.status
      BY <2>1
    <3> HIDE DEF y
    <3>2. at \in {"close", "mark"} /\ (at = "close" => LastIn(log[x.s], Stops) > 0)
      BY <2>1
    <3> HIDE DEF at, x
    <3> QED
      <4>1. /\ y.s \in Session /\ row[y.s].status # "none"
            /\ DOMAIN y = {"at", "s", "status", "lease", "stopped"}
            /\ y.status \in {"active", "closed"}
            /\ y.status = "closed" => row[y.s].status = "closed"
            /\ y.at \in {"close", "mark"}
        BY <2>1, <3>1, <3>2
      <4>2. y.stopped = TRUE \/ y.at = "close" => LastIn(log[y.s], Stops) > 0
        BY <2>1, <3>1, <3>2
      <4> QED
        BY <1>1, <2>3, <4>1, <4>2, ReplicaReads
  <2> QED
    BY <1>4, <2>2, <2>3 DEF ReadClock
<1> QED
  BY <1>2, <1>3, <1>4

\* The closing of a row by a restore, with its answer; the log is left alone or
\* gets the marker.
LEMMA RestoreEnds ==
  ASSUME ConnInv, NEW r \in Replica, NEW s \in Session, NEW status, Answer(r, s, status),
         row[s].status = "active", row' = [row EXCEPT ![s].status = "closed"],
         \/ UNCHANGED log /\ status # "interrupted"
         \/ log' = [log EXCEPT ![s] = Append(@, Marker)] /\ status = "interrupted"
  PROVE  ConnInv' /\ EffectsBegun
<1>1. /\ LogInv(ses[s], log[s]) /\ RowInv(s) /\ row[s] \in Row /\ log[s] \in Seq(Entries)
      /\ Len(log[s]) \in Nat
  BY Watched, LogsHave
<1>2. answers[s] = {} /\ ~Marked(log[s]) /\ ~(Up /\ ses[s].call \in Early)
  BY <1>1 DEF RowInv
<1>3. /\ ses' = ses /\ conn' = conn /\ restore' = [restore EXCEPT ![r] = NoRestore]
      /\ Restoring(r, NoRestore)
      /\ DOMAIN restore' = Replica /\ restore'[r] = NoRestore
      /\ DOMAIN answers' = Session /\ answers'[s] = {status}
      /\ \A t \in Session : t # s => answers'[t] = answers[t]
  BY <1>2 DEF Answer, Restoring, ConnInv, ConnTypes
<1>4. /\ row' \in [Session -> Row] /\ row'[s].status = "closed"
      /\ \A t \in Session : t # s => row'[t] = row[t]
  <2> DEFINE v == [row[s] EXCEPT !.status = "closed"]
  <2>1. v \in Row /\ v.status = "closed" /\ row' = [row EXCEPT ![s] = v]
    BY <1>1 DEF Row
  <2> HIDE DEF v
  <2> QED
    BY <2>1 DEF ConnInv, ConnTypes
<1>5. /\ log' \in [Session -> Seq(Entries)] /\ \A t \in Session : t # s => log'[t] = log[t]
      /\ \A kinds : "restored" \notin kinds => LastIn(log'[s], kinds) = LastIn(log[s], kinds)
      /\ \A i \in 1 .. Len(log[s]) : log'[s][i] = log[s][i]
      /\ \A grants : Backed(grants, log[s]) => Backed(grants, log'[s])
      /\ status = "interrupted" <=> Marked(log'[s])
  <2>1. CASE UNCHANGED log /\ status # "interrupted"
    BY <1>1, <1>2, <2>1 DEF ConnInv, ConnTypes
  <2>2. CASE log' = [log EXCEPT ![s] = Append(@, Marker)] /\ status = "interrupted"
    <3>1. Marker \in Entries /\ Marker.kind = "restored"
      BY DEF Marker, Entries
    <3>2. /\ log' \in [Session -> Seq(Entries)] /\ \A t \in Session : t # s => log'[t] = log[t]
          /\ Marked(log'[s])
          /\ \A kinds : LastIn(log'[s], kinds) = IF "restored" \in kinds THEN Len(log[s]) + 1
                                                 ELSE LastIn(log[s], kinds)
          /\ \A i \in 1 .. Len(log[s]) : log'[s][i] = log[s][i]
          /\ \A grants : Backed(grants, log[s]) => Backed(grants, log'[s])
      <4>1. log' = [log EXCEPT ![s] = Append(@, Marker)]
        BY <2>2
      <4> DEFINE e == Marker
      <4>2. e \in Entries /\ e.kind = "restored" /\ log' = [log EXCEPT ![s] = Append(@, e)]
        BY <3>1, <4>1
      <4> HIDE DEF e
      <4>3. /\ log' \in [Session -> Seq(Entries)] /\ \A t \in Session : t # s => log'[t] = log[t]
            /\ \A kinds : LastIn(log'[s], kinds) = IF e.kind \in kinds THEN Len(log[s]) + 1
                                                   ELSE LastIn(log[s], kinds)
            /\ \A i \in 1 .. Len(log[s]) : log'[s][i] = log[s][i]
            /\ \A grants : Backed(grants, log[s]) => Backed(grants, log'[s])
            /\ Marked(log'[s]) <=> e.kind = "restored"
        BY <4>2, Appending
      <4> QED
        BY <4>2, <4>3
    <3> QED
      BY <1>1, <2>2, <3>2
  <2> QED
    BY <2>1, <2>2
<1>6. ConnTypes'
  BY <1>3, <1>4, <1>5 DEF ConnInv, ConnTypes
<1>7. RestoreInv(r)'
  BY <1>3 DEF RestoreInv, At, NoRestore
<1>8. ASSUME NEW t \in Session
      PROVE  Advances(t) /\ LogInv(ses[t], log'[t]) /\ RowInv(t)'
  <2>1. CASE t = s
    <3>1. "restored" \notin Stops /\ "restored" \notin Decisions
      BY DEF Stops, Decisions
    <3>2. LogInv(ses[s], log'[s])
      <4>1. LastIn(log[s], Decisions) \in 0 .. Len(log[s]) /\ LastIn(log[s], {"call"}) \in Nat
        <5>1. \A kinds : LastIn(log[s], kinds) \in 0 .. Len(log[s])
          BY LogsHave
        <5> DEFINE i == LastIn(log[s], Decisions)
                   call == LastIn(log[s], {"call"})
        <5>2. i \in 0 .. Len(log[s]) /\ call \in 0 .. Len(log[s])
          BY <5>1
        <5> HIDE DEF i, call
        <5>3. call \in Nat
          BY <1>1, <5>2
        <5> QED
          BY <5>2, <5>3 DEF i, call
      <4>2. Decided(ses[s], log[s]) => Decided(ses[s], log'[s])
        <5>1. /\ LastIn(log'[s], Decisions) = LastIn(log[s], Decisions)
              /\ LastIn(log'[s], {"call"}) = LastIn(log[s], {"call"})
          BY <1>5, <3>1
        <5> DEFINE i == LastIn(log[s], Decisions)
                   call == LastIn(log[s], {"call"})
        <5>2. i \in 0 .. Len(log[s]) /\ call \in Nat
          BY <4>1
        <5> HIDE DEF i, call
        <5>3. i > call => log'[s][i] = log[s][i]
          BY <1>1, <1>5, <5>2
        <5> QED
          BY <5>1, <5>3 DEF Decided, i, call
      <4> QED
        BY <1>1, <1>5, <4>2 DEF LogInv
    <3>3. Advances(s)
      BY <1>4, <1>5, <3>1 DEF Advances
    <3>4. RowInv(s)'
      BY <1>2, <1>3, <1>4, <1>5 DEF RowInv, Up
    <3> QED
      BY <2>1, <3>2, <3>3, <3>4
  <2>2. CASE t # s
    <3>1. LogInv(ses[t], log[t]) /\ RowInv(t)
      BY Watched
    <3>2. row'[t] = row[t] /\ log'[t] = log[t] /\ answers'[t] = answers[t]
      BY <1>3, <1>4, <1>5, <2>2
    <3>3. RowInv(t)'
      BY <1>3, <3>1, <3>2 DEF RowInv, Up
    <3>4. Advances(t)
      BY <3>2, LogsHave DEF Advances
    <3> QED
      BY <3>1, <3>2, <3>3, <3>4
  <2> QED
    BY <2>1, <2>2
<1> QED
  BY <1>3, <1>6, <1>7, <1>8, ReplicaMoves

LEMMA FinishRestoreInv ==
  ASSUME ConnInv, NEW r \in Replica, RestoreCloses(r) \/ RestoreMarks(r) \/ ReadStatus(r)
  PROVE  ConnInv' /\ EffectsBegun
<1> DEFINE x == restore[r]
           y == [x EXCEPT !.at = "status"]
<1>1. /\ x.s \in Session /\ row[x.s].status # "none"
      /\ DOMAIN x = {"at", "s", "status", "lease", "stopped"}
      /\ x.status \in {"active", "closed"}
      /\ x.status = "closed" => row[x.s].status = "closed"
      /\ x.stopped = TRUE => LastIn(log[x.s], Stops) > 0
      /\ x.at = "status" => row[x.s].status = "closed"
  BY DEF ConnInv, RestoreInv, At, RestoreCloses, RestoreMarks, ReadStatus
<1>2. DOMAIN y = DOMAIN x /\ y.at = "status" /\ y.s = x.s /\ y.status = x.status /\ y.stopped = x.stopped
  BY <1>1
<1>3. ASSUME Restoring(r, y), UNCHANGED <<row, log, answers>>, row[x.s].status = "closed"
      PROVE  ConnInv' /\ EffectsBegun
  <2> HIDE DEF x, y
  <2> QED
    BY <1>1, <1>2, <1>3, ReplicaReads
<1>4. CASE RestoreCloses(r)
  <2>1. CASE row[x.s].status = "active"
    <3>1. row' = [row EXCEPT ![x.s].status = "closed"] /\ Answer(r, x.s, "completed") /\ UNCHANGED log
      BY <1>4, <2>1 DEF RestoreCloses, TransitionSession
    <3> HIDE DEF x
    <3> QED
      BY <1>1, <2>1, <3>1, RestoreEnds
  <2>2. CASE row[x.s].status # "active"
    <3>1. Restoring(r, y) /\ UNCHANGED <<row, log, answers>> /\ row[x.s].status = "closed"
      BY <1>4, <2>2 DEF RestoreCloses
    <3> QED
      BY <1>3, <3>1
  <2> QED
    BY <2>1, <2>2
<1>5. CASE RestoreMarks(r)
  <2>1. CASE Restoring(r, NoRestore) /\ UNCHANGED <<row, log, answers>>
    <3>1. NoRestore.at = "idle"
      BY DEF NoRestore
    <3> QED
      BY <2>1, <3>1, ReplicaReads
  <2>2. CASE /\ row[x.s].status = "active" /\ row' = [row EXCEPT ![x.s].status = "closed"]
             /\ log' = [log EXCEPT ![x.s] = Append(@, Marker)]
             /\ Answer(r, x.s, "interrupted")
    <3> HIDE DEF x
    <3> QED
      BY <1>1, <2>2, RestoreEnds
  <2>3. CASE Restoring(r, y) /\ UNCHANGED <<row, log, answers>> /\ row[x.s].status = "closed"
    BY <1>3, <2>3
  <2> QED
    BY <1>5, <2>1, <2>2, <2>3 DEF RestoreMarks
<1>6. CASE ReadStatus(r)
  <2> DEFINE status == RestoredStatus(x.s)
  <2>1. /\ Restoring(r, NoRestore) /\ answers' = [answers EXCEPT ![x.s] = @ \cup {status}]
        /\ UNCHANGED <<row, log>> /\ row[x.s].status = "closed"
    BY <1>1, <1>6 DEF ReadStatus, Answer, At
  <2>2. status = "interrupted" <=> Marked(log[x.s])
    BY <1>1, LogsHave, RestoredStatusIs
  <2>3. NoRestore.at = "idle"
    BY DEF NoRestore
  <2> HIDE DEF status, x
  <2> QED
    BY <1>1, <2>1, <2>2, <2>3, ReplicaReads
<1> QED
  BY <1>4, <1>5, <1>6

-----------------------------------------------------------------------------
(* The specification.                                                      *)

LEMMA InitInv ==
  ASSUME Init
  PROVE  ConnInv
<1>1. ConnTypes
  BY DEF Init, ConnTypes, NoRow, Row
<1>2. ASSUME NEW s \in Session PROVE MemoryInv(ses[s]) /\ LogInv(ses[s], log[s]) /\ RowInv(s)
  <2>1. /\ ses[s] = NoSession /\ row[s].status = "none" /\ log[s] = << >> /\ answers[s] = {}
    BY DEF Init, NoRow
  <2>2. ~Marked(log[s])
    BY <2>1 DEF Marked
  <2>3. RowInv(s)
    BY <2>1, <2>2 DEF RowInv
  <2> QED
    BY <2>1, <2>3, NothingInMemory
<1>3. ASSUME NEW r \in Replica PROVE RestoreInv(r)
  BY DEF Init, RestoreInv, At, NoRestore
<1> QED
  BY <1>1, <1>2, <1>3 DEF ConnInv

LEMMA StutterInv ==
  ASSUME ConnInv, UNCHANGED vars
  PROVE  ConnInv' /\ EffectsBegun
<1>1. /\ ses' = ses /\ row' = row /\ log' = log /\ conn' = conn /\ restore' = restore
      /\ answers' = answers
  BY DEF vars
<1>2. ConnTypes' /\ \A s \in Session : RowInv(s)'
  BY <1>1 DEF ConnInv, ConnTypes, RowInv, Up
<1>3. \A r \in Replica : RestoreInv(r)'
  BY <1>1 DEF ConnInv, RestoreInv, At
<1>4. \A s \in Session : MemoryInv(ses[s]) /\ LogInv(ses[s], log[s]) /\ ses[s].effects \in Nat
  BY DEF ConnInv, MemoryInv
<1> QED
  BY <1>1, <1>2, <1>3, <1>4 DEF ConnInv, EffectsBegun

LEMMA NextInv ==
  ASSUME ConnInv, [Next]_vars
  PROVE  ConnInv' /\ EffectsBegun
<1>1. CASE \E s \in Session : Loop(s) \/ Answered(s)
  BY <1>1, LoopInv
<1>2. CASE \E s \in Session : NewSession(s) \/ InsertSession(s) \/ Prompt(s)
  BY <1>2, OpeningInv
<1>3. CASE \E s \in Session : CreateSession(s)
  BY <1>3, CreateInv
<1>4. CASE \E s \in Session : PromptEnds(s) \/ IdleTimeout(s) \/ CancelSession(s) \/ LeaseTimer(s)
  BY <1>4, EndingInv
<1>5. CASE \E s \in Session : CloseRow(s)
  BY <1>5, CloseRowInv
<1>6. CASE \E s \in Session : PermissionTimeout(s) \/ RespondPermission(s)
  BY <1>6, AnswerInv
<1>7. CASE \E s \in Session : RefreshLease(s) \/ Expire(s)
  BY <1>7, LeaseInv
<1>8. CASE Initialize \/ Close \/ Crash
  BY <1>8, ProcessInv
<1>9. CASE \E r \in Replica : ReadRow(r) \/ ReadSize(r) \/ ReadClock(r)
  BY <1>9, ReadInv
<1>10. CASE \E r \in Replica : RestoreCloses(r) \/ RestoreMarks(r) \/ ReadStatus(r)
  BY <1>10, FinishRestoreInv
<1>11. CASE UNCHANGED vars
  BY <1>11, StutterInv
<1> QED
  BY <1>1, <1>2, <1>3, <1>4, <1>5, <1>6, <1>7, <1>8, <1>9, <1>10, <1>11 DEF Next

\* At every moment the durable row, the log, the memory of the connection and
\* what every restore has read fit together (connection.ts, run.ts).
THEOREM ConnInvHolds == Spec => []ConnInv
<1>1. Init => ConnInv
  BY InitInv
<1>2. ConnInv /\ [Next]_vars => ConnInv'
  BY NextInv
<1> QED
  BY <1>1, <1>2, PTL DEF Spec

\* respondPermission, the timer of awaitPermission, a cancel and denyPending
\* race, in any order and with any number of requests: an answer the client was
\* told was accepted is the one the asker gets.
THEOREM AcceptedAnswerStandsHolds == Spec => []AcceptedAnswerStands
<1>1. ConnInv => AcceptedAnswerStands
  BY DEF ConnInv, MemoryInv, AcceptedAnswerStands
<1> QED
  BY <1>1, ConnInvHolds, PTL

\* Whatever any number of replicas have answered in restoreSession agrees with
\* the log, now and from then on.
THEOREM RestoresAgreeHolds == Spec => []RestoresAgree
<1>1. ConnInv => RestoresAgree
  BY DEF ConnInv, RowInv, Marked, RestoresAgree
<1> QED
  BY <1>1, ConnInvHolds, PTL

\* executeTool is reached only behind recordEvent's awaits: when a tool begins,
\* its call is durable without a result, and so is what allowed it: the policy,
\* the answer about this call or, for a repeated command, the answer for the run.
THEOREM EffectsAreDurableHolds == Spec => EffectsAreDurable
<1> DEFINE Step == \A s \in Session : ses'[s].effects > ses[s].effects =>
                     /\ ~ses[s].aborted /\ ~ses[s].failed
                     /\ LastOf(s, {"call"}) > LastOf(s, {"result"})
                     /\ Authorized(s)
                     /\ ses[s].tool = ses[s].meant
<1>1. ConnInv /\ [Next]_vars => Step
  BY NextInv DEF EffectsBegun, Begun
<1>2. ConnInv /\ [Next]_vars => [Step]_vars
  BY <1>1
<1> HIDE DEF Step
<1>3. Spec => [][Step]_vars
  BY <1>2, ConnInvHolds, PTL DEF Spec
<1> QED
  BY <1>3 DEF EffectsAreDurable, Step

\* Who closes an active row whose lease is live.
LEMMA LiveRowCloses ==
  ASSUME ConnInv, [Next]_vars, NEW s \in Session,
         row[s].status = "active", row'[s].status = "closed", row[s].live
  PROVE  ses[s].finish = "closing" \/ LastOf(s, Stops) > 0
<1>0. row \in [Session -> Row] /\ row' # row
  BY DEF ConnInv, ConnTypes
<1>1. CASE \E t \in Session : Loop(t) \/ Answered(t)
  <2>1. PICK t \in Session : LoopStep(t) \/ Provider(t)
    BY <1>1 DEF Loop, Answered
  <2>2. ASSUME NEW x, NEW l, Goto(t, x, l) PROVE row' = row
    BY <2>2 DEF Goto
  <2>3. ASSUME NEW x, NEW plan, Receive(t, x, plan) PROVE row' = row
    BY <2>2, <2>3 DEF Receive
  <2>4. ASSUME NEW x, NextTurn(t, x) \/ NextCall(t, x) \/ Execute(t, x) PROVE row' = row
    BY <2>2, <2>4 DEF NextTurn, NextCall, Execute
  <2>5. ASSUME NEW x, NEW verdict, Resolved(t, x, verdict) PROVE row' = row
    BY <2>2, <2>5 DEF Resolved
  <2>6. row' = row
    <3>1. CASE Commit(t) \/ Refuse(t) \/ ProviderResponds(t)
      BY <2>3, <3>1 DEF Commit, Refuse, ProviderResponds
    <3>2. CASE ProviderAnswers(t)
      BY <2>3, <3>2 DEF ProviderAnswers
    <3>3. CASE Requested(t) \/ Deadline(t) \/ CallerAborts(t)
      BY <2>2, <2>3, <3>3 DEF Requested, Deadline, CallerAborts
    <3>4. CASE Created(t) \/ Started(t) \/ Responded(t) \/ ResultRecorded(t)
      BY <2>2, <2>4, <3>4 DEF Created, Started, Responded, ResultRecorded
    <3>5. CASE ResponseFailed(t) \/ ErrorRecorded(t) \/ Warned(t) \/ CallRecorded(t)
      BY <2>2, <3>5 DEF ResponseFailed, ErrorRecorded, Warned, CallRecorded
    <3>6. CASE PolicyRecorded(t) \/ ResolutionRecorded(t)
      BY <2>2, <2>4, <3>6 DEF PolicyRecorded, ResolutionRecorded
    <3>7. CASE AskRecorded(t) \/ PermissionSettled(t)
      BY <2>2, <2>5, <3>7 DEF AskRecorded, PermissionSettled
    <3>8. CASE ToolEnds(t) \/ StopRecorded(t) \/ SandboxAsks(t)
      BY <2>2, <3>8 DEF ToolEnds, StopRecorded, SandboxAsks
    <3>9. CASE \/ SandboxPolicyRecorded(t) \/ SandboxAskRecorded(t)
              \/ SandboxPermissionSettled(t) \/ SandboxResolutionRecorded(t)
      BY <2>2, <3>9 DEF SandboxPolicyRecorded, SandboxAskRecorded, SandboxPermissionSettled,
                       SandboxResolutionRecorded
    <3> QED
      BY <2>1, <3>1, <3>2, <3>3, <3>4, <3>5, <3>6, <3>7, <3>8, <3>9 DEF LoopStep, Provider
  <2> QED
    BY <1>0, <2>6
<1>2. CASE \E t \in Session :
             \/ NewSession(t) \/ InsertSession(t) \/ Prompt(t) \/ PromptEnds(t)
             \/ IdleTimeout(t) \/ CancelSession(t) \/ LeaseTimer(t)
             \/ PermissionTimeout(t) \/ RespondPermission(t)
  BY <1>0, <1>2 DEF NewSession, InsertSession, Prompt, PromptEnds, IdleTimeout, CancelSession,
                    LeaseTimer, PermissionTimeout, RespondPermission, Remember
<1>3. CASE \E t \in Session : CreateSession(t) \/ RefreshLease(t) \/ Expire(t)
  <2>1. PICK t \in Session : CreateSession(t) \/ RefreshLease(t) \/ Expire(t)
    BY <1>3
  <2>2. \E v : row' = [row EXCEPT ![t] = v] /\ (v.status = row[t].status \/ v = CreatedRow)
    <3>1. row[t] \in Row
      BY <1>0
    <3>2. CASE CreateSession(t)
      BY <1>0, <3>2 DEF CreateSession
    <3>3. CASE RefreshLease(t)
      <4> DEFINE v == [row[t] EXCEPT !.lease = @ + 1]
      <4>1. row' = [row EXCEPT ![t] = v] /\ v.status = row[t].status
        BY <1>0, <3>1, <3>3 DEF RefreshLease, SetMetadata, Row
      <4> QED
        BY <4>1
    <3>4. CASE Expire(t)
      <4> DEFINE v == [row[t] EXCEPT !.live = FALSE]
      <4>1. row' = [row EXCEPT ![t] = v] /\ v.status = row[t].status
        BY <1>0, <3>1, <3>4 DEF Expire, Row
      <4> QED
        BY <4>1
    <3> QED
      BY <2>1, <3>2, <3>3, <3>4
  <2>3. row'[s].status = row[s].status \/ row'[s].status = "active"
    BY <1>0, <2>2 DEF CreatedRow
  <2> QED
    BY <2>3
<1>4. CASE \E t \in Session : CloseRow(t)
  <2>1. PICK t \in Session : CloseRow(t)
    BY <1>4
  <2>2. t = s
    BY <1>0, <2>1 DEF CloseRow, TransitionSession
  <2> QED
    BY <2>1, <2>2 DEF CloseRow
<1>5. CASE Initialize \/ Close \/ Crash
  BY <1>0, <1>5 DEF Initialize, Close, Crash
<1>6. CASE \E r \in Replica : ReadRow(r) \/ ReadSize(r) \/ ReadClock(r) \/ ReadStatus(r)
  BY <1>0, <1>6 DEF ReadRow, ReadSize, ReadClock, ReadStatus
<1>7. CASE \E r \in Replica : RestoreCloses(r)
  <2>1. PICK r \in Replica : RestoreCloses(r)
    BY <1>7
  <2>2. restore[r].s = s
    BY <1>0, <2>1 DEF RestoreCloses, TransitionSession
  <2>3. LastIn(log[s], Stops) > 0
    BY <2>1, <2>2 DEF ConnInv, RestoreInv, RestoreCloses, At
  <2> QED
    BY <2>3, LastOfIs
<1>8. CASE \E r \in Replica : RestoreMarks(r)
  <2>1. PICK r \in Replica : RestoreMarks(r)
    BY <1>8
  <2>2. restore[r].s = s /\ Recoverable(restore[r])
    BY <1>0, <2>1 DEF RestoreMarks
  <2> QED
    BY <2>2 DEF Recoverable
<1>9. CASE UNCHANGED vars
  BY <1>0, <1>9 DEF vars
<1> QED
  BY <1>1, <1>2, <1>3, <1>4, <1>5, <1>6, <1>7, <1>8, <1>9 DEF Next

\* restoreSession on another replica closes no row whose owner's lease is live,
\* unless the stop of the run is in the log; the owner closes its own.
THEOREM RestoreSparesLiveOwnerHolds == Spec => RestoreSparesLiveOwner
<1> DEFINE Step == \A s \in Session :
                     row[s].status = "active" /\ row'[s].status = "closed" /\ row[s].live
                       => ses[s].finish = "closing" \/ LastOf(s, Stops) > 0
<1>1. ConnInv /\ [Next]_vars => Step
  BY LiveRowCloses
<1>2. ConnInv /\ [Next]_vars => [Step]_vars
  BY <1>1
<1> HIDE DEF Step
<1>3. Spec => [][Step]_vars
  BY <1>2, ConnInvHolds, PTL DEF Spec
<1> QED
  BY <1>3 DEF RestoreSparesLiveOwner, Step

=============================================================================
