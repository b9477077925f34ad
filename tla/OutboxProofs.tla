----------------------------- MODULE OutboxProofs ----------------------------
(***************************************************************************)
(* Proofs about Outbox, for any number of writers, publishers, events and  *)
(* faults: the safety of the stream and of the claims, and that every step *)
(* is a step of OrderedDelivery.  That everything is delivered in the end  *)
(* is model-checked only.                                                  *)
(***************************************************************************)
EXTENDS Outbox, FiniteSetTheorems, TLAPS

-----------------------------------------------------------------------------
(* The invariant.                                                          *)
Entry == [state : {"absent", "pending", "published"}, publisher : Publisher \union {None},
          fence : Nat, lapsed : BOOLEAN, due : BOOLEAN]

Types ==
  /\ nextSequence \in 1 .. MaxEvents + 1
  /\ allocated \in [Writer -> Nat]
  /\ entries \in [Sequence -> Entry]
  /\ stream \in Seq(Nat)
  /\ pc \in [Publisher -> Passing \union {"idle", "down"}]
  /\ DOMAIN claim = Publisher

\* One transaction at a time is numbered and not committed; every number before
\* the next one is its, or in the table.
Numbered ==
  /\ \A w \in Writer : allocated[w] # 0 =>
       /\ allocated[w] \in Sequence /\ nextSequence = allocated[w] + 1
       /\ entries[allocated[w]].state = "absent"
  /\ \A v, w \in Writer : allocated[v] # 0 /\ allocated[w] # 0 => v = w
  /\ \A e \in Sequence : entries[e].state # "absent" => e < nextSequence
  /\ \A e \in Sequence : e < nextSequence =>
       entries[e].state # "absent" \/ \E w \in Writer : allocated[w] = e
  /\ \A e \in Sequence : entries[e].state = "absent" => entries[e].publisher = None

\* An event whose turn has come: all before it are written off.
Reached(e) ==
  /\ e \in Sequence /\ entries[e].state # "absent"
  /\ \A f \in Sequence : f < e => entries[f].state = "published"

\* Whatever is worked on, by a holder or by a publisher that lost its claim,
\* has been reached, and so has what a forgotten sink call may still deliver.
Working == {"sending", "marking", "releasing"}
Claims ==
  /\ \A p \in Publisher : pc[p] \in Working => Reached(claim[p].event)
  /\ \A p \in Publisher : pc[p] = "marking" => claim[p].event <= Len(stream)
  /\ \A e \in inFlight : Reached(e)

Streamed ==
  /\ StreamInOrder /\ PublishedIsDelivered
  /\ Len(stream) <= MaxEvents
  /\ \A e \in Sequence : e <= Len(stream) => entries[e].state # "absent"
  /\ \A e, f \in Sequence : entries[e].state = "published" /\ f < e => entries[f].state = "published"

OutboxInv == Types /\ Numbered /\ Claims /\ Streamed

-----------------------------------------------------------------------------
(* What the repository's calls do to the table.                            *)
LEMMA ClaimedIs ==
  ASSUME Types, NEW p \in Publisher, NEW e \in Sequence
  PROVE  /\ Claimed(p, e) \in [Sequence -> Entry]
         /\ \A f \in Sequence : Claimed(p, e)[f].state = entries[f].state
         /\ \A f \in Sequence : f # e => Claimed(p, e)[f] = entries[f]
<1>1. entries[e] \in Entry /\ entries[e].fence + 1 \in Nat
  BY DEF Types, Entry
<1>2. TakenBy(entries[e], p) \in Entry
  BY <1>1 DEF Entry, TakenBy
<1>3. Claimed(p, e) \in [Sequence -> Entry]
  BY <1>2 DEF Claimed, Types
<1>4. \A f \in Sequence : Claimed(p, e)[f].state = entries[f].state
  BY DEF Claimed, TakenBy, Entry, Types
<1>5. \A f \in Sequence : f # e => Claimed(p, e)[f] = entries[f]
  BY DEF Claimed, TakenBy, Types
<1> QED
  BY <1>3, <1>4, <1>5

LEMMA MarkedIs ==
  ASSUME Types, NEW p \in Publisher, claim[p].event \in Sequence
  PROVE  /\ Marked(p) \in [Sequence -> Entry]
         /\ \A f \in Sequence : f # claim[p].event \/ ~HoldsClaim(p) => Marked(p)[f] = entries[f]
         /\ HoldsClaim(p) => Marked(p)[claim[p].event].state = "published"
<1> DEFINE e == claim[p].event
<1>1. entries \in [Sequence -> Entry] /\ e \in Sequence /\ entries[e] \in Entry
  BY DEF Types
<1>2. Published(entries[e]) \in Entry /\ Published(entries[e]).state = "published"
  BY <1>1 DEF Published, Entry
<1>3. CASE HoldsClaim(p)
  <2>1. Marked(p) = [entries EXCEPT ![e] = Published(entries[e])]
    BY <1>3 DEF Marked
  <2> HIDE DEF e
  <2>2. Marked(p) \in [Sequence -> Entry]
    BY <1>1, <1>2, <2>1
  <2>3. \A f \in Sequence : f # e => Marked(p)[f] = entries[f]
    BY <1>1, <2>1
  <2>4. Marked(p)[e] = Published(entries[e])
    BY <1>1, <2>1
  <2> QED
    BY <1>2, <1>3, <2>2, <2>3, <2>4 DEF e
<1>4. CASE ~HoldsClaim(p)
  <2>1. Marked(p) = entries
    BY <1>4 DEF Marked
  <2> QED
    BY <1>1, <1>4, <2>1
<1> QED
  BY <1>3, <1>4

LEMMA ReleasedIs ==
  ASSUME Types, NEW p \in Publisher, claim[p].event \in Sequence
  PROVE  /\ Released(p) \in [Sequence -> Entry]
         /\ \A f \in Sequence : Released(p)[f].state = entries[f].state
         /\ \A f \in Sequence : f # claim[p].event \/ ~HoldsClaim(p) => Released(p)[f] = entries[f]
<1> DEFINE e == claim[p].event
<1>1. entries \in [Sequence -> Entry] /\ e \in Sequence /\ entries[e] \in Entry
  BY DEF Types
<1>2. Freed(entries[e]) \in Entry /\ Freed(entries[e]).state = entries[e].state
  BY <1>1 DEF Freed, Entry
<1>3. CASE HoldsClaim(p)
  <2>1. Released(p) = [entries EXCEPT ![e] = Freed(entries[e])]
    BY <1>3 DEF Released
  <2> HIDE DEF e
  <2>2. Released(p) \in [Sequence -> Entry]
    BY <1>1, <1>2, <2>1
  <2>3. \A f \in Sequence : f # e => Released(p)[f] = entries[f]
    BY <1>1, <2>1
  <2>4. Released(p)[e] = Freed(entries[e])
    BY <1>1, <2>1
  <2>5. \A f \in Sequence : Released(p)[f].state = entries[f].state
    BY <1>2, <2>3, <2>4
  <2> QED
    BY <1>3, <2>2, <2>3, <2>5 DEF e
<1>4. CASE ~HoldsClaim(p)
  <2>1. Released(p) = entries
    BY <1>4 DEF Released
  <2> QED
    BY <1>1, <1>4, <2>1
<1> QED
  BY <1>3, <1>4

\* The head of the queue is the only event that can be claimed.
LEMMA ClaimableIsReached ==
  ASSUME OutboxInv, NEW e \in Sequence, Claimable(e)
  PROVE  Reached(e)
<1> USE DEF OutboxInv, Types, Sequence
<1> SUFFICES ASSUME NEW f \in Sequence, f < e PROVE entries[f].state = "published"
  BY DEF Claimable, FirstUnpublished, Reached
<1>1. entries[f].state \in {"absent", "pending", "published"}
  BY DEF Entry
<1>2. entries[f].state # "pending" /\ entries[e].state # "absent"
  BY DEF Claimable, FirstUnpublished
<1>3. entries[f].state # "absent"
  BY <1>2 DEF Numbered
<1> QED
  BY <1>1, <1>2, <1>3

\* The stream takes an event that was reached at its end, or has it already.
LEMMA StoredIs ==
  ASSUME OutboxInv, NEW e \in Sequence, Reached(e)
  PROVE  /\ Stored(e) \in Seq(Nat)
         /\ \/ Stored(e) = stream /\ e <= Len(stream)
            \/ Stored(e) = Append(stream, e) /\ e = Len(stream) + 1
<1> USE DEF OutboxInv, Types, Sequence
<1>1. Len(stream) \in Nat /\ DOMAIN stream = 1 .. Len(stream) /\ MaxEvents \in Nat
  BY OutboxAssumption
<1>2. CASE e <= Len(stream)
  <2>1. stream[e] = e
    BY <1>1, <1>2 DEF Streamed, StreamInOrder
  <2>2. e \in DOMAIN stream
    BY <1>1, <1>2
  <2>3. Stored(e) = stream
    BY <2>1, <2>2 DEF Stored
  <2>4. stream \in Seq(Nat)
    OBVIOUS
  <2> HIDE DEF OutboxInv, Types, Sequence
  <2> QED
    BY <1>2, <2>3, <2>4
<1>3. CASE e > Len(stream)
  <2>1. \A i \in DOMAIN stream : stream[i] # e
    <3>1. \A i \in DOMAIN stream : stream[i] = i /\ i <= Len(stream) /\ i \in Int
      BY <1>1 DEF Streamed, StreamInOrder
    <3> QED
      BY <3>1, <1>1, <1>3
  <2>2. Stored(e) = Append(stream, e)
    BY <2>1 DEF Stored
  <2>3. e = Len(stream) + 1
    <3>1. CASE e = 1
      BY <3>1, <1>1, <1>3
    <3>2. CASE e # 1
      <4>1. e - 1 \in Sequence /\ e - 1 < e
        BY <3>2, <1>1
      <4>2. entries[e - 1].state = "published"
        BY <4>1 DEF Reached
      <4>3. e - 1 <= Len(stream)
        BY <4>1, <4>2 DEF Streamed, PublishedIsDelivered
      <4> QED
        BY <4>3, <1>1, <1>3
    <3> QED
      BY <3>1, <3>2
  <2> QED
    BY <2>2, <2>3, <1>1
<1> QED
  BY <1>1, <1>2, <1>3

-----------------------------------------------------------------------------
(* What a step is: it numbers or commits an event, it writes an event off, *)
(* or it leaves the log as it is and perhaps stores an event.              *)
SameLog ==
  /\ UNCHANGED <<nextSequence, allocated>>
  /\ \A e \in Sequence : entries'[e].state = entries[e].state
  /\ \A e \in Sequence : entries[e].state = "absent" => entries'[e].publisher = entries[e].publisher
WritesOff ==
  /\ UNCHANGED <<nextSequence, allocated, stream>>
  /\ \E p \in Publisher :
       /\ pc[p] = "marking" /\ HoldsClaim(p)
       /\ entries'[claim[p].event].state = "published"
       /\ \A e \in Sequence : e # claim[p].event => entries'[e] = entries[e]
Stores == \E e \in Sequence : Reached(e) /\ stream' = Stored(e)
Writes == UNCHANGED <<sink, pc, claim>> /\ \E w \in Writer : WriterStep(w)

\* Who works on what after it.
Works ==
  \A p \in Publisher : pc'[p] \in Working =>
    \/ /\ pc[p] \in Working /\ claim'[p] = claim[p]
       /\ pc'[p] = "marking" =>
            \/ pc[p] = "marking"
            \/ pc[p] = "sending" /\ stream' = Stored(claim[p].event)
    \/ pc'[p] = "sending" /\ claim'[p].event \in Sequence /\ Claimable(claim'[p].event)
Flies == \A e \in inFlight' : e \in inFlight \/ \E p \in Publisher : pc[p] = "sending" /\ claim[p].event = e

Kind ==
  /\ entries' \in [Sequence -> Entry] /\ pc' \in [Publisher -> Passing \union {"idle", "down"}]
  /\ DOMAIN claim' = Publisher
  /\ Works /\ Flies
  /\ Writes \/ WritesOff \/ (SameLog /\ (UNCHANGED stream \/ Stores))

LEMMA WriterKind ==
  ASSUME OutboxInv, NEW w \in Writer, WriterStep(w)
  PROVE  Kind
<1> USE DEF OutboxInv, Types
<1>1. UNCHANGED <<sink, pc, claim>>
  BY DEF WriterStep, Allocate, Commit, Rollback, control
<1>2. entries' \in [Sequence -> Entry]
  <2>1. [NoEntry EXCEPT !.state = "pending", !.due = TRUE] \in Entry
    BY DEF NoEntry, Entry
  <2> QED
    BY <2>1 DEF WriterStep, Allocate, Commit, Rollback
<1>3. Works /\ Flies
  BY <1>1 DEF Works, Flies, sink
<1> QED
  BY <1>1, <1>2, <1>3 DEF Kind, Writes

\* A step that leaves the table and the claims alone.
LEMMA StillKind ==
  ASSUME OutboxInv, UNCHANGED <<tables, stream>>, Works, Flies, DOMAIN claim' = Publisher,
         pc' \in [Publisher -> Passing \union {"idle", "down"}]
  PROVE  Kind
BY DEF OutboxInv, Types, Kind, SameLog, tables

LEMMA PassKind ==
  ASSUME OutboxInv, NEW p \in Publisher,
         Kick(p) \/ Flush(p) \/ Settle(p) \/ Close(p) \/ Restart(p) \/ Crash(p)
  PROVE  Kind
<1> USE DEF OutboxInv, Types, Goto, BeginPass, Working, Passing
<1>1. UNCHANGED <<tables, stream, claim>>
  BY DEF Kick, Flush, Settle, Close, Restart, Crash, sink
<1>2. pc' \in [Publisher -> Passing \union {"idle", "down"}]
  BY DEF Kick, Flush, Settle, Close, Restart, Crash
<1>3. Works
  BY <1>1 DEF Works, Kick, Flush, Settle, Close, Restart, Crash
<1>4. Flies
  BY DEF Flies, Kick, Flush, Settle, Close, Restart, Crash, sink
<1> QED
  BY <1>1, <1>2, <1>3, <1>4, StillKind

LEMMA ClaimKind ==
  ASSUME OutboxInv, NEW p \in Publisher, ClaimNext(p) \/ ClaimFails(p)
  PROVE  Kind
<1> USE DEF OutboxInv, Types, Goto, Working, Passing
<1>1. pc[p] = "claiming" /\ UNCHANGED <<nextSequence, allocated, sink>>
  BY DEF ClaimNext, ClaimFails, Drained, tables
<1>2. entries' = entries \/ \E e \in Sequence : Claimable(e) /\ entries' = Claimed(p, e)
  BY DEF ClaimNext, ClaimFails, tables
<1>3. /\ entries' \in [Sequence -> Entry]
      /\ \A e \in Sequence : entries'[e].state = entries[e].state
      /\ \A e \in Sequence : entries[e].state = "absent" => entries'[e] = entries[e]
  BY <1>2, ClaimedIs DEF Claimable, FirstUnpublished
<1>4. pc' \in [Publisher -> Passing \union {"idle", "down"}] /\ DOMAIN claim' = Publisher
  BY DEF ClaimNext, ClaimFails, Drained
<1>5. Works
  <2> SUFFICES ASSUME NEW q \in Publisher, pc'[q] \in Working
               PROVE  \/ pc[q] \in Working /\ claim'[q] = claim[q] /\ pc'[q] = pc[q]
                      \/ pc'[q] = "sending" /\ claim'[q].event \in Sequence /\ Claimable(claim'[q].event)
    BY DEF Works
  <2> QED
    BY DEF ClaimNext, ClaimFails, Drained
<1>6. Flies
  BY <1>1 DEF Flies, sink
<1> QED
  BY <1>1, <1>3, <1>4, <1>5, <1>6 DEF Kind, SameLog, sink

LEMMA SinkKind ==
  ASSUME OutboxInv, NEW p \in Publisher, SinkAccepts(p) \/ SinkFails(p)
  PROVE  Kind
<1> USE DEF OutboxInv, Types, Goto, Working, Passing
<1>1. pc[p] = "sending" /\ UNCHANGED <<tables, claim>>
  BY DEF SinkAccepts, SinkFails
<1>2. Reached(claim[p].event) /\ claim[p].event \in Sequence
  BY <1>1 DEF Claims, Reached
<1>3. UNCHANGED stream \/ stream' = Stored(claim[p].event)
  BY DEF SinkAccepts, SinkFails, sink
<1>4. pc' \in [Publisher -> Passing \union {"idle", "down"}]
  BY DEF SinkAccepts, SinkFails
<1>5. Works
  BY <1>1 DEF Works, SinkAccepts, SinkFails
<1>6. Flies
  BY <1>1 DEF Flies, SinkAccepts, SinkFails, sink
<1> QED
  BY <1>1, <1>2, <1>3, <1>4, <1>5, <1>6 DEF Kind, SameLog, Stores, tables

LEMMA MarkKind ==
  ASSUME OutboxInv, NEW p \in Publisher, MarkPublished(p) \/ MarkFails(p)
  PROVE  Kind
<1> USE DEF OutboxInv, Types, Goto, Working, Passing
<1>1. pc[p] = "marking" /\ UNCHANGED <<nextSequence, allocated, sink, claim>>
  BY DEF MarkPublished, MarkFails
<1>2. Reached(claim[p].event) /\ claim[p].event \in Sequence
  BY <1>1 DEF Claims, Reached
<1>3. entries' = entries \/ entries' = Marked(p)
  BY DEF MarkPublished, MarkFails
<1>4. entries' \in [Sequence -> Entry]
  BY <1>2, <1>3, MarkedIs
<1>5. pc' \in [Publisher -> Passing \union {"idle", "down"}]
  BY DEF MarkPublished, MarkFails
<1>6. Works /\ Flies
  BY <1>1 DEF Works, Flies, MarkPublished, MarkFails, sink
<1>7. CASE entries' = entries \/ ~HoldsClaim(p)
  <2>1. \A e \in Sequence : entries'[e] = entries[e]
    BY <1>2, <1>3, <1>7, MarkedIs
  <2> QED
    BY <1>1, <1>4, <1>5, <1>6, <2>1 DEF Kind, SameLog, sink
<1>8. CASE entries' = Marked(p) /\ HoldsClaim(p)
  <2>1. WritesOff
    BY <1>1, <1>2, <1>8, MarkedIs DEF WritesOff, sink
  <2> QED
    BY <1>1, <1>4, <1>5, <1>6, <2>1 DEF Kind
<1> QED
  BY <1>3, <1>7, <1>8

LEMMA ReleaseKind ==
  ASSUME OutboxInv, NEW p \in Publisher, Release(p) \/ ReleaseFails(p)
  PROVE  Kind
<1> USE DEF OutboxInv, Types, Goto, Working, Passing
<1>1. pc[p] = "releasing" /\ UNCHANGED <<nextSequence, allocated, sink, claim>>
  BY DEF Release, ReleaseFails
<1>2. Reached(claim[p].event) /\ claim[p].event \in Sequence
  BY <1>1 DEF Claims, Reached
<1>3. entries' = entries \/ entries' = Released(p)
  BY DEF Release, ReleaseFails
<1>4. /\ entries' \in [Sequence -> Entry]
      /\ \A e \in Sequence : entries'[e].state = entries[e].state
      /\ \A e \in Sequence : entries[e].state = "absent" => entries'[e] = entries[e]
  BY <1>2, <1>3, ReleasedIs DEF HoldsClaim
<1>5. pc' \in [Publisher -> Passing \union {"idle", "down"}]
  BY DEF Release, ReleaseFails, Drained
<1>6. Works /\ Flies
  BY <1>1 DEF Works, Flies, Release, ReleaseFails, Drained, sink
<1> QED
  BY <1>1, <1>4, <1>5, <1>6 DEF Kind, SameLog, sink

LEMMA EnvironmentKind ==
  ASSUME OutboxInv, NEW e \in Sequence, LateDelivery(e) \/ Lapse(e) \/ Overrun(e) \/ BecomeDue(e)
  PROVE  Kind
<1> USE DEF OutboxInv, Types
<1>1. UNCHANGED <<nextSequence, allocated, control>>
  BY DEF LateDelivery, Lapse, Overrun, Lapsing, BecomeDue, tables
<1>2. /\ entries' \in [Sequence -> Entry]
      /\ \A f \in Sequence : entries'[f].state = entries[f].state
      /\ \A f \in Sequence : entries'[f].publisher = entries[f].publisher
  <2>1. [entries[e] EXCEPT !.lapsed = TRUE] \in Entry /\ [entries[e] EXCEPT !.due = TRUE] \in Entry
    BY DEF Entry
  <2>2. \/ entries' = entries
        \/ entries' = [entries EXCEPT ![e] = [entries[e] EXCEPT !.lapsed = TRUE]]
        \/ entries' = [entries EXCEPT ![e] = [entries[e] EXCEPT !.due = TRUE]]
    BY DEF LateDelivery, Lapse, Overrun, Lapsing, BecomeDue, tables
  <2>3. entries \in [Sequence -> Entry]
    OBVIOUS
  <2>4. entries' \in [Sequence -> Entry]
    BY <2>1, <2>2, <2>3
  <2>5. \A f \in Sequence : f # e => entries'[f] = entries[f]
    BY <2>2, <2>3
  <2>6. entries'[e].state = entries[e].state /\ entries'[e].publisher = entries[e].publisher
    <3>1. entries[e] \in Entry
      BY <2>3
    <3>2. \/ entries'[e] = entries[e]
          \/ entries'[e] = [entries[e] EXCEPT !.lapsed = TRUE]
          \/ entries'[e] = [entries[e] EXCEPT !.due = TRUE]
      BY <2>2, <2>3
    <3> QED
      BY <3>1, <3>2 DEF Entry
  <2> QED
    BY <2>4, <2>5, <2>6
<1>3. UNCHANGED stream \/ Stores
  BY DEF LateDelivery, Lapse, Overrun, Lapsing, BecomeDue, sink, Stores, Claims
<1>4. Works
  BY <1>1 DEF Works, control
<1>5. Flies
  BY DEF Flies, LateDelivery, Lapse, Overrun, Lapsing, BecomeDue, sink
<1> QED
  BY <1>1, <1>2, <1>3, <1>4, <1>5 DEF Kind, SameLog, control

LEMMA StepKind == OutboxInv /\ [Next]_vars => Kind
<1> SUFFICES ASSUME OutboxInv, [Next]_vars PROVE Kind
  OBVIOUS
<1>1. ASSUME NEW w \in Writer, WriterStep(w) PROVE Kind
  BY <1>1, WriterKind
<1>2. ASSUME NEW p \in Publisher,
             Kick(p) \/ Flush(p) \/ Advance(p) \/ Failure(p) \/ Close(p) \/ Restart(p)
      PROVE  Kind
  BY <1>2, PassKind, ClaimKind, SinkKind, MarkKind, ReleaseKind DEF Advance, Failure
<1>3. ASSUME NEW e \in Sequence, LateDelivery(e) \/ Lapse(e) \/ Overrun(e) \/ BecomeDue(e)
      PROVE  Kind
  BY <1>3, EnvironmentKind
<1>4. CASE UNCHANGED vars
  <2>1. UNCHANGED <<tables, stream, pc, claim, inFlight>>
    BY <1>4 DEF vars, sink, control
  <2>2. Works /\ Flies
    BY <2>1 DEF Works, Flies
  <2> QED
    BY <2>1, <2>2, StillKind DEF OutboxInv, Types
<1> QED
  BY <1>1, <1>2, <1>3, <1>4 DEF Next

-----------------------------------------------------------------------------
(* The invariant is inductive.                                             *)
LEMMA InitInv == Init => OutboxInv
<1> SUFFICES ASSUME Init PROVE OutboxInv
  OBVIOUS
<1> USE OutboxAssumption DEF Init, Sequence
<1>1. NoEntry \in Entry /\ <<>> \in Seq(Nat)
  BY DEF NoEntry, Entry
<1>2. Types
  BY <1>1 DEF Types
<1>3. Numbered
  BY DEF Numbered, NoEntry
<1>4. Claims
  BY DEF Claims, Working
<1>5. Streamed
  BY DEF Streamed, StreamInOrder, PublishedIsDelivered, NoEntry
<1> QED
  BY <1>2, <1>3, <1>4, <1>5 DEF OutboxInv

\* An entry is committed once, and written off only when the stream has it.
LEMMA StatesOnward ==
  ASSUME OutboxInv, Kind, NEW e \in Sequence
  PROVE  \/ entries'[e].state = entries[e].state
         \/ entries[e].state = "absent" /\ entries'[e].state = "pending"
         \/ entries'[e].state = "published" /\ Reached(e) /\ e <= Len(stream)
<1> USE DEF OutboxInv, Types
<1>1. CASE Writes
  <2>1. PICK w \in Writer : WriterStep(w)
    BY <1>1 DEF Writes
  <2>2. CASE Commit(w)
    <3>1. entries[allocated[w]].state = "absent" /\ allocated[w] \in Sequence
      BY <2>2 DEF Commit, Numbered
    <3> QED
      BY <2>2, <3>1 DEF Commit, NoEntry
  <2>3. CASE Allocate(w) \/ Rollback(w)
    BY <2>3 DEF Allocate, Rollback
  <2> QED
    BY <2>1, <2>2, <2>3 DEF WriterStep
<1>2. CASE WritesOff
  BY <1>2 DEF WritesOff, Claims, Working, Reached
<1>3. CASE SameLog
  BY <1>3 DEF SameLog
<1> QED
  BY <1>1, <1>2, <1>3 DEF Kind

LEMMA ReachedStays ==
  ASSUME OutboxInv, Kind, NEW e, Reached(e)
  PROVE  Reached(e)'
<1>1. \A f \in Sequence :
        /\ entries[f].state # "absent" => entries'[f].state # "absent"
        /\ entries[f].state = "published" => entries'[f].state = "published"
  BY StatesOnward
<1> QED
  BY <1>1 DEF Reached

LEMMA StreamOnward ==
  ASSUME OutboxInv, Kind
  PROVE  \/ stream' = stream
         \/ stream' = Append(stream, Len(stream) + 1) /\ Reached(Len(stream) + 1)
<1>1. CASE Stores
  BY <1>1, StoredIs DEF Stores
<1> QED
  BY <1>1 DEF Kind, Writes, WritesOff, sink

LEMMA TypesStay == OutboxInv /\ Kind => Types'
<1> SUFFICES ASSUME OutboxInv, Kind PROVE Types'
  OBVIOUS
<1>1. stream' \in Seq(Nat)
  <2>1. stream \in Seq(Nat) /\ Len(stream) + 1 \in Nat
    BY DEF OutboxInv, Types
  <2> QED
    BY <2>1, StreamOnward
<1> USE DEF OutboxInv, Types
<1>2. nextSequence' \in 1 .. MaxEvents + 1 /\ allocated' \in [Writer -> Nat]
  <2>1. CASE UNCHANGED <<nextSequence, allocated>>
    BY <2>1
  <2>2. CASE Writes
    <3>1. PICK w \in Writer : WriterStep(w)
      BY <2>2 DEF Writes
    <3>2. CASE Allocate(w)
      BY <3>2, OutboxAssumption DEF Allocate
    <3>3. CASE Commit(w)
      BY <3>3 DEF Commit
    <3>4. CASE Rollback(w)
      <4>1. allocated[w] \in Sequence /\ nextSequence = allocated[w] + 1
        BY <3>4 DEF Rollback, Numbered
      <4> QED
        BY <3>4, <4>1, OutboxAssumption DEF Rollback, Sequence
    <3> QED
      BY <3>1, <3>2, <3>3, <3>4 DEF WriterStep
  <2> QED
    BY <2>1, <2>2 DEF Kind, WritesOff, SameLog
<1> QED
  BY <1>1, <1>2 DEF Kind

LEMMA NumberedStays == OutboxInv /\ Kind => Numbered'
<1> SUFFICES ASSUME OutboxInv, Kind PROVE Numbered'
  OBVIOUS
<1> USE DEF OutboxInv, Types
<1>1. CASE WritesOff
  <2>1. PICK p \in Publisher :
          /\ pc[p] = "marking" /\ HoldsClaim(p)
          /\ entries'[claim[p].event].state = "published"
          /\ \A e \in Sequence : e # claim[p].event => entries'[e] = entries[e]
    BY <1>1 DEF WritesOff
  <2>2. \A e \in Sequence : (entries'[e].state = "absent" <=> entries[e].state = "absent")
    BY <2>1 DEF HoldsClaim
  <2>3. \A e \in Sequence : entries'[e].state = "absent" => entries'[e] = entries[e]
    BY <2>1
  <2> QED
    BY <1>1, <2>2, <2>3 DEF WritesOff, Numbered
<1>2. CASE SameLog
  BY <1>2 DEF SameLog, Numbered
<1>3. CASE Writes
  <2>1. PICK w \in Writer : WriterStep(w)
    BY <1>3 DEF Writes
  <2> USE DEF Sequence
  <2>2. CASE Allocate(w)
    <3>1. nextSequence \in Sequence /\ nextSequence + 1 \in Nat
      BY <2>2, OutboxAssumption DEF Allocate
    <3>2. entries[nextSequence].state = "absent"
      BY <3>1 DEF Numbered
    <3>3. /\ entries' = entries /\ nextSequence' = nextSequence + 1
          /\ \A v \in Writer : allocated'[v] = IF v = w THEN nextSequence ELSE 0
      BY <2>2 DEF Allocate
    <3> QED
      BY <2>2, <3>1, <3>2, <3>3 DEF Numbered, Allocate
  <2>3. CASE Commit(w) \/ Rollback(w)
    <3>1. /\ allocated[w] \in Sequence /\ nextSequence = allocated[w] + 1
          /\ entries[allocated[w]].state = "absent"
          /\ \A v \in Writer : allocated'[v] = 0
      BY <2>3 DEF Commit, Rollback, Numbered
    <3>2. CASE Commit(w)
      <4>1. /\ entries'[allocated[w]].state = "pending" /\ nextSequence' = nextSequence
            /\ \A e \in Sequence : e # allocated[w] => entries'[e] = entries[e]
        BY <3>1, <3>2 DEF Commit, NoEntry
      <4>2. ASSUME NEW e \in Sequence, e < nextSequence'
            PROVE  entries'[e].state # "absent"
        <5>1. CASE e = allocated[w]
          BY <4>1, <5>1
        <5>2. CASE e # allocated[w]
          <6>1. \A v \in Writer : allocated[v] # e
            BY <3>1, <5>2 DEF Numbered
          <6> QED
            BY <4>1, <4>2, <5>2, <6>1 DEF Numbered
        <5> QED
          BY <5>1, <5>2
      <4>3. \A e \in Sequence : entries'[e].state # "absent" => e < nextSequence'
        BY <3>1, <4>1 DEF Numbered
      <4>4. \A e \in Sequence : entries'[e].state = "absent" => entries'[e].publisher = None
        BY <3>1, <4>1 DEF Numbered
      <4> HIDE DEF OutboxInv, Types, Sequence
      <4> QED
        BY <3>1, <4>2, <4>3, <4>4 DEF Numbered
    <3>3. CASE Rollback(w)
      <4>1. entries' = entries /\ nextSequence' = allocated[w]
        BY <3>1, <3>3 DEF Rollback
      <4>2. ASSUME NEW e \in Sequence, e < nextSequence'
            PROVE  entries'[e].state # "absent"
        <5>1. e # allocated[w] /\ e < nextSequence /\ e # 0
          BY <3>1, <4>1, <4>2
        <5>2. \A v \in Writer : allocated[v] # e
          BY <3>1, <5>1 DEF Numbered
        <5> QED
          BY <4>1, <5>1, <5>2 DEF Numbered
      <4>3. \A e \in Sequence : entries'[e].state # "absent" => e < nextSequence'
        BY <3>1, <4>1 DEF Numbered
      <4>4. \A e \in Sequence : entries'[e].state = "absent" => entries'[e].publisher = None
        BY <4>1 DEF Numbered
      <4> HIDE DEF OutboxInv, Types, Sequence
      <4> QED
        BY <3>1, <4>2, <4>3, <4>4 DEF Numbered
    <3> QED
      BY <2>3, <3>2, <3>3
  <2> QED
    BY <2>1, <2>2, <2>3 DEF WriterStep
<1> QED
  BY <1>1, <1>2, <1>3 DEF Kind

LEMMA ClaimsStay == OutboxInv /\ Kind => Claims'
<1> SUFFICES ASSUME OutboxInv, Kind PROVE Claims'
  OBVIOUS
<1>1. ASSUME NEW p \in Publisher, pc'[p] \in Working
      PROVE  Reached(claim[p].event)'
  <2>1. CASE pc[p] \in Working /\ claim'[p] = claim[p]
    <3>1. Reached(claim[p].event)
      BY <2>1 DEF OutboxInv, Claims
    <3>2. PICK c : c = claim[p].event
      OBVIOUS
    <3>3. Reached(c)'
      BY <3>1, <3>2, ReachedStays
    <3> QED
      BY <2>1, <3>2, <3>3 DEF Reached
  <2>2. CASE claim'[p].event \in Sequence /\ Claimable(claim'[p].event)
    <3>1. PICK c \in Sequence : c = claim'[p].event
      BY <2>2
    <3>2. Reached(c)'
      BY <2>2, <3>1, ClaimableIsReached, ReachedStays
    <3> QED
      BY <3>1, <3>2 DEF Reached
  <2> QED
    BY <1>1, <2>1, <2>2 DEF Kind, Works
<1>2. ASSUME NEW p \in Publisher, pc'[p] = "marking"
      PROVE  claim'[p].event <= Len(stream')
  <2>1. Len(stream) \in Nat /\ Len(stream') \in Nat /\ Len(stream') >= Len(stream)
    <3>1. stream \in Seq(Nat) /\ Len(stream) + 1 \in Nat
      BY DEF OutboxInv, Types
    <3> QED
      BY <3>1, StreamOnward
  <2>2. /\ pc[p] \in Working /\ claim'[p] = claim[p]
        /\ pc[p] = "marking" \/ stream' = Stored(claim[p].event)
    BY <1>2 DEF Kind, Works, Working
  <2>3. Reached(claim[p].event)
    BY <2>2 DEF OutboxInv, Claims
  <2>4. claim[p].event \in Int
    BY <2>3 DEF Reached, Sequence
  <2>5. CASE pc[p] = "marking"
    BY <2>1, <2>2, <2>4, <2>5 DEF OutboxInv, Claims
  <2>6. CASE stream' = Stored(claim[p].event)
    <3>1. stream \in Seq(Nat) /\ claim[p].event \in Sequence
      BY <2>3 DEF OutboxInv, Types, Reached
    <3>2. \/ stream' = stream /\ claim[p].event <= Len(stream)
          \/ stream' = Append(stream, claim[p].event) /\ claim[p].event = Len(stream) + 1
      BY <2>3, <2>6, <3>1, StoredIs
    <3>3. Len(Append(stream, claim[p].event)) = Len(stream) + 1
      BY <3>1
    <3> QED
      BY <2>1, <2>2, <3>2, <3>3
  <2> QED
    BY <2>2, <2>5, <2>6
<1>3. ASSUME NEW e \in inFlight'
      PROVE  Reached(e)'
  <2>1. Reached(e)
    BY <1>3 DEF Kind, Flies, OutboxInv, Claims, Working
  <2> QED
    BY <2>1, ReachedStays
<1> QED
  BY <1>1, <1>2, <1>3 DEF Claims

LEMMA StreamedStays == OutboxInv /\ Kind => Streamed'
<1> SUFFICES ASSUME OutboxInv, Kind PROVE Streamed'
  OBVIOUS
<1> DEFINE n == Len(stream)
<1>1. stream \in Seq(Nat) /\ n \in Nat /\ MaxEvents \in Nat
  BY OutboxAssumption DEF OutboxInv, Types
<1>2. \/ stream' = stream
      \/ stream' = Append(stream, n + 1) /\ Reached(n + 1)
  BY StreamOnward
<1>3. StreamInOrder' /\ Len(stream') <= MaxEvents /\ Len(stream') >= n /\ Len(stream') \in Nat
  <2>1. CASE stream' = stream
    BY <1>1, <2>1 DEF OutboxInv, Streamed, StreamInOrder
  <2>2. CASE stream' = Append(stream, n + 1) /\ Reached(n + 1)
    <3>1. /\ Len(stream') = n + 1 /\ stream'[n + 1] = n + 1
          /\ \A i \in 1 .. n : stream'[i] = stream[i]
      BY <1>1, <2>2
    <3>2. n + 1 <= MaxEvents
      BY <1>1, <2>2 DEF Reached, Sequence
    <3>3. \A i \in 1 .. n : stream[i] = i
      BY DEF OutboxInv, Streamed, StreamInOrder
    <3> QED
      BY <1>1, <3>1, <3>2, <3>3 DEF StreamInOrder
  <2> QED
    BY <1>2, <2>1, <2>2
<1>4. PublishedIsDelivered'
  <2> SUFFICES ASSUME NEW e \in Sequence, entries'[e].state = "published"
               PROVE  e <= Len(stream')
    BY DEF PublishedIsDelivered
  <2>1. e <= n
    BY StatesOnward DEF OutboxInv, Streamed, PublishedIsDelivered
  <2> QED
    BY <1>1, <1>3, <2>1 DEF Sequence
<1>5. ASSUME NEW e \in Sequence, e <= Len(stream')
      PROVE  entries'[e].state # "absent"
  <2>1. CASE e <= n
    BY <2>1, StatesOnward DEF OutboxInv, Streamed
  <2>2. CASE ~(e <= n)
    <3>1. e = n + 1 /\ Reached(n + 1)
      BY <1>1, <1>2, <1>5, <2>2 DEF Sequence
    <3> QED
      BY <3>1, StatesOnward DEF Reached
  <2> QED
    BY <2>1, <2>2
<1>6. ASSUME NEW e \in Sequence, NEW f \in Sequence, entries'[e].state = "published", f < e
      PROVE  entries'[f].state = "published"
  <2>1. entries[f].state = "published"
    BY <1>6, StatesOnward DEF OutboxInv, Streamed, Reached
  <2> QED
    BY <2>1, StatesOnward
<1> QED
  BY <1>3, <1>4, <1>5, <1>6 DEF Streamed

LEMMA NextInv == OutboxInv /\ [Next]_vars => OutboxInv'
BY StepKind, TypesStay, NumberedStays, ClaimsStay, StreamedStays DEF OutboxInv

\* Whatever the interleavings and the faults, the tables are well typed, one
\* transaction at a time is numbered, all work is on the head of the queue, and
\* the stream is a prefix of the log.
THEOREM OutboxCorrect == Spec => []OutboxInv
BY InitInv, NextInv, PTL DEF Spec

\* StreamInOrder: publishers preserve outbox order, whoever delivers an event
\* and however often it is sent.
THEOREM StreamCorrect == Spec => []StreamInOrder
<1>1. OutboxInv => StreamInOrder
  BY DEF OutboxInv, Streamed
<1> QED
  BY <1>1, OutboxCorrect, PTL

\* PublishedIsDelivered: an event is written off only once the stream has it.
THEOREM DeliveryCorrect == Spec => []PublishedIsDelivered
<1>1. OutboxInv => PublishedIsDelivered
  BY DEF OutboxInv, Streamed
<1> QED
  BY <1>1, OutboxCorrect, PTL

-----------------------------------------------------------------------------
(* A claim that has not lapsed ends by its holder.                         *)
Ends(e, p) == entries[e].publisher = p /\ ~entries[e].lapsed /\ entries'[e].publisher # p

LEMMA EndsByHolder ==
  ASSUME OutboxInv, [Next]_vars, NEW e \in Sequence, NEW p \in Publisher, Ends(e, p)
  PROVE  pc'[p] # pc[p]
<1> USE DEF OutboxInv, Types, Ends
<1>1. entries' # entries /\ p # None
  BY OutboxAssumption
<1>2. ASSUME NEW w \in Writer, WriterStep(w) PROVE FALSE
  <2>1. Commit(w)
    BY <1>1, <1>2 DEF WriterStep, Allocate, Rollback
  <2>2. entries[allocated[w]].publisher = None /\ e = allocated[w]
    BY <2>1 DEF Commit, Numbered
  <2> QED
    BY <1>1, <2>2
<1>3. ASSUME NEW q \in Publisher, NEW f \in Sequence, Claimable(f), entries' = Claimed(q, f)
      PROVE  FALSE
  <2>1. f = e
    BY <1>3, ClaimedIs
  <2> QED
    BY <1>1, <1>3, <2>1 DEF Claimable
<1>4. ASSUME NEW q \in Publisher, pc[q] = "marking", entries' = Marked(q)
      PROVE  q = p
  <2>1. claim[q].event \in Sequence
    BY <1>4 DEF Claims, Working, Reached
  <2>2. claim[q].event = e /\ HoldsClaim(q)
    BY <1>4, <2>1, MarkedIs
  <2> QED
    BY <2>2 DEF HoldsClaim
<1>5. ASSUME NEW q \in Publisher, pc[q] = "releasing", entries' = Released(q)
      PROVE  q = p
  <2>1. claim[q].event \in Sequence
    BY <1>5 DEF Claims, Working, Reached
  <2>2. claim[q].event = e /\ HoldsClaim(q)
    BY <1>5, <2>1, ReleasedIs
  <2> QED
    BY <2>2 DEF HoldsClaim
<1>6. ASSUME NEW q \in Publisher,
             Kick(q) \/ Flush(q) \/ Advance(q) \/ Failure(q) \/ Close(q) \/ Restart(q)
      PROVE  pc'[p] # pc[p]
  <2>1. CASE ClaimNext(q) \/ ClaimFails(q)
    BY <1>1, <1>3, <2>1 DEF ClaimNext, ClaimFails, tables
  <2>2. CASE MarkPublished(q) \/ MarkFails(q)
    BY <1>1, <1>4, <2>2 DEF MarkPublished, MarkFails, Goto
  <2>3. CASE Release(q) \/ ReleaseFails(q)
    BY <1>1, <1>5, <2>3 DEF Release, ReleaseFails, Drained, Goto
  <2> QED
    BY <1>1, <1>6, <2>1, <2>2, <2>3
    DEF Advance, Failure, Kick, Flush, Settle, SinkAccepts, SinkFails, Close, Restart, Crash, tables
<1>7. ASSUME NEW f \in Sequence, LateDelivery(f) \/ Lapse(f) \/ Overrun(f) \/ BecomeDue(f)
      PROVE  FALSE
  <2>1. entries[f] \in Entry /\ entries[e] \in Entry
    OBVIOUS
  <2>2. \/ entries' = entries
        \/ entries' = [entries EXCEPT ![f] = [entries[f] EXCEPT !.lapsed = TRUE]]
        \/ entries' = [entries EXCEPT ![f] = [entries[f] EXCEPT !.due = TRUE]]
    BY <1>7 DEF LateDelivery, Lapse, Overrun, Lapsing, BecomeDue, tables
  <2>3. entries'[e].publisher = entries[e].publisher
    BY <2>1, <2>2 DEF Entry
  <2> QED
    BY <2>3
<1> QED
  BY <1>1, <1>2, <1>6, <1>7 DEF Next, vars, tables

\* ClaimEndsByHolder: a stale publisher neither ends nor takes over the claim of
\* its successor.
THEOREM ClaimsCorrect == Spec => ClaimEndsByHolder
<1>1. OutboxInv /\ [Next]_vars =>
        [\A e \in Sequence : \A p \in Publisher :
           /\ entries[e].publisher = p
           /\ ~entries[e].lapsed
           /\ entries'[e].publisher # p
           => pc'[p] # pc[p]]_vars
  BY EndsByHolder DEF Ends
<1> QED
  BY <1>1, OutboxCorrect, PTL DEF Spec, ClaimEndsByHolder

-----------------------------------------------------------------------------
(* The refinement of OrderedDelivery.                                      *)

\* How many events are committed: those numbered, less the open transaction's.
Committed == IF \E w \in Writer : allocated[w] # 0 THEN nextSequence - 2 ELSE nextSequence - 1
Settled == {e \in Sequence : entries[e].state = "published"}

LEMMA VisibleIs ==
  ASSUME OutboxInv
  PROVE  Committed \in 0 .. MaxEvents /\ Visible = 1 .. Committed
<1> USE OutboxAssumption DEF OutboxInv, Types, Sequence, Committed, Visible
<1>1. CASE \E w \in Writer : allocated[w] # 0
  <2>1. PICK w \in Writer : allocated[w] # 0
    BY <1>1
  <2>2. /\ allocated[w] \in Sequence /\ nextSequence = allocated[w] + 1
        /\ entries[allocated[w]].state = "absent"
        /\ \A v \in Writer : allocated[v] # 0 => allocated[v] = allocated[w]
    BY <2>1 DEF Numbered
  <2>3. Committed = allocated[w] - 1
    BY <1>1, <2>2
  <2>4. \A e \in Sequence : entries[e].state # "absent" <=> e < allocated[w]
    BY <2>2 DEF Numbered
  <2> QED
    BY <2>2, <2>3, <2>4
<1>2. CASE \A w \in Writer : allocated[w] = 0
  <2>1. \A e \in Sequence : entries[e].state # "absent" <=> e < nextSequence
    BY <1>2 DEF Numbered
  <2> QED
    BY <1>2, <2>1
<1> QED
  BY <1>1, <1>2

LEMMA CommitLogIs == OutboxInv => CommitLog = [i \in 1 .. Committed |-> i]
<1> SUFFICES ASSUME OutboxInv PROVE CommitLog = [i \in 1 .. Committed |-> i]
  OBVIOUS
<1>1. Committed \in Nat /\ Visible = 1 .. Committed
  BY VisibleIs, OutboxAssumption
<1>2. Cardinality(Visible) = Committed
  BY <1>1, FS_Interval
<1>3. ASSUME NEW e \in 1 .. Committed
      PROVE  Cardinality({f \in Visible : f <= e}) = e
  <2>1. {f \in Visible : f <= e} = 1 .. e /\ e \in Nat
    BY <1>1
  <2>2. Cardinality(1 .. e) = e
    BY <2>1, FS_Interval
  <2> QED
    BY <2>1, <2>2
<1>4. ASSUME NEW i \in 1 .. Committed
      PROVE  (CHOOSE e \in Visible : Cardinality({f \in Visible : f <= e}) = i) = i
  BY <1>1, <1>3
<1> QED
  BY <1>2, <1>4 DEF CommitLog

LEMMA SettledIs == OutboxInv => IsFiniteSet(Settled) /\ Settled \subseteq 1 .. Len(stream)
<1> SUFFICES ASSUME OutboxInv
             PROVE  IsFiniteSet(Settled) /\ Settled \subseteq 1 .. Len(stream)
  OBVIOUS
<1>1. IsFiniteSet(Sequence)
  BY OutboxAssumption, FS_Interval DEF Sequence
<1>2. Settled \subseteq Sequence
  BY DEF Settled
<1>3. stream \in Seq(Nat)
  BY DEF OutboxInv, Types
<1>4. PublishedIsDelivered
  BY DEF OutboxInv, Streamed
<1>5. Settled \subseteq 1 .. Len(stream)
  BY <1>3, <1>4 DEF Settled, Sequence, PublishedIsDelivered
<1>6. IsFiniteSet(Settled)
  BY <1>1, <1>2, FS_Subset
<1> QED
  BY <1>5, <1>6

LEMMA DeliveryInit == Init => Delivery!Init
<1> SUFFICES ASSUME Init PROVE Delivery!Init
  OBVIOUS
<1>1. Visible = {} /\ {e \in Sequence : entries[e].state = "published"} = {}
  BY DEF Init, Visible, NoEntry
<1>2. Cardinality({}) = 0
  BY FS_EmptySet
<1>3. CommitLog = <<>>
  BY <1>1, <1>2 DEF CommitLog
<1> QED
  BY <1>1, <1>2, <1>3 DEF Delivery!Init, Init

\* The events written off by a step.
LEMMA SettledNext ==
  ASSUME OutboxInv, Kind
  PROVE  \/ Settled' = Settled
         \/ /\ UNCHANGED <<nextSequence, allocated, stream>>
            /\ \E e \in Sequence : e \notin Settled /\ Settled' = Settled \union {e}
<1>1. CASE WritesOff
  <2>1. PICK p \in Publisher :
          /\ pc[p] = "marking" /\ HoldsClaim(p)
          /\ entries'[claim[p].event].state = "published"
          /\ \A e \in Sequence : e # claim[p].event => entries'[e] = entries[e]
    BY <1>1 DEF WritesOff
  <2>2. claim[p].event \in Sequence
    BY <2>1 DEF OutboxInv, Claims, Working, Reached
  <2>3. claim[p].event \notin Settled /\ Settled' = Settled \union {claim[p].event}
    BY <2>1, <2>2 DEF HoldsClaim, Settled
  <2> QED
    BY <1>1, <2>2, <2>3 DEF WritesOff
<1>2. CASE SameLog
  BY <1>2 DEF SameLog, Settled
<1>3. CASE Writes
  <2>1. PICK w \in Writer : WriterStep(w)
    BY <1>3 DEF Writes
  <2>2. CASE Commit(w)
    <3>1. entries[allocated[w]].state = "absent" /\ allocated[w] \in Sequence
      BY <2>2 DEF Commit, OutboxInv, Numbered
    <3>2. /\ entries'[allocated[w]].state = "pending"
          /\ \A e \in Sequence : e # allocated[w] => entries'[e] = entries[e]
      BY <2>2, <3>1 DEF Commit, NoEntry, OutboxInv, Types
    <3> QED
      BY <3>1, <3>2 DEF Settled
  <2>3. CASE Allocate(w) \/ Rollback(w)
    BY <2>3 DEF Allocate, Rollback, Settled
  <2> QED
    BY <2>1, <2>2, <2>3 DEF WriterStep
<1> QED
  BY <1>1, <1>2, <1>3 DEF Kind

\* The events committed by a step.
LEMMA CommittedNext ==
  ASSUME OutboxInv, Kind
  PROVE  \/ Committed' = Committed
         \/ UNCHANGED stream /\ Settled' = Settled /\ Committed' = Committed + 1
<1> USE DEF OutboxInv, Types
<1>1. CASE UNCHANGED <<nextSequence, allocated>>
  BY <1>1 DEF Committed
<1>2. CASE Writes
  <2>1. PICK w \in Writer : WriterStep(w)
    BY <1>2 DEF Writes
  <2>2. nextSequence \in Int
    BY OutboxAssumption
  <2>3. CASE Allocate(w)
    <3>1. /\ \A v \in Writer : allocated[v] = 0
          /\ allocated'[w] # 0 /\ nextSequence' = nextSequence + 1
      BY <2>3, OutboxAssumption DEF Allocate
    <3> QED
      BY <2>2, <3>1 DEF Committed
  <2>4. CASE Commit(w) \/ Rollback(w)
    <3>1. allocated[w] # 0 /\ \A v \in Writer : allocated'[v] = 0
      BY <2>4 DEF Commit, Rollback, Numbered
    <3>2. CASE Commit(w)
      <4>1. Committed' = Committed + 1
        BY <2>2, <3>1, <3>2 DEF Committed, Commit
      <4>2. UNCHANGED stream
        BY <3>2 DEF Commit, sink
      <4>3. Settled' = Settled
        <5>1. entries[allocated[w]].state = "absent" /\ allocated[w] \in Sequence
          BY <3>1 DEF Numbered
        <5>2. /\ entries'[allocated[w]].state = "pending"
              /\ \A e \in Sequence : e # allocated[w] => entries'[e] = entries[e]
          BY <3>2, <5>1 DEF Commit, NoEntry
        <5> QED
          BY <5>1, <5>2 DEF Settled
      <4> QED
        BY <4>1, <4>2, <4>3
    <3>3. CASE Rollback(w)
      BY <2>2, <3>1, <3>3 DEF Committed, Rollback
    <3> QED
      BY <2>4, <3>2, <3>3
  <2> QED
    BY <2>1, <2>3, <2>4 DEF WriterStep
<1> QED
  BY <1>1, <1>2 DEF Kind, WritesOff, SameLog

LEMMA CommittedBounded == OutboxInv => Committed \in 0 .. MaxEvents
BY VisibleIs

LEMMA DeliveryNext ==
  OutboxInv /\ OutboxInv' /\ [Next]_vars => [Delivery!Next]_(Delivery!vars)
<1> SUFFICES ASSUME OutboxInv, OutboxInv', [Next]_vars PROVE [Delivery!Next]_(Delivery!vars)
  OBVIOUS
<1> DEFINE settled == Cardinality(Settled)
<1>1. Kind
  BY StepKind
<1>2. CommitLog = [i \in 1 .. Committed |-> i] /\ Committed \in Nat
  BY CommitLogIs, VisibleIs, OutboxAssumption
<1>3. (CommitLog = [i \in 1 .. Committed |-> i])'
  BY CommitLogIs, PTL
<1>4. IsFiniteSet(Settled)
  BY SettledIs
<1>5. (IsFiniteSet(Settled) /\ Settled \subseteq 1 .. Len(stream))'
  BY SettledIs, PTL
<1>6. stream \in Seq(Nat) /\ Len(stream) \in Nat
  BY DEF OutboxInv, Types
<1>7. settled \in Nat
  BY <1>4, FS_CardinalityType
<1>8. CASE Committed' = Committed /\ Settled' = Settled
  <2>1. CommitLog' = CommitLog /\ settled' = settled
    BY <1>2, <1>3, <1>8
  <2>2. CASE stream' = Append(stream, Len(stream) + 1) /\ Reached(Len(stream) + 1)
    <3>1. Len(stream) + 1 \in 1 .. Committed
      BY <2>2, VisibleIs DEF Reached, Visible
    <3>2. /\ Len(CommitLog) = Committed
          /\ CommitLog[Len(stream) + 1] = Len(stream) + 1
      BY <1>2, <3>1
    <3>3. Delivery!Deliver
      BY <1>2, <1>6, <2>1, <2>2, <3>1, <3>2 DEF Delivery!Deliver, Settled
    <3> QED
      BY <3>3 DEF Delivery!Next
  <2>3. CASE stream' = stream
    BY <2>1, <2>3 DEF Delivery!vars, Settled
  <2> QED
    BY <1>1, <2>2, <2>3, StreamOnward
<1>9. CASE UNCHANGED stream /\ Settled' = Settled /\ Committed' = Committed + 1
  <2>1. CommitLog' = Append(CommitLog, Committed + 1)
    BY <1>2, <1>3, <1>9
  <2>2. Committed + 1 \in Sequence
    <3>1. (Committed \in 0 .. MaxEvents)'
      BY CommittedBounded, PTL
    <3> QED
      BY <1>2, <1>9, <3>1, OutboxAssumption DEF Sequence
  <2>3. Delivery!Commit
    BY <1>9, <2>1, <2>2 DEF Delivery!Commit, Settled
  <2> QED
    BY <2>3 DEF Delivery!Next
<1>10. ASSUME UNCHANGED <<nextSequence, allocated, stream>>, Settled' # Settled,
              NEW e \in Sequence, e \notin Settled, Settled' = Settled \union {e}
       PROVE  [Delivery!Next]_(Delivery!vars)
  <2>1. CommitLog' = CommitLog
    BY <1>2, <1>3, <1>10 DEF Committed
  <2>2. Cardinality(Settled') = settled + 1
    BY <1>4, <1>10, FS_AddElement
  <2>3. Cardinality(Settled') <= Len(stream)
    <3>1. PICK n \in Nat : n = Len(stream)
      BY <1>6
    <3>2. IsFiniteSet(1 .. n)
      BY FS_Interval
    <3>3. Cardinality(1 .. n) = n
      BY FS_Interval
    <3>4. Settled' \subseteq 1 .. n
      BY <1>5, <1>10, <3>1
    <3> QED
      BY <3>1, <3>2, <3>3, <3>4, FS_Subset
  <2>4. Delivery!Settle
    BY <1>6, <1>7, <1>10, <2>1, <2>2, <2>3 DEF Delivery!Settle, Settled
  <2> QED
    BY <2>4 DEF Delivery!Next
<1> QED
  BY <1>1, <1>8, <1>9, <1>10, SettledNext, CommittedNext

\* Every step of the replicas, faults included, is a step of one ordered
\* delivery, or none: the safety part of ImplementsOrderedDelivery.
THEOREM DeliversInOrder == Spec => Delivery!Init /\ [][Delivery!Next]_(Delivery!vars)
<1> QED
  BY DeliveryInit, DeliveryNext, OutboxCorrect, PTL DEF Spec
=============================================================================
