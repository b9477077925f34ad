---------------------------- MODULE GateRunProofs ----------------------------
(***************************************************************************)
(* Proofs about GateRun, for any set of paths and any number of changes    *)
(* the builder, the tests and what they leave behind make.                 *)
(***************************************************************************)
EXTENDS GateRun, TLAPS

-----------------------------------------------------------------------------
(* The invariant, first its types.                                         *)
Purposes == {"initial", "beforeApply", "generated", "builder", "tests"}
Verifications == {"verify1", "verify2", "verify3"}
Steps == Captures \union Verifications \union {"compare"}
Contents == [Path -> Content]
Seen == [status : {"unknown", "zero", "nonzero", "signaled"}, error : BOOLEAN, timedOut : BOOLEAN,
         cleanup : {"none", "failed"}, guarded : BOOLEAN]

Types ==
  /\ base \in Contents /\ head \in Contents /\ index \in Contents /\ work \in Contents
  /\ identity \in {"attested", "unsafe", "changed"} /\ manifest \in BOOLEAN
  /\ collected \in [for : Purposes, step : Steps] /\ capture \in [Captures -> SUBSET Path]
  /\ leader \in {"none", "running", "zero", "nonzero", "signaled", "reaped"}
  /\ group \in BOOLEAN /\ escaped \in BOOLEAN /\ tests \in Seen
  /\ changes \in 0..2 /\ builderFailure \in {Missing, "failed", "blocked"}

\* What the outcome and its evidence are at each stage.
Ending == {"persist", "attestation", "normal", "fallback", "exit", "done"}

Evidence ==
  /\ at \notin Ending => verdict = Missing
  /\ at \in {"attestation", "normal"} /\ verdict = "passed" => persisted
  /\ at = "fallback" => verdict # "passed"
  /\ at \notin {"exit", "done"} => report = Missing
  /\ report # Missing => /\ report \in disk
                         /\ \E path \in {"normal", "fallback"} :
                              report = <<path, verdict>> /\ (verdict = "passed" => path = "normal" /\ persisted)
  /\ at # "done" => telemetry = {} /\ exit = 2
  /\ telemetry # {} => report # Missing /\ telemetry = {report}
  /\ exit = 0 => verdict = "passed" /\ report # Missing /\ telemetry = {report}

\* The reads of the collection under way that are done.
Order == [verify1 |-> 1, unstaged1 |-> 2, staged1 |-> 3, untracked1 |-> 4, verify2 |-> 5,
          unstaged2 |-> 6, staged2 |-> 7, untracked2 |-> 8, verify3 |-> 9, compare |-> 10]
Done(read) == Order[read] < Order[collected.step]
Fresh(reads) == \A read \in reads : Done(read) => capture[read] = Reads(read)

First == {"unstaged1", "staged1", "untracked1"}
Second == {"unstaged2", "staged2", "untracked2"}
Committed == {p \in Path : base[p] # head[p]}
FirstPaths == Committed \union capture["unstaged1"] \union capture["staged1"] \union capture["untracked1"]

\* After one change either the first capture is of the tree before it, or the
\* second one, as far as it is done, of the tree after it.
Honest ==
  at = "collect" =>
    /\ changes = 0 => Delta = before /\ Fresh(Captures)
    /\ changes = 1 => Fresh(Second) \/ (FirstPaths = before /\ Order[collected.step] > 4)

\* Before the tests, and once they are over: after a success nothing of them
\* runs but what left the group.
Untested ==
  \/ at \in {"git", "attest", "preBuilder", "building", "apply", "generated", "builderEnds",
             "postBuilder", "preTests"}
  \/ at = "collect" /\ collected.for # "tests"
Sure == TestsOk /\ tests.cleanup = "none" /\ ~escaped

Reaped ==
  /\ Untested => leader = "none" /\ ~group /\ tests.status = "unknown"
  /\ tests.status # "unknown" => leader = "reaped" /\ (tests.cleanup = "none" => ~group)

OnBranch == at = "git" \/ branch = "task" \/ (at \in Ending /\ verdict = "preflight")

Verified ==
  /\ at = "collect" /\ collected.for = "tests" /\ Sure =>
       (collected.step # "verify1" => identity = "attested") /\ Fresh(Second)
  /\ at = "postTests" /\ Sure => snapshot = Delta /\ identity = "attested"
  /\ verdict = "passed" /\ ~escaped =>
       Sure /\ snapshot = Delta /\ Delta \subseteq allowed /\ identity = "attested" /\ manifest

GateInv == Types /\ Evidence /\ Honest /\ Reaped /\ OnBranch /\ Verified

-----------------------------------------------------------------------------
(* Operators.                                                              *)
LEMMA Ordered ==
  /\ \A step \in Steps : Order[step] \in 1..10
  /\ \A read \in Captures, step \in Steps : Order[read] = Order[step] => read = step
  /\ \A read \in Second, step \in Steps : Order[read] < Order[step] => Order[step] > 6
  /\ \A read \in First, step \in Steps : Order[step] > 4 => Order[read] < Order[step]
  /\ Order["verify1"] = 1 /\ Order["compare"] = 10
  /\ \A step \in Steps \ {"compare"} :
       NextStep[step] \in Steps /\ Order[NextStep[step]] = Order[step] + 1
BY DEF Steps, Captures, Verifications, First, Second, Order, NextStep

LEMMA ReadsAre ==
  /\ Reads("unstaged1") = Unstaged /\ Reads("staged1") = Staged /\ Reads("untracked1") = Untracked
  /\ Reads("unstaged2") = Unstaged /\ Reads("staged2") = Staged /\ Reads("untracked2") = Untracked
  /\ \A read : Reads(read) \in SUBSET Path
BY DEF Reads, Unstaged, Staged, Untracked

\* What the four kinds of reads find is what the task changed.
LEMMA ReadsAreDelta ==
  ASSUME Types
  PROVE  Committed \union Unstaged \union Staged \union Untracked = Delta
<1> SUFFICES ASSUME NEW p \in Path
             PROVE  p \in Committed \union Unstaged \union Staged \union Untracked <=> p \in Delta
  BY DEF Committed, Unstaged, Staged, Untracked, Delta, DeltaOf
<1>1. /\ base[p] \in Content /\ head[p] \in Content /\ index[p] \in Content /\ work[p] \in Content
  BY DEF Types, Contents
<1>2. p \in Delta <=> head[p] # base[p] \/ index[p] # base[p] \/ work[p] # base[p]
  BY DEF Delta, DeltaOf
<1>3. p \in Committed \union Unstaged \union Staged \union Untracked
        <=> \/ base[p] # head[p] \/ head[p] # index[p]
            \/ index[p] = "present" /\ work[p] = "absent"
            \/ index[p] = "absent" /\ work[p] = "present"
  BY DEF Committed, Unstaged, Staged, Untracked
<1> QED
  BY <1>1, <1>2, <1>3 DEF Content

LEMMA SecondIsDelta ==
  ASSUME Types, Fresh(Second), collected.step = "compare"
  PROVE  PolicyPaths = Delta
<1>1. /\ capture["unstaged2"] = Unstaged /\ capture["staged2"] = Staged
      /\ capture["untracked2"] = Untracked
  <2>1. Done("unstaged2") /\ Done("staged2") /\ Done("untracked2")
    BY DEF Done, Order
  <2> QED
    BY <2>1, ReadsAre DEF Fresh, Second
<1>2. PolicyPaths = Committed \union Unstaged \union Staged \union Untracked
  BY <1>1 DEF PolicyPaths, Committed
<1> QED
  BY <1>2, ReadsAreDelta

LEMMA FirstIsDelta ==
  ASSUME Types, Fresh(Captures), Order[collected.step] > 4
  PROVE  FirstPaths = Delta
<1>1. /\ capture["unstaged1"] = Unstaged /\ capture["staged1"] = Staged
      /\ capture["untracked1"] = Untracked
  <2>1. Done("unstaged1") /\ Done("staged1") /\ Done("untracked1")
    BY Ordered DEF Done, First, Types
  <2> QED
    BY <2>1, ReadsAre DEF Fresh, Captures
<1> QED
  BY <1>1, ReadsAreDelta DEF FirstPaths

-----------------------------------------------------------------------------
(* Steps that have nothing to do with the collection or the tests.         *)
LEMMA FreshDelta ==
  ASSUME UNCHANGED <<base, head, index, work>>
  PROVE  /\ Delta' = Delta /\ Committed' = Committed /\ \A read : Reads(read)' = Reads(read)
BY DEF Delta, DeltaOf, Committed, Reads, Unstaged, Staged, Untracked

\* A collection begins.
LEMMA Begins ==
  ASSUME GateInv, NEW purpose \in Purposes, CollectFrom(purpose, work'),
         UNCHANGED <<base, head, index>>
  PROVE  /\ at' = "collect" /\ collected' = [for |-> purpose, step |-> "verify1"]
         /\ collected' \in [for : Purposes, step : Steps] /\ capture' \in [Captures -> SUBSET Path]
         /\ changes' = 0 /\ before' = Delta'
         /\ \A read \in Captures : ~Done(read)'
         /\ Honest'
<1>1. /\ at' = "collect" /\ collected' = [for |-> purpose, step |-> "verify1"]
      /\ changes' = 0 /\ capture' = Nothing /\ before' = DeltaOf(work')
  BY DEF CollectFrom
<1>2. before' = Delta'
  BY <1>1 DEF Delta, DeltaOf
<1>3. collected' \in [for : Purposes, step : Steps] /\ capture' \in [Captures -> SUBSET Path]
  BY <1>1 DEF Steps, Verifications, Nothing
<1>4. \A read \in Captures : ~Done(read)'
  <2>1. collected'.step = "verify1"
    BY <1>1
  <2> QED
    BY <2>1 DEF Done, Order, Captures
<1>5. Honest'
  BY <1>1, <1>2, <1>4 DEF Honest, Fresh
<1> QED
  BY <1>1, <1>2, <1>3, <1>4, <1>5

LEMMA PreflightSteps ==
  ASSUME GateInv, PrepareGit \/ Attest
  PROVE  GateInv'
<1> USE DEF GateInv
<1>1. CASE PrepareGit
  <2> USE <1>1 DEF PrepareGit
  <2>1. /\ at = "git" /\ UNCHANGED <<collecting, building, process, identity, manifest, report, telemetry, exit, disk>>
        /\ at' \in {"attest", "persist"}
        /\ at' = "persist" => verdict' = "preflight"
        /\ at' = "attest" => branch' = "task" /\ verdict' = verdict
    BY DEF Fail, OnTaskBranch
  <2>2. base' \in Contents /\ head' \in Contents /\ index' \in Contents /\ work' \in Contents
    BY DEF Fail, OnTaskBranch, SwitchTo, ResolveMergeBase, Types, Contents
  <2>3. Types'
    BY <2>1, <2>2 DEF Types, collecting, building, process
  <2>4. Evidence'
    BY <2>1 DEF Evidence, Ending, Missing
  <2>5. Honest' /\ Reaped' /\ OnBranch' /\ Verified'
    BY <2>1 DEF Honest, Reaped, OnBranch, Verified, Untested, Evidence, Ending, Missing, collecting, process
  <2> QED
    BY <2>3, <2>4, <2>5
<1>2. CASE Attest
  <2> USE <1>2 DEF Attest
  <2>1. /\ at = "attest" /\ UNCHANGED <<tree, building, process, disk, report, telemetry, exit>>
    BY DEF evidence
  <2>2. CASE Collect("initial") /\ UNCHANGED verdict
    <3>1. CollectFrom("initial", work')
      BY <2>1, <2>2 DEF Collect, tree
    <3>2. /\ at' = "collect" /\ collected'.for = "initial" /\ Honest'
          /\ collected' \in [for : Purposes, step : Steps] /\ capture' \in [Captures -> SUBSET Path]
          /\ changes' = 0
      BY <2>1, <3>1, Begins DEF Purposes, tree
    <3>3. Types'
      BY <2>1, <3>2 DEF Types, tree, building, process
    <3>4. Evidence' /\ Reaped' /\ OnBranch' /\ Verified'
      BY <2>1, <2>2, <3>2 DEF Evidence, Reaped, OnBranch, Verified, Untested, Ending, Missing, tree, process
    <3> QED
      BY <3>2, <3>3, <3>4
  <2>3. CASE Fail("preflight") /\ UNCHANGED collecting
    <3>1. Types'
      BY <2>1, <2>3 DEF Types, tree, building, process, collecting
    <3>2. Evidence' /\ Honest' /\ Reaped' /\ OnBranch' /\ Verified'
      BY <2>1, <2>3 DEF Evidence, Honest, Reaped, OnBranch, Verified, Untested, Ending, Missing, Fail, tree, process
    <3> QED
      BY <3>1, <3>2
  <2> QED
    BY <2>2, <2>3
<1> QED
  BY <1>1, <1>2

-----------------------------------------------------------------------------
(* The collection.                                                         *)
LEMMA CollectionFails ==
  ASSUME GateInv, at = "collect", CollectFails, UNCHANGED <<tree, process, disk, report, telemetry, exit, collected>>,
         capture' = Nothing, changes' = 0
  PROVE  GateInv'
<1>1. \/ at' = "persist" /\ verdict' \in {"preflight", "blocked"}
      \/ at' = "builderEnds" /\ collected.for \in {"beforeApply", "generated"} /\ UNCHANGED verdict
  BY DEF CollectFails, Fail
<1>2. Types'
  BY DEF GateInv, Types, CollectFails, tree, process, Nothing
<1>3. Evidence' /\ Honest' /\ Reaped' /\ OnBranch' /\ Verified'
  BY <1>1 DEF GateInv, Evidence, Honest, Reaped, OnBranch, Verified, Untested, Ending, Missing, tree, process
<1> QED
  BY <1>2, <1>3 DEF GateInv

\* What is done before a step of the collection stays done, and what it is.
LEMMA Advances ==
  ASSUME Types, Advance, collected.step # "compare"
  PROVE  /\ collected' \in [for : Purposes, step : Steps] /\ collected'.for = collected.for
         /\ Order[collected'.step] = Order[collected.step] + 1
         /\ \A read \in Captures : Done(read)' <=> Done(read) \/ read = collected.step
<1>1. collected.step \in Steps \ {"compare"} /\ collected.for \in Purposes
  BY DEF Types
<1>2. collected' = [collected EXCEPT !.step = NextStep[collected.step]]
  BY DEF Advance
<1>3. /\ collected' \in [for : Purposes, step : Steps] /\ collected'.for = collected.for
      /\ collected'.step = NextStep[collected.step]
  BY <1>1, <1>2, Ordered DEF Types
<1>4. Order[collected'.step] = Order[collected.step] + 1
  BY <1>1, <1>3, Ordered
<1>5. \A read \in Captures : Done(read)' <=> Done(read) \/ read = collected.step
  <2> SUFFICES ASSUME NEW read \in Captures
               PROVE  Done(read)' <=> Done(read) \/ read = collected.step
    OBVIOUS
  <2>1. Order[read] \in Int /\ Order[collected.step] \in Int
    BY <1>1, Ordered DEF Steps
  <2>2. Order[read] < Order[collected.step] + 1 <=> Order[read] < Order[collected.step] \/ Order[read] = Order[collected.step]
    BY <2>1
  <2> QED
    BY <1>1, <1>4, <2>2, Ordered DEF Done
<1> QED
  BY <1>3, <1>4, <1>5

LEMMA VerifyStep ==
  ASSUME GateInv, Verify
  PROVE  GateInv'
<1>1. /\ at = "collect" /\ collected.step \in Verifications
      /\ UNCHANGED <<tree, process, snapshot, disk, report, telemetry, exit, persisted>>
  BY DEF Verify, Verifications
<1>2. CASE ~(Fingerprinted /\ Safe)
  BY <1>1, <1>2, CollectionFails DEF Verify, Forget
<1>3. CASE Fingerprinted /\ Safe
  <2>1. /\ Advance /\ UNCHANGED <<at, verdict, capture, before, changes, builderFailure>> /\ identity = "attested"
    BY <1>1, <1>3 DEF Verify, Fingerprinted, Safe, GateInv, Types
  <2>2. /\ collected' \in [for : Purposes, step : Steps] /\ collected'.for = collected.for
        /\ Order[collected'.step] = Order[collected.step] + 1
        /\ \A read \in Captures : Done(read)' <=> Done(read)
    BY <1>1, <2>1, Advances DEF GateInv, Verifications, Captures
  <2>3. /\ Delta' = Delta /\ FirstPaths' = FirstPaths /\ \A read : Reads(read)' = Reads(read)
    BY <1>1, <2>1, FreshDelta DEF tree, FirstPaths
  <2>4. Fresh(Captures)' = Fresh(Captures) /\ Fresh(Second)' = Fresh(Second)
    BY <2>1, <2>2, <2>3 DEF Fresh, Second, Captures
  <2>5. Types'
    BY <1>1, <2>1, <2>2 DEF GateInv, Types, tree, process
  <2>6. Honest'
    <3>1. Order[collected.step] \in Int /\ (Order[collected.step] > 4 => Order[collected'.step] > 4)
      BY <2>2, Ordered DEF GateInv, Types
    <3> QED
      BY <1>1, <2>1, <2>3, <2>4, <3>1 DEF GateInv, Honest
  <2>7. Evidence' /\ Reaped' /\ OnBranch'
    BY <1>1, <2>1, <2>2 DEF GateInv, Evidence, Reaped, OnBranch, Untested, TestsOk, tree, process
  <2>8. Verified'
    BY <1>1, <2>1, <2>2, <2>3, <2>4 DEF GateInv, Verified, Sure, TestsOk, Evidence, Ending, Missing, tree, process
  <2> QED
    BY <2>5, <2>6, <2>7, <2>8 DEF GateInv
<1> QED
  BY <1>2, <1>3

LEMMA ReadStep ==
  ASSUME GateInv, Read
  PROVE  GateInv'
<1>1. /\ at = "collect" /\ collected.step \in Captures
      /\ UNCHANGED <<tree, process, snapshot, disk, report, telemetry, exit, persisted>>
  BY DEF Read
<1>2. CASE CollectFails /\ Forget /\ UNCHANGED collected
  BY <1>1, <1>2, CollectionFails DEF Forget
<1>3. CASE /\ capture' = [capture EXCEPT ![collected.step] = Reads(collected.step)] /\ Advance
           /\ UNCHANGED <<at, verdict, before, changes, builderFailure>>
  <2>1. /\ collected' \in [for : Purposes, step : Steps] /\ collected'.for = collected.for
        /\ Order[collected'.step] = Order[collected.step] + 1
        /\ \A read \in Captures : Done(read)' <=> Done(read) \/ read = collected.step
    BY <1>1, <1>3, Advances DEF GateInv, Captures
  <2>2. capture' \in [Captures -> SUBSET Path]
    BY <1>1, <1>3, ReadsAre DEF GateInv, Types
  <2>3. /\ Delta' = Delta /\ Committed' = Committed /\ \A read : Reads(read)' = Reads(read)
    BY <1>1, FreshDelta DEF tree
  <2>4. \A read \in Captures : capture'[read] = IF read = collected.step THEN Reads(read) ELSE capture[read]
    BY <1>1, <1>3 DEF GateInv, Types
  <2>5. /\ Fresh(Captures) => Fresh(Captures)'
        /\ Fresh(Second) => Fresh(Second)'
    BY <2>1, <2>3, <2>4 DEF Fresh, Second, Captures
  <2>6. Types'
    BY <1>1, <1>3, <2>1, <2>2 DEF GateInv, Types, tree, process
  <2>7. Honest'
    <3>1. ASSUME FirstPaths = before, Order[collected.step] > 4
          PROVE  FirstPaths' = before' /\ Order[collected'.step] > 4
      <4>1. Order[collected.step] \in Int /\ collected.step \notin First
        BY <1>1, <3>1, Ordered DEF GateInv, Types, Order, First
      <4>2. /\ capture'["unstaged1"] = capture["unstaged1"] /\ capture'["staged1"] = capture["staged1"]
            /\ capture'["untracked1"] = capture["untracked1"]
        BY <2>4, <4>1 DEF First, Captures
      <4> QED
        BY <1>3, <2>1, <2>3, <3>1, <4>1, <4>2 DEF FirstPaths
    <3> QED
      BY <1>1, <1>3, <2>3, <2>5, <3>1 DEF GateInv, Honest
  <2>8. Evidence' /\ Reaped' /\ OnBranch'
    BY <1>1, <1>3, <2>1 DEF GateInv, Evidence, Reaped, OnBranch, Untested, tree, process
  <2>9. Verified'
    <3>1. collected.step # "verify1" /\ verdict' = verdict /\ at' = at
      BY <1>1, <1>3 DEF Captures
    <3> QED
      BY <1>1, <2>1, <2>3, <2>5, <3>1 DEF GateInv, Verified, Sure, TestsOk, Evidence, Ending, Missing, tree, process
  <2> QED
    BY <2>6, <2>7, <2>8, <2>9 DEF GateInv
<1> QED
  BY <1>1, <1>2, <1>3 DEF Read

\* Where a collection leads when both captures agree.
LEMMA AfterSnapshotIs ==
  ASSUME NEW purpose \in Purposes
  PROVE  /\ AfterSnapshot[purpose] \in {"preTests", "preBuilder", "apply", "generated", "postBuilder", "postTests"}
         /\ AfterSnapshot[purpose] = "postTests" <=> purpose = "tests"
BY DEF Purposes, AfterSnapshot

LEMMA CompareStep ==
  ASSUME GateInv, Compare
  PROVE  GateInv'
<1>1. /\ at = "collect" /\ collected.step = "compare" /\ Forget
      /\ UNCHANGED <<tree, collected, process, disk, report, telemetry, exit, persisted>>
  BY DEF Compare
<1>2. CASE CollectFails
  BY <1>1, <1>2, CollectionFails DEF Forget
<1>3. CASE at' = AfterSnapshot[collected.for] /\ snapshot' = PolicyPaths
           /\ UNCHANGED <<verdict, builderFailure>>
  <2>1. /\ at' \in {"preTests", "preBuilder", "apply", "generated", "postBuilder", "postTests"}
        /\ at' = "postTests" <=> collected.for = "tests"
    BY <1>3, AfterSnapshotIs DEF GateInv, Types
  <2>2. Types'
    BY <1>1, <1>3 DEF GateInv, Types, tree, process, Forget, Nothing
  <2>3. Evidence' /\ Honest' /\ OnBranch' /\ Reaped'
    BY <1>1, <1>3, <2>1 DEF GateInv, Evidence, Honest, OnBranch, Reaped, Untested, Ending, Missing, tree, process
  <2>4. Verified'
    <3>1. Delta' = Delta
      BY <1>1, FreshDelta DEF tree
    <3>2. verdict' = Missing /\ Sure' = Sure /\ identity' = identity
      BY <1>1, <1>3 DEF GateInv, Evidence, Ending, Sure, TestsOk, tree, process
    <3>3. ASSUME at' = "postTests", Sure
          PROVE  snapshot' = Delta /\ identity = "attested"
      <4>1. collected.for = "tests" /\ Fresh(Second) /\ identity = "attested"
        BY <1>1, <2>1, <3>3 DEF GateInv, Verified
      <4> QED
        BY <1>1, <1>3, <4>1, SecondIsDelta DEF GateInv
    <3> QED
      BY <2>1, <3>1, <3>2, <3>3 DEF Verified, Missing
  <2> QED
    BY <2>2, <2>3, <2>4 DEF GateInv
<1> QED
  BY <1>1, <1>2, <1>3 DEF Compare

-----------------------------------------------------------------------------
(* The builder.                                                            *)

\* A collection begins for any purpose but the tests.
LEMMA CollectsUntested ==
  ASSUME GateInv, Untested, at # "git", at \notin Ending, NEW purpose \in Purposes \ {"tests"},
         CollectFrom(purpose, work'), work' \in Contents, builderFailure' \in {Missing, "failed", "blocked"},
         UNCHANGED <<branch, base, head, index, identity, manifest, allowed, process, evidence>>
  PROVE  GateInv'
<1>1. /\ at' = "collect" /\ collected'.for # "tests" /\ Honest'
      /\ collected' \in [for : Purposes, step : Steps] /\ capture' \in [Captures -> SUBSET Path]
      /\ changes' = 0
  BY Begins
<1>2. Types'
  BY <1>1 DEF GateInv, Types, process
<1>3. Evidence' /\ Reaped' /\ OnBranch' /\ Verified'
  BY <1>1 DEF GateInv, Evidence, Reaped, OnBranch, Verified, Untested, Ending, Missing, process, evidence
<1> QED
  BY <1>1, <1>2, <1>3 DEF GateInv

\* A stage before the tests follows another, or the run fails.
LEMMA GoesOn ==
  ASSUME GateInv, Untested, at # "git", at \notin Ending,
         \/ at' \in {"building", "builderEnds", "preTests"} /\ UNCHANGED verdict
         \/ \E status : Fail(status) /\ status # "passed",
         builderFailure' \in {Missing, "failed", "blocked"},
         UNCHANGED <<branch, base, head, index, work, identity, manifest, allowed>>,
         UNCHANGED <<collected, capture, changes, process, persisted, disk, telemetry, report, exit>>
  PROVE  GateInv'
<1>1. Types'
  BY DEF GateInv, Types, process
<1>2. Evidence' /\ Honest' /\ Reaped' /\ OnBranch' /\ Verified'
  BY DEF GateInv, Evidence, Honest, Reaped, OnBranch, Verified, Untested, Ending, Missing, Fail, process
<1> QED
  BY <1>1, <1>2 DEF GateInv

LEMMA BuilderSteps ==
  ASSUME GateInv, PreBuilder \/ BuilderReturns \/ ApplyPatch \/ RecordAttestation \/ BuilderEnds \/ PostBuilder
  PROVE  GateInv'
<1>1. /\ at \in {"preBuilder", "building", "apply", "generated", "builderEnds", "postBuilder"}
      /\ UNCHANGED <<branch, base, head, index, identity, manifest, allowed, process, persisted, disk, telemetry, report, exit>>
  BY DEF PreBuilder, BuilderReturns, ApplyPatch, RecordAttestation, BuilderEnds, PostBuilder, tree, evidence
<1>2. Untested /\ at # "git" /\ at \notin Ending /\ work \in Contents
      /\ builderFailure \in {Missing, "failed", "blocked"}
  BY <1>1 DEF Untested, Ending, GateInv, Types
<1>3. CASE PreBuilder
  <2>1. /\ (at' = "building" /\ UNCHANGED verdict) \/ Fail("blocked")
        /\ UNCHANGED <<work, collected, capture, changes, builderFailure>>
    BY <1>3 DEF PreBuilder, tree, collecting, building
  <2> QED
    BY <1>1, <1>2, <2>1, GoesOn
<1>4. CASE BuilderReturns
  <2>1. UNCHANGED work /\ UNCHANGED evidence /\ builderFailure' \in {Missing, "failed", "blocked"}
    BY <1>2, <1>4 DEF BuilderReturns, tree
  <2>2. CollectFrom("beforeApply", work') \/ (at' = "builderEnds" /\ UNCHANGED collecting)
    BY <1>4, <2>1 DEF BuilderReturns, Collect
  <2> QED
    BY <1>1, <1>2, <2>1, <2>2, GoesOn, CollectsUntested DEF Purposes, collecting, evidence
<1>5. CASE ApplyPatch
  <2>1. UNCHANGED evidence /\ builderFailure' \in {Missing, "failed", "blocked"}
    BY <1>2, <1>5 DEF ApplyPatch
  <2>2. CASE \E patched \in Contents : work' = patched /\ CollectFrom("generated", patched)
    BY <1>1, <1>2, <2>1, <2>2, CollectsUntested DEF Purposes
  <2>3. CASE at' = "builderEnds" /\ UNCHANGED <<work, collecting>>
    BY <1>1, <1>2, <2>1, <2>3, GoesOn DEF collecting, evidence
  <2> QED
    BY <1>5, <2>2, <2>3 DEF ApplyPatch, Contents
<1>6. CASE RecordAttestation
  <2>1. /\ at' = "builderEnds" /\ UNCHANGED evidence /\ builderFailure' \in {Missing, "failed", "blocked"}
        /\ UNCHANGED <<work, collected, capture, changes>>
    BY <1>2, <1>6 DEF RecordAttestation, tree, collecting
  <2> QED
    BY <1>1, <1>2, <2>1, GoesOn DEF evidence
<1>7. CASE BuilderEnds
  <2>1. /\ UNCHANGED work /\ UNCHANGED evidence /\ builderFailure' \in {Missing, "failed", "blocked"}
        /\ CollectFrom("builder", work')
    BY <1>2, <1>7 DEF BuilderEnds, Collect, tree
  <2> QED
    BY <1>1, <1>2, <2>1, CollectsUntested DEF Purposes
<1>8. CASE PostBuilder
  <2>1. UNCHANGED <<work, collected, capture, changes, builderFailure>>
    BY <1>8 DEF PostBuilder, tree, collecting, building
  <2>2. \/ at' = "preTests" /\ UNCHANGED verdict
        \/ \E status \in {"failed", "blocked"} : Fail(status)
    BY <1>2, <1>8 DEF PostBuilder
  <2> QED
    BY <1>1, <1>2, <2>1, <2>2, GoesOn
<1> QED
  BY <1>3, <1>4, <1>5, <1>6, <1>7, <1>8

-----------------------------------------------------------------------------
(* The tests.                                                              *)

\* The process and its descendants go on, and the gate notices.
LEMMA ProcessSteps ==
  ASSUME GateInv, Fork \/ LeaderExits \/ Exited \/ TestTimeout
  PROVE  GateInv'
<1>1. UNCHANGED <<at, tree, collecting, building, evidence>>
  BY DEF Fork, LeaderExits, Exited, TestTimeout
<1>2. Types'
  <2>1. /\ leader' \in {"none", "running", "zero", "nonzero", "signaled", "reaped"}
        /\ group' \in BOOLEAN /\ escaped' \in BOOLEAN
    BY DEF Fork, LeaderExits, Exited, TestTimeout, GateInv, Types
  <2>2. tests' \in Seen
    <3>1. tests \in Seen /\ leader' \in {"none", "running", "zero", "nonzero", "signaled", "reaped"}
      BY <2>1 DEF GateInv, Types
    <3>2. CASE Fork \/ LeaderExits
      BY <3>1, <3>2 DEF Fork, LeaderExits
    <3>3. CASE Exited
      BY <3>1, <3>3 DEF Exited, Noticed, Seen
    <3>4. CASE TestTimeout
      BY <3>1, <3>4 DEF TestTimeout, Seen
    <3> QED
      BY <3>2, <3>3, <3>4
  <2> QED
    BY <1>1, <2>1, <2>2 DEF GateInv, Types, tree, collecting, building
<1>3. ~Untested
  BY DEF GateInv, Reaped, Untested, Fork, LeaderExits, Exited, TestTimeout, Types
<1>4. Reaped'
  <2>1. ~Untested'
    BY <1>1, <1>3 DEF Untested, collecting
  <2>2. CASE Fork
    BY <2>1, <2>2 DEF Fork, Reaped, GateInv, Types
  <2>3. CASE LeaderExits
    BY <2>1, <2>3 DEF LeaderExits, Reaped, GateInv, Types
  <2>4. CASE Exited
    <3>1. tests.status = "unknown"
      BY <2>4 DEF Exited, Reaped, GateInv
    <3>2. /\ leader' = "reaped"
          /\ tests'.status # "unknown" /\ tests'.cleanup = "none" => ~group'
      BY <2>4, <3>1 DEF Exited, Noticed, GateInv, Types, Seen
    <3> QED
      BY <2>1, <3>2 DEF Reaped
  <2>5. CASE TestTimeout
    BY <2>1, <2>5 DEF TestTimeout, Reaped, GateInv, Types, Seen
  <2> QED
    BY <2>2, <2>3, <2>4, <2>5
<1>5. Honest'
  <2>1. Delta' = Delta /\ FirstPaths' = FirstPaths /\ \A read : Reads(read)' = Reads(read)
    BY <1>1, FreshDelta DEF tree, FirstPaths, collecting
  <2> QED
    BY <1>1, <2>1 DEF GateInv, Honest, Fresh, Done, collecting
<1>6. Evidence' /\ OnBranch'
  BY <1>1 DEF GateInv, Evidence, OnBranch, tree, evidence
<1>7. Verified'
  <2>1. CASE at = "tests"
    <3>1. at' = "tests" /\ verdict' = "none"
      BY <1>1, <2>1 DEF GateInv, Evidence, Ending, Missing, evidence
    <3> QED
      BY <3>1 DEF Verified
  <2>2. CASE at # "tests"
    <3>1. tests' = tests /\ (Sure' <=> Sure /\ ~escaped') /\ (~escaped' => ~escaped)
      BY <2>2 DEF Fork, LeaderExits, Exited, TestTimeout, Noticed, Sure, TestsOk, GateInv, Types
    <3>2. /\ Delta' = Delta /\ Fresh(Second)' = Fresh(Second)
      BY <1>1, FreshDelta DEF tree, collecting, Fresh, Done
    <3> QED
      BY <1>1, <3>1, <3>2 DEF GateInv, Verified, collecting, tree, evidence
  <2> QED
    BY <2>1, <2>2
<1> QED
  BY <1>2, <1>4, <1>5, <1>6, <1>7 DEF GateInv

LEMMA PreTestsStep ==
  ASSUME GateInv, PreTests
  PROVE  GateInv'
<1>1. /\ at = "preTests" /\ UNCHANGED <<tree, collecting, building, group, escaped, persisted, disk, telemetry, report, exit>>
      /\ \/ at' = "tests" /\ StartTests /\ UNCHANGED verdict
         \/ Fail("blocked") /\ UNCHANGED <<leader, tests>>
  BY DEF PreTests
<1>2. leader' \in {"none", "running"} /\ tests' \in Seen /\ tests'.status = "unknown"
  BY <1>1 DEF StartTests, GateInv, Reaped, Untested, Types, Seen
<1>3. Types'
  BY <1>1, <1>2 DEF GateInv, Types, tree, collecting, building
<1>4. Evidence' /\ Honest' /\ Reaped' /\ OnBranch' /\ Verified'
  BY <1>1, <1>2 DEF GateInv, Evidence, Honest, Reaped, OnBranch, Verified, Untested, Ending, Missing, Fail, tree
<1> QED
  BY <1>3, <1>4 DEF GateInv

LEMMA TestsFinishStep ==
  ASSUME GateInv, TestsFinish
  PROVE  GateInv'
<1>1. /\ at = "tests" /\ UNCHANGED <<tree, building, process, evidence>> /\ CollectFrom("tests", work')
      /\ UNCHANGED <<base, head, index>>
  BY DEF TestsFinish, Collect, tree
<1>2. /\ at' = "collect" /\ collected' = [for |-> "tests", step |-> "verify1"] /\ Honest'
      /\ collected' \in [for : Purposes, step : Steps] /\ capture' \in [Captures -> SUBSET Path]
      /\ changes' = 0 /\ \A read \in Captures : ~Done(read)'
  BY <1>1, Begins DEF Purposes
<1>3. Types'
  BY <1>1, <1>2 DEF GateInv, Types, tree, building, process
<1>4. Evidence' /\ Reaped' /\ OnBranch'
  BY <1>1, <1>2 DEF GateInv, Evidence, Reaped, OnBranch, Untested, Ending, Missing, tree, process, evidence
<1>5. Verified'
  <2>1. Fresh(Second)'
    BY <1>2 DEF Fresh, Second, Captures
  <2> QED
    BY <1>1, <1>2, <2>1 DEF GateInv, Evidence, Verified, Ending, Missing, evidence
<1> QED
  BY <1>2, <1>3, <1>4, <1>5 DEF GateInv

LEMMA PostTestsStep ==
  ASSUME GateInv, PostTests
  PROVE  GateInv'
<1>1. /\ at = "postTests" /\ UNCHANGED <<tree, collecting, building, process, persisted, disk, telemetry, report, exit>>
      /\ at' = "persist" /\ verdict' \in {"blocked", "failed", "passed"}
      /\ verdict' = "passed" => manifest /\ InScope /\ tests.cleanup # "failed" /\ TestsOk
  BY DEF PostTests, Fail
<1>2. Types'
  BY <1>1 DEF GateInv, Types, tree, collecting, building, process
<1>3. Evidence' /\ Honest' /\ Reaped' /\ OnBranch'
  BY <1>1 DEF GateInv, Evidence, Honest, Reaped, OnBranch, Untested, Ending, Missing, tree, process
<1>4. Verified'
  <2>1. Delta' = Delta /\ Sure' = Sure /\ UNCHANGED <<snapshot, identity, manifest, allowed, escaped>>
    BY <1>1, FreshDelta DEF tree, collecting, process, Sure, TestsOk
  <2>2. verdict' = "passed" /\ ~escaped => Sure
    BY <1>1 DEF Sure, GateInv, Types, Seen
  <2> QED
    BY <1>1, <2>1, <2>2 DEF GateInv, Verified, InScope
<1> QED
  BY <1>2, <1>3, <1>4 DEF GateInv

-----------------------------------------------------------------------------
(* The report.                                                             *)
LEMMA ReportSteps ==
  ASSUME GateInv, Persist \/ Construct \/ Commit("normal", "fallback") \/ Commit("fallback", "exit") \/ Exit
  PROVE  GateInv'
<1>1. /\ at \in Ending /\ at' \in Ending /\ UNCHANGED <<tree, collecting, building, process>>
      /\ verdict' = "passed" => verdict = "passed"
      /\ verdict = "preflight" => verdict' = "preflight"
  BY DEF Persist, Construct, Commit, Exit, Ending, Worse
<1>2. Types'
  BY <1>1 DEF GateInv, Types, tree, collecting, building, process
<1>3. Honest' /\ Reaped' /\ OnBranch'
  BY <1>1 DEF GateInv, Honest, Reaped, OnBranch, Untested, Ending, tree, process
<1>4. Verified'
  <2>1. Delta' = Delta /\ Sure' = Sure
    BY <1>1, FreshDelta DEF tree, process, Sure, TestsOk
  <2> QED
    BY <1>1, <2>1 DEF GateInv, Verified, Ending, tree, collecting, process
<1>5. Evidence'
  <2>1. CASE Persist
    BY <2>1 DEF Persist, Worse, GateInv, Evidence, Ending
  <2>2. CASE Construct
    BY <2>2 DEF Construct, Worse, GateInv, Evidence, Ending
  <2>3. CASE Commit("normal", "fallback")
    BY <2>3 DEF Commit, Worse, GateInv, Evidence, Ending
  <2>4. CASE Commit("fallback", "exit")
    BY <2>4 DEF Commit, Worse, GateInv, Evidence, Ending
  <2>5. CASE Exit
    BY <2>5 DEF Exit, GateInv, Evidence, Ending
  <2> QED
    BY <2>1, <2>2, <2>3, <2>4, <2>5
<1> QED
  BY <1>2, <1>3, <1>4, <1>5 DEF GateInv

-----------------------------------------------------------------------------
(* The others.                                                             *)
LEMMA WriteStep ==
  ASSUME GateInv, Write
  PROVE  GateInv'
<1>1. /\ Running /\ UNCHANGED <<at, branch, base, head, allowed, collected, capture, snapshot, before, building, process, evidence>>
      /\ changes' = IF at = "collect" /\ changes < 2 THEN changes + 1 ELSE changes
  BY DEF Write
<1>2. Types'
  <2>1. /\ index' \in Contents /\ work' \in Contents /\ manifest' \in BOOLEAN
        /\ identity' \in {"attested", "unsafe", "changed"}
    <3>1. /\ index \in Contents /\ work \in Contents /\ head \in Contents /\ manifest \in BOOLEAN
          /\ identity \in {"attested", "unsafe", "changed"}
      BY DEF GateInv, Types
    <3> QED
      BY <3>1 DEF Write, Contents
  <2>2. changes' \in 0..2
    BY <1>1 DEF GateInv, Types
  <2> QED
    BY <1>1, <2>1, <2>2 DEF GateInv, Types, building, process
<1>3. Evidence' /\ Reaped' /\ OnBranch'
  BY <1>1 DEF GateInv, Evidence, Reaped, OnBranch, Untested, process, evidence
<1>4. Honest'
  <2> SUFFICES ASSUME at = "collect"
               PROVE  Honest'
    BY <1>1 DEF Honest
  <2>1. changes \in {0, 1, 2} /\ changes' = IF changes < 2 THEN changes + 1 ELSE changes
    BY <1>1 DEF GateInv, Types
  <2>2. CASE changes # 0
    BY <2>1, <2>2 DEF Honest
  <2>3. CASE changes = 0
    <3>1. collected.step \in Steps /\ Order[collected.step] \in Int
      BY Ordered DEF GateInv, Types
    <3>2. CASE Order[collected.step] > 4
      <4>1. FirstPaths = before /\ UNCHANGED <<FirstPaths, before>>
        BY <1>1, <2>3, <3>2, FirstIsDelta DEF GateInv, Honest, FirstPaths, Committed
      <4> QED
        BY <1>1, <2>1, <2>3, <3>2, <4>1 DEF Honest
    <3>3. CASE Order[collected.step] <= 4
      <4>1. \A read \in Second : ~Done(read)
        BY <3>1, <3>3, Ordered DEF Done
      <4>2. Fresh(Second)'
        BY <1>1, <4>1 DEF Fresh, Done
      <4> QED
        BY <1>1, <2>1, <2>3, <4>2 DEF Honest
    <3> QED
      BY <3>1, <3>2, <3>3
  <2> QED
    BY <2>2, <2>3
<1>5. Verified'
  <2>1. ~Sure \/ at = "building"
    BY <1>1 DEF Running, Sure, TestsOk, GateInv, Reaped
  <2>2. Sure' = Sure
    BY <1>1 DEF Sure, TestsOk, process
  <2>3. at = "building" => verdict' = "none"
    BY <1>1 DEF GateInv, Evidence, Ending, Missing, evidence
  <2>4. UNCHANGED <<at, escaped, verdict>>
    BY <1>1 DEF process, evidence
  <2>5. verdict = "passed" /\ ~escaped => Sure
    BY DEF GateInv, Verified
  <2> QED
    BY <2>1, <2>2, <2>3, <2>4, <2>5 DEF Verified
<1> QED
  BY <1>2, <1>3, <1>4, <1>5 DEF GateInv

-----------------------------------------------------------------------------
LEMMA GateInvInit == Init => GateInv
<1> SUFFICES ASSUME Init
             PROVE  GateInv
  OBVIOUS
<1> USE DEF Init
<1>1. Types
  <2>1. base \in Contents /\ head \in Contents /\ index \in Contents /\ work \in Contents
    BY DEF Contents, Content
  <2>2. collected \in [for : Purposes, step : Steps] /\ capture \in [Captures -> SUBSET Path]
    BY DEF Purposes, Steps, Verifications, Nothing
  <2>3. tests \in Seen
    BY DEF Idle, Seen
  <2>4. manifest \in BOOLEAN /\ group \in BOOLEAN /\ escaped \in BOOLEAN
    OBVIOUS
  <2> QED
    BY <2>1, <2>2, <2>3, <2>4 DEF Types
<1>2. Evidence
  BY DEF Evidence, Ending, Missing
<1>3. Reaped
  <2>1. tests.status = "unknown" /\ leader = "none" /\ ~group
    BY DEF Idle
  <2> QED
    BY <2>1 DEF Reaped
<1>4. Honest /\ OnBranch
  BY DEF Honest, OnBranch
<1>5. Verified
  <2>1. at = "git" /\ verdict = "none"
    BY DEF Missing
  <2> QED
    BY <2>1 DEF Verified
<1> QED
  BY <1>1, <1>2, <1>3, <1>4, <1>5 DEF GateInv

LEMMA GateInvStep == GateInv /\ [Next]_vars => GateInv'
<1> SUFFICES ASSUME GateInv, [Next]_vars
             PROVE  GateInv'
  OBVIOUS
<1>1. CASE UNCHANGED vars
  <2>1. /\ UNCHANGED <<at, tree, collecting, building, process, evidence>>
    BY <1>1 DEF vars
  <2>2. Delta' = Delta /\ FirstPaths' = FirstPaths /\ Sure' = Sure
    BY <2>1, FreshDelta DEF tree, collecting, process, FirstPaths, Sure, TestsOk
  <2>3. \A reads : Fresh(reads)' = Fresh(reads)
    BY <2>1, FreshDelta DEF tree, collecting, Fresh, Done
  <2>4. Types'
    BY <2>1 DEF GateInv, Types, tree, collecting, building, process
  <2>5. Evidence' /\ OnBranch' /\ Reaped'
    BY <2>1 DEF GateInv, Evidence, OnBranch, Reaped, Untested, tree, collecting, process, evidence
  <2>6. Honest' /\ Verified'
    BY <2>1, <2>2, <2>3 DEF GateInv, Honest, Verified, tree, collecting, process, evidence
  <2> QED
    BY <2>4, <2>5, <2>6 DEF GateInv
<1>2. CASE PrepareGit \/ Attest
  BY <1>2, PreflightSteps
<1>3. CASE Verify \/ Read \/ Compare
  BY <1>3, VerifyStep, ReadStep, CompareStep
<1>4. CASE PreBuilder \/ BuilderReturns \/ ApplyPatch \/ RecordAttestation \/ BuilderEnds \/ PostBuilder
  BY <1>4, BuilderSteps
<1>5. CASE PreTests \/ TestsFinish \/ PostTests
  BY <1>5, PreTestsStep, TestsFinishStep, PostTestsStep
<1>6. CASE Fork \/ LeaderExits \/ Exited \/ TestTimeout
  BY <1>6, ProcessSteps
<1>7. CASE Persist \/ Construct \/ Commit("normal", "fallback") \/ Commit("fallback", "exit") \/ Exit
  BY <1>7, ReportSteps
<1>8. CASE Write
  BY <1>8, WriteStep
<1> QED
  BY <1>1, <1>2, <1>3, <1>4, <1>5, <1>6, <1>7, <1>8 DEF Next

LEMMA GateInvAlways == Spec => []GateInv
<1>1. Init => GateInv
  BY GateInvInit
<1>2. GateInv /\ [Next]_vars => GateInv'
  BY GateInvStep
<1> QED
  BY <1>1, <1>2, PTL DEF Spec

(* A run that exits with 0 has left the repository as it reported it, and  *)
(* nothing of the tests runs that stayed in their group, however many      *)
(* changes the builder and the tests made and whenever.                    *)
THEOREM PassedCorrect == Spec => []PassedIsVerified
<1>1. GateInv => PassedIsVerified
  <2> SUFFICES ASSUME GateInv, exit = 0, ~escaped
               PROVE  /\ snapshot = Delta /\ Delta \subseteq allowed
                      /\ identity = "attested" /\ manifest /\ branch = "task"
                      /\ leader = "reaped" /\ ~group /\ TestsOk
    BY DEF PassedIsVerified
  <2>1. verdict = "passed" /\ at = "done"
    BY DEF GateInv, Evidence
  <2>2. Sure /\ snapshot = Delta /\ Delta \subseteq allowed /\ identity = "attested" /\ manifest
    BY <2>1 DEF GateInv, Verified
  <2>3. TestsOk /\ leader = "reaped" /\ ~group
    BY <2>2 DEF GateInv, Reaped, Sure, TestsOk
  <2>4. branch = "task"
    BY <2>1 DEF GateInv, OnBranch
  <2> QED
    BY <2>2, <2>3, <2>4
<1> QED
  BY <1>1, GateInvAlways, PTL

(* The exit status and what telemetry is told name a report that is on     *)
(* disk with that outcome, whichever of the two commits failed half way.   *)
THEOREM ReceiptsCorrect == Spec => []ReceiptsTrue
<1>1. GateInv => ReceiptsTrue
  <2> SUFFICES ASSUME GateInv
               PROVE  ReceiptsTrue
    OBVIOUS
  <2>1. telemetry # {} =>
          /\ telemetry = {report} /\ report \in disk
          /\ \E path \in {"normal", "fallback"} :
               report = <<path, verdict>> /\ (verdict = "passed" => path = "normal" /\ persisted)
    BY DEF GateInv, Evidence
  <2>2. exit = 0 => verdict = "passed" /\ telemetry # {}
    BY DEF GateInv, Evidence
  <2> QED
    BY <2>1, <2>2 DEF ReceiptsTrue
<1> QED
  BY <1>1, GateInvAlways, PTL

-----------------------------------------------------------------------------
LEMMA SnapshotStep ==
  ASSUME GateInv, [Next]_vars, at = "collect", changes < 2,
         at' \in {AfterSnapshot[purpose] : purpose \in DOMAIN AfterSnapshot}
  PROVE  snapshot' \in {before, Delta}
<1>1. at' \in {"preTests", "preBuilder", "apply", "generated", "postBuilder", "postTests"}
  <2>1. DOMAIN AfterSnapshot = Purposes
    BY DEF AfterSnapshot, Purposes
  <2> QED
    BY <2>1, AfterSnapshotIs
<1>2. Compare
  <2>1. ~(Fork \/ LeaderExits \/ Exited \/ TestTimeout \/ Write \/ UNCHANGED vars)
    BY <1>1 DEF Fork, LeaderExits, Exited, TestTimeout, Write, vars
  <2>2. ~(Verify \/ Read)
    BY <1>1 DEF Verify, Read, CollectFails, Fail
  <2>3. ~(PrepareGit \/ Attest \/ PreBuilder \/ BuilderReturns \/ ApplyPatch \/ RecordAttestation \/ BuilderEnds \/ PostBuilder)
    BY DEF PrepareGit, Attest, PreBuilder, BuilderReturns, ApplyPatch, RecordAttestation, BuilderEnds, PostBuilder
  <2>4. ~(PreTests \/ TestsFinish \/ PostTests \/ Persist \/ Construct \/ Commit("normal", "fallback") \/ Commit("fallback", "exit") \/ Exit)
    BY DEF PreTests, TestsFinish, PostTests, Persist, Construct, Commit, Exit
  <2> QED
    BY <2>1, <2>2, <2>3, <2>4 DEF Next
<1>3. /\ collected.step = "compare" /\ snapshot' = PolicyPaths
      /\ capture["unstaged1"] = capture["unstaged2"] /\ capture["staged1"] = capture["staged2"]
      /\ capture["untracked1"] = capture["untracked2"]
  BY <1>1, <1>2 DEF Compare, CollectFails, Fail
<1>4. CASE Fresh(Second)
  BY <1>3, <1>4, SecondIsDelta DEF GateInv
<1>5. CASE FirstPaths = before
  BY <1>3, <1>5 DEF FirstPaths, PolicyPaths, Committed
<1>6. Fresh(Second) \/ FirstPaths = before
  <2>1. changes \in {0, 1}
    BY DEF GateInv, Types
  <2>2. Fresh(Captures) => Fresh(Second)
    BY DEF Fresh, Captures, Second
  <2> QED
    BY <2>1, <2>2 DEF GateInv, Honest
<1> QED
  BY <1>4, <1>5, <1>6

(* A snapshot is of a tree that was there, whatever one change it races:   *)
(* for any paths, wherever between two of its reads the change falls.      *)
THEOREM SnapshotCorrect == Spec => SnapshotIsReal
<1>1. GateInv /\ [Next]_vars
        => [at = "collect" /\ at' \in {AfterSnapshot[purpose] : purpose \in DOMAIN AfterSnapshot} /\ changes < 2
              => snapshot' \in {before, Delta}]_vars
  BY SnapshotStep
<1> QED
  BY <1>1, GateInvAlways, PTL DEF Spec, SnapshotIsReal
=============================================================================
