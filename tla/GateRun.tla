------------------------------- MODULE GateRun -------------------------------
(***************************************************************************)
(* One gate run of the CLI (apps/cli/src/run.ts, git.ts): the preflight,   *)
(* the snapshots of what the task changed, the builder, the test process   *)
(* and its group, and the report.                                          *)
(*                                                                         *)
(* The gate runs alone but for what it started: the builder, the test      *)
(* process, what that left in its group and what left the group.  Those    *)
(* change the repository between any two of its reads.  A path has one     *)
(* content or none in the base, in HEAD, in the index and in the working   *)
(* tree.  Ignored files outside the caches count as untracked, and cached  *)
(* and evidence files are compared with the preflight as tracked ones are. *)
(* HEAD, the branch, refs, hooks and configuration are one attested        *)
(* identity: its fingerprint has the reflog, so once changed it never      *)
(* comes back.  An index with flags that hide changes, unmerged or         *)
(* submodule entries, or a replacement object, is unsafe and may become    *)
(* safe again; what such objects do to the answers of git is left out.     *)
(* A signal sent to the group has killed it.  POSIX only.                  *)
(***************************************************************************)
EXTENDS Integers, FiniteSets

CONSTANTS Path,     \* paths a task may change
          MaxWrites \* bound: changes to the repository by the others

ASSUME GateAssumption == MaxWrites \in Nat

VARIABLES
  at,          \* the gate's stage
  branch,      \* what is checked out: "task", "main" or "other"; in CI a
               \* detached HEAD at the declared commit counts as the task's
  base, head, index, work, \* the merge base, HEAD, the index and the files
  identity,    \* "attested", "unsafe" or "changed" since the preflight
  manifest,    \* the manifest is the one that was validated
  allowed,     \* the paths inside its allowed_paths
  collected,   \* the purpose and progress of collectGitChangeSnapshot
  capture,     \* the capture under way, and the first one
  snapshot,    \* policyPaths of the last snapshot
  builder,     \* "none", "legacy" or "native"
  generated,   \* the tree a native builder attested
  builderFailure, \* verdict of a builder that failed, or "none"
  leader, group, escaped, \* the test process, its descendants in and out of its group
  tests,       \* what runTestProcess has seen
  verdict, persisted, disk, telemetry, report, exit, \* the outcome and its evidence
  writes, before, changes \* of the others; the delta when collecting began, changes since

process == <<leader, group, escaped, tests>>
tree == <<branch, base, head, index, work, identity, manifest, allowed>>
evidence == <<verdict, persisted, disk, telemetry, report, exit>>
building == <<builder, generated, builderFailure>>
collecting == <<collected, capture, snapshot, before, changes>>
vars == <<at, tree, collecting, building, process, evidence, writes>>

Content == {"absent", "present"}
Missing == "none"

Captures == {"unstaged1", "staged1", "untracked1", "unstaged2", "staged2", "untracked2"}
Nothing == [read \in Captures |-> {}]

\* what the task changed: wherever a path is not as it was in the base
DeltaOf(files) == {p \in Path : {head[p], index[p], files[p]} # {base[p]}}
Delta == DeltaOf(work)

-----------------------------------------------------------------------------
(* The preflight: the branch, then the manifest, then the fingerprints.    *)

Fail(status) == verdict' = status /\ at' = "persist"

\* prepareGitPreflight: CI only verifies; a local run switches from a main
\* branch, to an existing task branch only with nothing pending
Clean == index = head /\ work = index

(* assertVisibleIndex, assertNoReplaceRefs and assertNoSubmodules *)
Safe == identity # "unsafe"

(* fingerprintTree of the two metadata directories *)
Fingerprinted == identity # "changed"

\* the merge base of what came to be HEAD and a main branch may be any commit
ResolveMergeBase == base' \in [Path -> Content]

SwitchTo(tip) ==
  head' = tip /\ index' = tip /\ work' = tip

\* a branch that has to be switched to is, even if the base is found missing
OnTaskBranch ==
  \/ branch = "task" /\ UNCHANGED <<branch, head, index, work>>
  \/ branch = "main" /\ branch' = "task"
     /\ \/ UNCHANGED <<head, index, work>>            \* switch -c
        \/ Clean /\ \E tip \in [Path -> Content] : SwitchTo(tip)

PrepareGit ==
  /\ at = "git"
  /\ \/ Safe /\ OnTaskBranch /\ ResolveMergeBase /\ at' = "attest" /\ UNCHANGED verdict
     \/ Safe /\ OnTaskBranch /\ Fail("preflight") /\ UNCHANGED base
     \/ Fail("preflight") /\ UNCHANGED <<branch, base, head, index, work>>
  /\ UNCHANGED <<identity, manifest, allowed, persisted, disk, telemetry, report, exit>>
  /\ UNCHANGED <<collecting, building, process, writes>>

\* collectGitChangeSnapshot begins, over these files
CollectFrom(purpose, files) ==
  /\ at' = "collect" /\ collected' = [for |-> purpose, step |-> "verify1"]
  /\ before' = DeltaOf(files) /\ changes' = 0 /\ capture' = Nothing /\ UNCHANGED snapshot
Collect(purpose) == CollectFrom(purpose, work)

\* the manifest is read and digested, or refused; begins the first snapshot
Attest ==
  /\ at = "attest"
  /\ \/ Collect("initial") /\ UNCHANGED verdict
     \/ Fail("preflight") /\ UNCHANGED collecting
  /\ UNCHANGED <<tree, building, process, persisted, disk, telemetry, report, exit, writes>>

-----------------------------------------------------------------------------
(* collectGitChangeSnapshot *)

NextStep == [verify1 |-> "unstaged1", unstaged1 |-> "staged1", staged1 |-> "untracked1",
             untracked1 |-> "verify2", verify2 |-> "unstaged2", unstaged2 |-> "staged2",
             staged2 |-> "untracked2", untracked2 |-> "verify3", verify3 |-> "compare"]

Advance == collected' = [collected EXCEPT !.step = NextStep[@]]

CollectFails ==
  LET purpose == collected.for IN
    /\ IF purpose = "initial" THEN Fail("preflight")
       ELSE IF purpose \in {"beforeApply", "generated"} THEN at' = "builderEnds" /\ UNCHANGED verdict
       ELSE Fail("blocked")
    /\ builderFailure' = IF purpose \in {"beforeApply", "generated"} THEN "failed" ELSE builderFailure

\* what only serves the collection under way is forgotten with it
Forget == capture' = Nothing /\ before' = {} /\ changes' = 0

(* verifyGitInvariants *)
Verify ==
  /\ at = "collect" /\ collected.step \in {"verify1", "verify2", "verify3"}
  /\ IF Fingerprinted /\ Safe THEN Advance /\ UNCHANGED <<at, verdict, builderFailure, capture, before, changes>>
     ELSE CollectFails /\ Forget /\ UNCHANGED collected
  /\ UNCHANGED <<tree, snapshot, builder, generated, process>>
  /\ UNCHANGED <<persisted, disk, telemetry, report, exit, writes>>

(* the reads of a capture, each a command of git of its own; git itself may *)
(* fail                                                                     *)
Unstaged == {p \in Path : index[p] = "present" /\ work[p] = "absent"}
Staged == {p \in Path : head[p] # index[p]}
Untracked == {p \in Path : index[p] = "absent" /\ work[p] = "present"}

Reads(step) ==
  CASE step \in {"unstaged1", "unstaged2"} -> Unstaged
    [] step \in {"staged1", "staged2"} -> Staged
    [] OTHER -> Untracked

Read ==
  /\ at = "collect" /\ collected.step \in Captures
  /\ \/ capture' = [capture EXCEPT ![collected.step] = Reads(collected.step)] /\ Advance
        /\ UNCHANGED <<at, verdict, builderFailure, before, changes>>
     \/ CollectFails /\ Forget /\ UNCHANGED collected
  /\ UNCHANGED <<tree, snapshot, builder, generated, process>>
  /\ UNCHANGED <<persisted, disk, telemetry, report, exit, writes>>

PolicyPaths ==
  {p \in Path : base[p] # head[p]}
    \union capture.unstaged2 \union capture.staged2 \union capture.untracked2

AfterSnapshot == [initial |-> IF builder = "none" THEN "preTests" ELSE "preBuilder",
                  beforeApply |-> "apply", generated |-> "generated",
                  builder |-> "postBuilder", tests |-> "postTests"]

\* mutant: the second capture is taken, and not compared with the first
CompareNothing ==
  /\ at = "collect" /\ collected.step = "compare"
  /\ at' = AfterSnapshot[collected.for] /\ snapshot' = PolicyPaths /\ Forget
  /\ UNCHANGED <<tree, collected, building, process, evidence, writes>>

Compare ==
  /\ at = "collect" /\ collected.step = "compare"
  /\ IF /\ capture.unstaged1 = capture.unstaged2 /\ capture.staged1 = capture.staged2
        /\ capture.untracked1 = capture.untracked2
     THEN /\ at' = AfterSnapshot[collected.for] /\ snapshot' = PolicyPaths
          /\ UNCHANGED <<verdict, builderFailure>>
     ELSE CollectFails /\ UNCHANGED snapshot
  /\ Forget
  /\ UNCHANGED <<tree, collected, builder, generated, process>>
  /\ UNCHANGED <<persisted, disk, telemetry, report, exit, writes>>

-----------------------------------------------------------------------------
(* The builder.  A native one works on a copy, and the gate applies its    *)
(* patch to a host it found unchanged.                                     *)

InScope == snapshot \subseteq allowed

\* scope, timeout and the fs.read and fs.write decisions
PreBuilder ==
  /\ at = "preBuilder"
  /\ \/ InScope /\ at' = "building" /\ UNCHANGED verdict
     \/ Fail("blocked")
  /\ UNCHANGED <<tree, collecting, building, process, persisted, disk, telemetry, report, exit, writes>>

BuilderReturns ==
  /\ at = "building"
  /\ \/ builder = "native" /\ Collect("beforeApply") /\ UNCHANGED builderFailure
     \/ builder = "legacy" /\ at' = "builderEnds" /\ UNCHANGED <<collecting, builderFailure>>
     \/ at' = "builderEnds" /\ builderFailure' = "failed" /\ UNCHANGED collecting
  /\ UNCHANGED <<tree, builder, generated, process, evidence, writes>>

ApplyPatch ==
  /\ at = "apply"
  /\ \/ /\ manifest /\ \E patched \in [Path -> Content] : work' = patched /\ CollectFrom("generated", patched)
        /\ UNCHANGED builderFailure
     \/ at' = "builderEnds" /\ builderFailure' = "failed" /\ UNCHANGED <<work, collecting>>
  /\ UNCHANGED <<branch, base, head, index, identity, manifest, allowed, builder, generated, process, evidence, writes>>

RecordAttestation ==
  /\ at = "generated" /\ at' = "builderEnds"
  /\ \/ InScope /\ manifest /\ generated' = work /\ UNCHANGED builderFailure
     \/ builderFailure' = "failed" /\ UNCHANGED generated
  /\ UNCHANGED <<tree, collecting, builder, process, evidence, writes>>

\* usage and budget, then the snapshot of what the builder left
BuilderEnds ==
  /\ at = "builderEnds"
  /\ \/ UNCHANGED builderFailure
     \/ builderFailure = Missing /\ builderFailure' = "blocked"
  /\ Collect("builder")
  /\ UNCHANGED <<tree, builder, generated, process, evidence, writes>>

PostBuilder ==
  /\ at = "postBuilder"
  /\ IF ~manifest \/ (builderFailure # Missing /\ ~InScope) THEN Fail("blocked")
     ELSE IF builderFailure # Missing THEN Fail(builderFailure)
     ELSE at' = "preTests" /\ UNCHANGED verdict
  /\ UNCHANGED <<tree, collecting, building, process, persisted, disk, telemetry, report, exit, writes>>

-----------------------------------------------------------------------------
(* The tests: policy, then runTestProcess *)

Idle == [status |-> "unknown", error |-> FALSE, timedOut |-> FALSE, cleanup |-> "none", guarded |-> FALSE]

\* runTestProcess begins: a leader of a group of its own, or an error at once
StartTests ==
  \/ leader' = "running" /\ UNCHANGED tests
  \/ tests' = [tests EXCEPT !.error = TRUE, !.guarded = TRUE] /\ UNCHANGED leader

PreTests ==
  /\ at = "preTests"
  /\ \/ InScope /\ at' = "tests" /\ StartTests /\ UNCHANGED verdict
     \/ Fail("blocked") /\ UNCHANGED <<leader, tests>>
  /\ UNCHANGED <<tree, collecting, building, group, escaped, persisted, disk, telemetry, report, exit, writes>>

\* The test process and its group start others, in the group or out of it.
Fork ==
  /\ leader = "running" \/ group
  /\ group' \in {group, TRUE} /\ escaped' \in {escaped, TRUE}
  /\ UNCHANGED <<at, tree, collecting, building, leader, tests, evidence, writes>>

LeaderExits ==
  /\ leader = "running" /\ \E code \in {"zero", "nonzero"} : leader' = code
  /\ UNCHANGED <<at, tree, collecting, building, group, escaped, tests, evidence, writes>>

\* the exit event, which may come after the promise has settled
Noticed == IF at = "tests" THEN [tests EXCEPT !.status = leader, !.guarded = TRUE] ELSE tests

\* mutant: only a timeout signals the group
ExitSparesGroup ==
  /\ leader \in {"zero", "nonzero", "signaled"} /\ leader' = "reaped" /\ tests' = Noticed
  /\ UNCHANGED <<at, tree, collecting, building, group, escaped, evidence, writes>>

\* stopProcessTree: a group that is gone is no error, one that it may not
\* signal is
Exited ==
  /\ leader \in {"zero", "nonzero", "signaled"} /\ leader' = "reaped"
  /\ \/ group' = FALSE /\ tests' = Noticed
     \/ group /\ tests' = (IF at = "tests" THEN [Noticed EXCEPT !.cleanup = "failed"] ELSE tests) /\ UNCHANGED group
  /\ UNCHANGED <<at, tree, collecting, building, escaped, evidence, writes>>

TestTimeout ==
  /\ at = "tests" /\ ~tests.timedOut
  /\ \/ /\ group' = FALSE /\ leader' = (IF leader = "running" THEN "signaled" ELSE leader)
        /\ tests' = [tests EXCEPT !.timedOut = TRUE, !.guarded = TRUE]
     \/ /\ group \/ leader = "running"
        /\ tests' = [tests EXCEPT !.timedOut = TRUE, !.guarded = TRUE, !.cleanup = "failed"]
        /\ UNCHANGED <<group, leader>>
  /\ UNCHANGED <<at, tree, collecting, building, escaped, evidence, writes>>

\* the close event, once nobody holds the pipes, or the close guard
TestsFinish ==
  /\ at = "tests"
  /\ tests.guarded \/ (tests.status # "unknown" /\ ~group /\ ~escaped)
  /\ Collect("tests")
  /\ UNCHANGED <<tree, building, process, evidence, writes>>

TestsOk == tests.status = "zero" /\ ~tests.error /\ ~tests.timedOut

PostTests ==
  /\ at = "postTests"
  /\ Fail(CASE ~manifest \/ ~InScope \/ tests.cleanup = "failed" -> "blocked"
            [] ~TestsOk -> "failed"
            [] OTHER -> "passed")
  /\ UNCHANGED <<tree, collecting, building, process, persisted, disk, telemetry, report, exit, writes>>

-----------------------------------------------------------------------------
(* finishRun and finishPreflight *)

\* mutant: a session that could not be persisted is reported, not failed
PersistAnyway ==
  /\ at = "persist" /\ at' = "attestation"
  /\ persisted' \in BOOLEAN
  /\ UNCHANGED <<tree, collecting, building, process, verdict, disk, telemetry, report, exit, writes>>

Worse == IF verdict = "preflight" THEN verdict ELSE "failed"

Persist ==
  /\ at = "persist" /\ at' = "attestation"
  /\ persisted' \in BOOLEAN
  /\ verdict' = IF persisted' THEN verdict ELSE Worse
  /\ UNCHANGED <<tree, collecting, building, process, disk, telemetry, report, exit, writes>>

\* a native builder's tree is what it attested, and the report can be built
Construct ==
  /\ at = "attestation" /\ at' = "normal"
  /\ \/ verdict' = IF verdict = "passed" /\ builder = "native" /\ work # generated THEN "blocked" ELSE verdict
     \/ verdict' = Worse
  /\ UNCHANGED <<tree, collecting, building, process, persisted, disk, telemetry, report, exit, writes>>

(* writeJsonAtomically and commitReport: nothing is written, or the rename  *)
(* committed it, and it may still fail to be read back                      *)
Commit(path, next) ==
  /\ at = path
  /\ \/ /\ disk' = disk \union {<<path, verdict>>} /\ report' = <<path, verdict>> /\ at' = "exit"
        /\ UNCHANGED verdict
     \/ /\ disk' \in {disk, disk \union {<<path, verdict>>}}
        /\ verdict' = Worse /\ at' = next /\ UNCHANGED report
  /\ UNCHANGED <<tree, collecting, building, process, persisted, telemetry, exit, writes>>

Exit ==
  /\ at = "exit" /\ at' = "done"
  /\ telemetry' = IF report # Missing /\ verdict # "preflight" THEN {report} ELSE {}
  /\ exit' = IF verdict = "passed" /\ report # Missing THEN 0 ELSE 1
  /\ UNCHANGED <<tree, collecting, building, process, verdict, persisted, disk, report, writes>>

-----------------------------------------------------------------------------
(* The others: whatever runs changes a file, the index, the manifest or    *)
(* the identity of the repository, one at a time.                          *)

Running ==
  /\ leader = "running" \/ group \/ escaped \/ (at = "building" /\ builder = "legacy")
  /\ at \notin {"normal", "fallback", "exit", "done"} \* nothing reads the repository then,
  /\ at \in {"persist", "attestation"} => verdict = "passed" \* nor once the run has failed

Write ==
  /\ Running /\ writes < MaxWrites /\ writes' = writes + 1
  /\ changes' = IF at = "collect" /\ changes < 2 THEN changes + 1 ELSE changes
  /\ \/ /\ \E p \in Path, c \in Content : work[p] # c /\ work' = [work EXCEPT ![p] = c]
        /\ UNCHANGED <<index, manifest, identity>>
     \/ /\ \E p \in Path : index[p] # work[p] /\ index' = [index EXCEPT ![p] = work[p]]
        /\ UNCHANGED <<work, manifest, identity>>
     \/ /\ \E p \in Path : index[p] # head[p] /\ index' = [index EXCEPT ![p] = head[p]]
        /\ UNCHANGED <<work, manifest, identity>>
     \/ manifest' = ~manifest /\ UNCHANGED <<index, work, identity>>
     \/ /\ \/ Fingerprinted /\ identity' = (IF Safe THEN "unsafe" ELSE "attested")
           \/ identity' = "changed"
        /\ UNCHANGED <<index, work, manifest>>
  /\ UNCHANGED <<at, branch, base, head, allowed, collected, capture, snapshot, before, building, process, evidence>>

-----------------------------------------------------------------------------
Init ==
  /\ at = "git" /\ branch \in {"task", "main", "other"}
  /\ base = [p \in Path |-> "absent"] /\ head \in [Path -> Content] /\ index \in [Path -> Content] /\ work \in [Path -> Content]
  /\ identity \in {"attested", "unsafe"} /\ manifest = TRUE /\ allowed \in SUBSET Path
  /\ collected = [for |-> "initial", step |-> "verify1"]
  /\ capture = Nothing
  /\ snapshot = {} /\ before = {} /\ changes = 0 /\ writes = 0
  /\ builder \in {"none", "legacy", "native"} /\ generated = base /\ builderFailure = Missing
  /\ leader = "none" /\ group = FALSE /\ escaped = FALSE /\ tests = Idle
  /\ verdict = Missing /\ persisted = FALSE /\ disk = {} /\ telemetry = {} /\ report = Missing /\ exit = 2

Next ==
  \/ PrepareGit \/ Attest \/ Verify \/ Read \/ Compare
  \/ PreBuilder \/ BuilderReturns \/ ApplyPatch \/ RecordAttestation \/ BuilderEnds \/ PostBuilder
  \/ PreTests \/ Fork \/ LeaderExits \/ Exited \/ TestTimeout \/ TestsFinish \/ PostTests
  \/ Persist \/ Construct \/ Commit("normal", "fallback") \/ Commit("fallback", "exit") \/ Exit
  \/ Write

Spec == Init /\ [][Next]_vars

-----------------------------------------------------------------------------
(* A snapshot is of a tree that was there: although its reads are commands *)
(* of their own, one change anywhere between them leaves it the delta of   *)
(* before or of after, or fails it.                                        *)
SnapshotIsReal ==
  [][at = "collect" /\ at' \in {AfterSnapshot[purpose] : purpose \in DOMAIN AfterSnapshot} /\ changes < 2
       => snapshot' \in {before, Delta}]_vars

(* A run that exits with 0 has left the repository as its report says, on  *)
(* the task's branch, with every change in scope, the validated manifest   *)
(* and the attested identity; its tests succeeded and nothing of them runs *)
(* any more.  Nothing of this holds against a process that left the group. *)
PassedIsVerified ==
  exit = 0 /\ ~escaped =>
    /\ snapshot = Delta /\ Delta \subseteq allowed
    /\ identity = "attested" /\ manifest /\ branch = "task"
    /\ leader = "reaped" /\ ~group /\ TestsOk

(* The receipt: exit 0, and what telemetry is told, name a report that is  *)
(* on disk with that outcome, and a passed run has its session persisted.  *)
ReceiptsTrue ==
  /\ telemetry \subseteq disk /\ \A receipt \in telemetry : receipt[2] = verdict
  /\ exit = 0 => persisted /\ telemetry = {<<"normal", "passed">>}
=============================================================================
