----------------------------- MODULE SandboxPlan -----------------------------
(***************************************************************************)
(* What a sandbox plan is made from (services/sandbox-runner plan.ts and   *)
(* mounts.ts): the manifest's rules and allowed paths, and the workspace   *)
(* as it is found, which others may change at any time.                    *)
(*                                                                         *)
(* The workspace root and every allowed path have a kind and a             *)
(* fingerprint.  An allowed path's is of all that is in it; the root's is  *)
(* of the directory itself, its own entry, and what is in the root besides *)
(* the allowed paths is looked at by nobody and not modelled.  "other" is  *)
(* whatever may not be mounted: nothing at all, a link or a file with      *)
(* several names, a socket or device, storage of another file system, or a *)
(* tree that contains one of them.  A link on the way to the root that is  *)
(* redirected is refused at any time and left out.                         *)
(***************************************************************************)
EXTENDS PolicyRules, Sequences

CONSTANTS AllowedPaths, \* manifest.allowed_paths, in the order of their mounts
          Recursive,    \* those of them that end in /** or /
          Rules,        \* manifest.permissions
          Command,      \* the policy subject of argv
          MaxChanges    \* bound: changes to the workspace

Root == "workspace root"
Allowed == {AllowedPaths[i] : i \in DOMAIN AllowedPaths}

ASSUME PlanAssumption ==
  /\ AllowedPaths \in Seq(Allowed)
  /\ Recursive \subseteq Allowed /\ Root \notin Allowed /\ MaxChanges \in Nat
  /\ {"process.exec", "fs.read", "fs.write", "network"} = DOMAIN Rules

VARIABLE tree  \* of the root's own entry and the tree at each allowed path, the
               \* kind and fingerprint

-----------------------------------------------------------------------------
\* the outcomes of enforce: the rule's effect, or the operator's answer
Enforced(effect) == IF effect = "ask" THEN {"allow", "deny"} ELSE {effect}

\* the decisions of a plan, in their order, and what is decided about
Decisions ==
  <<"process.exec", "fs.read">> \o AllowedPaths \o <<"network">>
Effects(decision) ==
  Enforced(CASE decision = "process.exec" -> Decide(Rules["process.exec"], Command)
             [] decision \in {"fs.read", "network"} -> Decide(Rules[decision], NoSubject)
             [] OTHER -> Decide(Rules["fs.write"], decision))

\* rules by subject that Docker cannot express, for all of the workspace or for
\* the network, are not even decided about
Expressible(decision) ==
  decision \in {"fs.read", "network"} => Rules[decision].kind # "subjects"

\* nor can it express rules by subject for what is in a directory, or writing
\* without reading
Representable(decided) ==
  /\ "process.exec" \in DOMAIN decided => decided["process.exec"] = "allow"
  /\ \A path \in Allowed \cap DOMAIN decided : decided[path] = "allow" =>
       /\ decided["fs.read"] = "allow"
       /\ path \in Recursive => Rules["fs.write"].kind # "subjects"

-----------------------------------------------------------------------------
(* decodePattern, candidateFor: a file by its name, a directory by a       *)
(* pattern for all that is in it                                           *)
Kind(path) == IF path \in Recursive THEN "directory" ELSE "file"
Mountable(path) == tree[path].kind = Kind(path)

\* canonicalWorkspaceRoot and workspaceOwner
RootUsable == tree[Root].kind = "directory"

\* planWritableMounts: an unsafe path among them, and there is no plan
Plannable == RootUsable /\ \A path \in Allowed : Mountable(path)
Mounts == [path \in Allowed |-> tree[path]]

\* buildDockerArgs and bindMount: the paths of the host the container sees.  The
\* root is there if it may be read, and the writable mounts are on top of it.
Bound(decided, root, mounts) ==
  LET seen == IF decided["fs.read"] = "allow"
              THEN {Root} \union {path \in Allowed : decided[path] = "allow"} ELSE {}
  IN  [path \in seen |-> IF path = Root THEN root ELSE mounts[path]]

\* revalidateSandboxPlan: the root is the one the plan was completed with, and
\* the allowed paths are those it began with
Revalidated(root, mounts) == Plannable /\ tree[Root] = root /\ Mounts = mounts

-----------------------------------------------------------------------------
TreeInit == tree = [path \in Allowed \union {Root} |->
                      [kind |-> IF path = Root THEN "directory" ELSE Kind(path), fingerprint |-> 0]]

\* Somebody exchanges the root's directory or changes its own entry, or changes
\* an allowed path or what is in it, into something else of its kind or into
\* something that may not be mounted.
Disturb ==
  \E path \in DOMAIN tree : \E kind \in {tree[path].kind, "other"} :
    /\ \A other \in DOMAIN tree : tree[other].fingerprint < MaxChanges
    /\ tree' = [tree EXCEPT ![path] = [kind |-> kind, fingerprint |-> @.fingerprint + 1]]
=============================================================================
