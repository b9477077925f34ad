----------------------------- MODULE FencedWork -----------------------------
(***************************************************************************)
(* What the control plane promises about scheduled work, with no clock, no *)
(* versions, no queue order and no outbox: every grant of a piece of work  *)
(* opens a new epoch, only the work of the current epoch may begin or      *)
(* report, work that began and fell silent becomes unknown and returns     *)
(* only by an explicit retry, and an outcome is reported at most once.     *)
(* The pieces of work are independent, and one call may move several.      *)
(***************************************************************************)
EXTENDS Naturals

CONSTANTS Work,      \* the pieces of work
          Outcome,   \* what work that began may report
          None       \* no outcome yet

VARIABLES phase, epoch, outcome

vars == <<phase, epoch, outcome>>

Phase == {"none", "waiting", "held", "working", "unknown", "done"}

Init ==
  /\ phase = [x \in Work |-> "none"]
  /\ epoch = [x \in Work |-> 0]
  /\ outcome = [x \in Work |-> None]

Moves(x, from, to) == phase[x] \in from /\ phase'[x] = to

\* Granting also takes work back from a holder that lost it: same call.
Grant(x) ==
  /\ Moves(x, {"waiting", "held"}, "held")
  /\ epoch'[x] = epoch[x] + 1
  /\ outcome'[x] = outcome[x]

\* Every other step stays in the epoch.
Admit(x) == Moves(x, {"none"}, "waiting") /\ outcome'[x] = outcome[x]
Release(x) == Moves(x, {"held"}, "waiting") /\ outcome'[x] = outcome[x]
Begin(x) == Moves(x, {"held"}, "working") /\ outcome'[x] = outcome[x]
FallSilent(x) == Moves(x, {"working"}, "unknown") /\ outcome'[x] = outcome[x]
Retry(x) == Moves(x, {"unknown"}, "waiting") /\ outcome'[x] = outcome[x]
Report(x) == Moves(x, {"working"}, "done") /\ outcome'[x] \in Outcome
Abandon(x) ==
  Moves(x, {"waiting", "held", "working", "unknown"}, "done") /\ outcome'[x] = None

SameEpoch(x) ==
  /\ epoch'[x] = epoch[x]
  /\ \/ Admit(x) \/ Release(x) \/ Begin(x) \/ FallSilent(x)
     \/ Retry(x) \/ Report(x) \/ Abandon(x)

Stays(x) ==
  phase'[x] = phase[x] /\ epoch'[x] = epoch[x] /\ outcome'[x] = outcome[x]

Shape ==
  /\ phase' \in [Work -> Phase]
  /\ epoch' \in [Work -> Nat]
  /\ outcome' \in [Work -> Outcome \cup {None}]

Next == Shape /\ \A x \in Work : Grant(x) \/ SameEpoch(x) \/ Stays(x)

Spec == Init /\ [][Next]_vars
=============================================================================
