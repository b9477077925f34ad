----------------------------- MODULE PolicyRules -----------------------------
(***************************************************************************)
(* The rules of a task manifest (packages/policy): what they decide about  *)
(* an action and its subject, and which changed paths are out of scope.    *)
(*                                                                         *)
(* A pattern is its length and the subjects it matches; how a glob matches *)
(* a string is left out.  The compiled rules (rules.ts) and decide         *)
(* (index.ts) decide alike; both are this definition.                      *)
(***************************************************************************)
EXTENDS Integers

NoSubject == "no subject"
NoFallback == "no fallback"

Absent == [kind |-> "absent"]
Flat(effect) == [kind |-> "flat", effect |-> effect]
BySubject(patterns, fallback) == [kind |-> "subjects", patterns |-> patterns, fallback |-> fallback]

Rank(effect) == CASE effect = "allow" -> 0 [] effect = "ask" -> 1 [] OTHER -> 2

\* the longer pattern, and deny before ask before allow
Better(p, q) == p.score > q.score \/ (p.score = q.score /\ Rank(p.effect) > Rank(q.effect))

Matching(rule, subject) == {p \in rule.patterns : subject \in p.subjects}
BestMatch(rule, subject) ==
  CHOOSE p \in Matching(rule, subject) : \A q \in Matching(rule, subject) : ~Better(q, p)

Decide(rule, subject) ==
  CASE rule.kind = "absent" -> "ask"
    [] rule.kind = "flat" -> rule.effect
    [] rule.kind = "subjects" /\ Matching(rule, subject) # {} -> BestMatch(rule, subject).effect
    [] rule.kind = "subjects" /\ Matching(rule, subject) = {} /\ rule.fallback # NoFallback -> rule.fallback
    [] OTHER -> IF subject = NoSubject THEN "ask" ELSE "deny"

(* checkChangedPaths *)
Violations(allowed, changed) == changed \ allowed
=============================================================================
