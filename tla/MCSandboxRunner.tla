-------------------------- MODULE MCSandboxRunner --------------------------
(* An instance of SandboxRunner for TLC: three calls for one run id, made *)
(* by two processes.  The longer pattern asks the operator for a command  *)
(* the shorter one would allow; a file and a directory may be written.    *)
EXTENDS SandboxRunner

CONSTANTS l1, l2, l3, p1, p2

MCAllowedPaths == <<"file", "directory">>
MCRecursive == {"directory"}
MCRules == [action \in {"process.exec", "fs.read", "fs.write", "network"} |->
  CASE action = "process.exec" ->
         BySubject({[score |-> 1, subjects |-> {"test"}, effect |-> "allow"],
                    [score |-> 2, subjects |-> {"test"}, effect |-> "ask"]}, "deny")
    [] action = "network" -> Flat("deny")
    [] OTHER -> Flat("allow")]

MCSymmetry == Permutations({l1, l2, l3}) \union Permutations({p1, p2})
=============================================================================
