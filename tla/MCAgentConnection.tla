-------------------------- MODULE MCAgentConnection --------------------------
(* An instance of AgentConnection small enough for TLC: one session with  *)
(* its run and a replica that restores it.  Its registry has one tool,    *)
(* whose name a provider does not take, or two of one name on the wire.   *)
(* An ask is for the one command with scope "run", or for once.           *)
EXTENDS AgentConnection

MCEncoded == [name \in {"fs.read"} |-> "harness_read"]
MCReserved == {"harness_read", "harness_other"}
MCWires == {"harness_read", "harness_other", "fs_read"}
MCToolsets == {{"fs.read"}, {"fs.read", "harness_read"}}
=============================================================================
