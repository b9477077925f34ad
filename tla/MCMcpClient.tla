---------------------------- MODULE MCMcpClient ----------------------------
(* An instance of McpClient for TLC: two ids are remembered at most, and *)
(* three requests after the handshake may time out.                      *)
EXTENDS McpClient
=============================================================================
