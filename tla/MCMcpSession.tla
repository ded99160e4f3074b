----------------------------- MODULE MCMcpSession -----------------------------
(* A session of three calls, for TLC. *)
EXTENDS McpSession

MCIds == 1..3
=============================================================================
