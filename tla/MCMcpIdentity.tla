--------------------------- MODULE MCMcpIdentity ---------------------------
(* An instance of McpIdentity: one user, one token, one request.           *)
EXTENDS McpIdentity
=============================================================================
