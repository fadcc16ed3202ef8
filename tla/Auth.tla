-------------------------------- MODULE Auth --------------------------------
(* claw-auth, and those who ask it whom a request comes from: the identity *)
(* proxy, the MCP server and the GUI.  The pages of the first change the   *)
(* users of the second, where an edit is any change of one row.            *)
EXTENDS Accounts

CONSTANTS Callers, Pats, Binds, Requests, MaxEdits, MaxRestarts, Nobody  \* of McpIdentity

VARIABLES row, pat, bind, cache, req, had, edits, restarts

Identity == INSTANCE McpIdentity WITH Names <- Callers, user <- row

ASSUME IdentityConstants == Identity!ConstantsOK
-----------------------------------------------------------------------------
(* The properties of Accounts, and those of McpIdentity as follows.        *)

\* McpIdentity: a token that lapsed before the request arrived runs nothing in
\* its owner's name (mcp_tokens.py, validate_bind_token).
LapsedTokensRefused == Identity!LapsedTokensRefused

\* McpIdentity: an admin's tool runs only for one who has been an admin since
\* the process started (change_actor.resolve_role, claw_user_lookup).
AdminHasBeenAdmin == Identity!AdminHasBeenAdmin

\* McpIdentity: a change is proposed by the owner of the credential
\* (server.propose_change).
ProposerIsOwner == Identity!ProposerIsOwner
=============================================================================
