------------------------------- MODULE Portal -------------------------------
(* Pages of the admin GUI beside the change workflow, with the programs    *)
(* that read the same files: the policy, which this module extends; hosts  *)
(* and discovery; decisions from Webex; and the tools of the MCP server,   *)
(* which look hosts up in hosts.yaml.                                      *)
EXTENDS PolicyRollout

CONSTANTS
  Addrs, Keys, Importable, FirstKey, OtherKey, Lists,
  Pages, Workers, MaxRows, MaxPages, MaxRestarts,            \* of Console
  Changes, Users, Emails, Clicks, Rank, Cap, NoUser,
  MaxClicks, MaxLinks, MaxCrashes,                           \* of WebexApproval
  Names, Entries, Inventories, Nobody, Calls, Segments, CliWords, OneLine,
  FullConfig, SecretPaths, Outside, TooBig, HealthChecks,
  MaxCalls, MaxEdits                                         \* of HostTools

VARIABLES
  hosts, env, staging, job, page, server, imported, pages, restarts, overwritten, cut,
  status, proposer, room, used, linked, emails, click, clicks, links, crashes,
  decisions, spent, crossed, torn,
  inventory, secrets, keyed, rbac, saving, view, transfers, call, ran, calls, edits

Console == INSTANCE Console WITH
  Requests <- Pages, MaxOps <- MaxPages, MaxCrashes <- MaxRestarts,
  thr <- page, ops <- pages, crashes <- restarts, overlapped <- overwritten, damaged <- cut

Webex == INSTANCE WebexApproval WITH
  Threads <- Clicks, MaxRequests <- MaxClicks,
  cache <- emails, thr <- click, requests <- clicks, edits <- links,
  overlapped <- crossed, damaged <- torn

Tools == INSTANCE HostTools WITH
  hosts <- inventory, env <- secrets, server <- view
ASSUME ConsoleConstants == Console!ConstantsOK
ASSUME WebexConstants == Webex!CapOK
ASSUME ToolsConstants == Tools!ConstantsOK
-----------------------------------------------------------------------------
(* The properties of PolicyRollout, and those of the others as follows.    *)

\* The types of the four modules: no truncated file, no restart and no edit in
\* the middle of a request leaves a record that nothing expects.
TypesOK == TypeOK /\ Console!TypeOK /\ Webex!TypeOK /\ Tools!TypeOK

\* Console: an imported host can be logged in to (import_hosts).
ImportedHasLogin == Console!ImportedHasLogin

\* Console: no secret outlives its host (delete_host).
NoOrphanSecrets == Console!NoOrphanSecrets

\* Console: hosts that the server takes for current are those of the file
\* (_current_hosts).
ServerFresh == Console!ServerFresh

\* Console: an import takes over no entry and doubles none
\* (merge_selected_into_hosts).
ImportMerges == Console!ImportMerges

\* WebexApproval: a change is decided once (webex_approval.decide).
DecidedOnce == Webex!DecidedOnce

\* WebexApproval: a link whose use was marked decides nothing.
SpentLinksRefused == Webex!SpentLinksRefused

\* HostTools: a command reaches a host only if an entry of the host that
\* hosts.yaml held during the call permits it (server.py).
RunsAsConfigured == Tools!RunsAsConfigured
=============================================================================
