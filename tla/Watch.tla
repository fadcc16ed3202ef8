-------------------------------- MODULE Watch --------------------------------
(* The programs that run on their own: the Webex audit bridge, and the     *)
(* discovery that a job of the GUI or the command line starts.  They share *)
(* nothing.                                                                *)
EXTENDS AuditBridge

CONSTANTS Addrs, Facts, Networks, Seeds, MaxHops, MaxWorkers  \* of NeighborWalk

VARIABLES link, answers, method, seed, hops, pc, stack, visited, found, job

Walk == INSTANCE NeighborWalk

ASSUME WalkConstants == Walk!ConstantsOK
-----------------------------------------------------------------------------
(* The properties of AuditBridge, and those of NeighborWalk as follows.    *)

\* The types of both modules: no restart, no failed post and no network leaves
\* a list or a cursor that nothing expects (load_state, discover_via_cdp).
TypesOK == TypeOK /\ Walk!TypeOK

\* NeighborWalk: a discovery finds nothing out of reach, and when it is over
\* it has found what it should (discover_via_cdp, discover_via_ip_range).
Complete == Walk!Complete
=============================================================================
