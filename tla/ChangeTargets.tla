--------------------------- MODULE ChangeTargets ---------------------------
(* What a change is applied to: a device that runs IOS, or the DHCP server *)
(* behind its sidecar.  The two share nothing but the store of changes.    *)
EXTENDS IosTarget

CONSTANTS
  Names, Contents, Absent, Empty, Target, Threads, NoThread, Trees, Valid(_),
  MaxTimeouts, MaxReboots, MaxEdits                          \* of DhcpSidecar

VARIABLES
  files, manifest, backup, meta, service, thread,
  call, step, dhcpStatus, timeouts, reboots, edits, was,
  met  \* history: two requests have been in the sidecar at once

Dhcp == INSTANCE DhcpSidecar WITH
  MaxFaults <- MaxTimeouts, status <- dhcpStatus, faults <- timeouts, pre <- was

ASSUME SidecarConstants == Dhcp!ConstantsOK

sidecar == <<files, manifest, backup, meta, service, thread, call, step, dhcpStatus,
             timeouts, reboots, edits, was, met>>

SidecarInit == Dhcp!Init /\ met = FALSE
SidecarNext == Dhcp!Next /\ met' = (met \/ ~Dhcp!Serial')
Sidecar == SidecarInit /\ [][SidecarNext]_sidecar
-----------------------------------------------------------------------------
(* The properties of IosTarget, and those of DhcpSidecar as follows.        *)

\* The types of both modules: no exception or answer leaves a record in a
\* state that nothing expects (change_engine.apply_change, dhcp_ops).
TypesOK == TypeOK /\ Dhcp!TypeOK

\* DhcpSidecar: the manifest names the files that are there, as long as
\* requests do not overlap (regenerate_includes_manifest).
ManifestExact == ~met => Dhcp!ManifestExact

\* DhcpSidecar: what would undo a written include is there, also when requests
\* overlap, as long as nobody else writes the include (dhcp_ops.apply_change).
UndoIsExact == edits = 0 => Dhcp!UndoIsExact

\* DhcpSidecar: applied and rolled back changes stay so, as long as requests
\* do not overlap (change_engine, dhcp_ops.rollback_change).  If a
\* reboot cuts the manifest off, dhcpd reads no include until it is written.
OutcomeStays == ~met => Dhcp!OutcomeStays
=============================================================================
