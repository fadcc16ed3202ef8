----------------------------- MODULE MCTargets -----------------------------
(* The targets of a change, one at a time: a single IOS change of any kind  *)
(* ("one"), two IOS changes to different items of one device ("two"), a     *)
(* single DHCP change ("lone"), two of them with one request at a time in   *)
(* the sidecar ("serial"), and with two ("pair").  What is not looked at    *)
(* stays as it is at the start.                                             *)
EXTENDS ChangeTargets, MCIosTarget, FiniteSets

CONSTANTS vlan, common, pool, class, plain, t1, t2

VARIABLE part  \* the part looked at

\* A lease pool needs the class that "class" declares; two files that both
\* declare it clash.
MCValid(f) ==
  LET with(x) == {n \in DOMAIN f : f[n] = x} IN
  /\ Cardinality(with(class)) < 2
  /\ with(pool) # {} => with(class) # {}

ValidTrees == {f \in [Names -> Contents \union {Absent}] : MCValid(f)}

PoolAndClass == c1 :> [name |-> vlan, content |-> pool] @@
                c2 :> [name |-> common, content |-> class]

AnyTwo == c1 :> AnyOne[c1] \union Disjoint[c1] @@ c2 :> Disjoint[c2]

Ios == part \in {"one", "two"}
-----------------------------------------------------------------------------
\* A single change may be of any kind and find any configuration.
IosInit ==
  /\ Init
  /\ CASE part = "one" -> plan[c1] \in AnyOne[c1] /\ plan[c2] = Vlan
       [] part = "two" -> plan[c1] \in Disjoint[c1] /\ running \in Used
       [] OTHER        -> plan = (c1 :> Careless @@ c2 :> Vlan) /\ running \in Fresh

\* Serially the server has no include yet, or a class and a pool that needs it;
\* for the pair it has none, or the one that c1 is about, with something else.
DhcpInit ==
  /\ SidecarInit
  /\ CASE part \in {"lone", "serial"} ->
         <<files[vlan], files[common]>> \in {<<Absent, Absent>>, <<pool, class>>}
       [] part = "pair" ->
         files[vlan] \in {Absent, plain} /\ files[common] = Absent
       [] OTHER -> files[vlan] = Absent /\ files[common] = Absent

MCInit ==
  /\ part \in {"one", "two", "lone", "serial", "pair"}
  /\ IosInit /\ DhcpInit

IosStep ==
  /\ part = "one" => ~Started(c2)'
  /\ part = "two" => faults' < 2 /\ reloads' = 0

SidecarStep ==
  /\ part = "lone" => dhcpStatus'[c2] = "approved"
  /\ part \in {"lone", "serial"} => thread'[t2].pc = "idle"
  /\ part = "serial" => timeouts' < 2
  /\ part = "pair" => timeouts' < 2 /\ edits' = 0

MCNext ==
  /\ UNCHANGED part
  /\ \/ Ios /\ Next /\ IosStep /\ UNCHANGED sidecar
     \/ ~Ios /\ SidecarNext /\ SidecarStep /\ UNCHANGED vars

\* Work goes on by itself, as in FairSpec of the two modules.
MCSpec ==
  /\ MCInit /\ [][MCNext]_<<vars, sidecar, part>>
  /\ WF_vars(part = "one" /\ Work(c1) /\ UNCHANGED <<sidecar, part>>)
  /\ WF_sidecar(part = "lone" /\ Dhcp!Serve(t1) /\ SidecarStep /\ UNCHANGED <<vars, met, part>>)
  /\ \A c \in Changes :
       SF_sidecar(part = "lone" /\ Dhcp!Engine(c) /\ SidecarStep /\ UNCHANGED <<vars, met, part>>)
-----------------------------------------------------------------------------
\* Every apply, to a device or to the sidecar, reaches its final set_status
\* (apply_change).
AppliesEnd ==
  /\ part = "one" => ApplyEnds
  /\ part = "lone" => Dhcp!ApplyEnds
=============================================================================
