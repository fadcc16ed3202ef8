---------------------------- MODULE MCIosTarget ----------------------------
(* Instances of IosTarget: users bob and bobby, whose name begins with     *)
(* bob's; an interface; two configuration lines; and the hostname, which   *)
(* every configuration has.                                                *)
EXTENDS IosTarget, TLC

CONSTANTS c1, c2

MCItems == {"hostname", "bob", "bobby", "eth1 down", "vlan 10", "helper"}

Seen(x, key) == Structured({x}, key, {x})

Users      == {UserTarget(a, "bob", {"bobby"}) : a \in {"create", "delete"}}
Interfaces == {InterfaceTarget(s, "eth1 down") : s \in {"shutdown", "no_shutdown"}}
\* A vlan, with the rollback and the verify entries a careful proposer writes;
\* a helper replaced by a vlan; and a line nobody thought about.
Vlan    == LinesTarget(<<Add("vlan 10"), Add("helper")>>,
                       <<Del("helper"), Del("vlan 10")>>,
                       <<Seen("vlan 10", "contains"), Plain({"helper"})>>,
                       "config_present")
Replace == LinesTarget(<<Del("helper"), Add("vlan 10")>>,
                       <<Del("vlan 10"), Add("helper")>>,
                       <<Seen("helper", "empty"), Seen("helper", "not_contains"),
                         Seen("vlan 10", "regex")>>,
                       "config_absent")
Careless == LinesTarget(<<Add("helper")>>, <<Del("helper")>>, <<>>, "config_present")

AnyOne == c1 :> Users \union Interfaces \union {Vlan, Replace, Careless}
Disjoint == c1 :> {UserTarget("create", "bob", {"bobby"}),
                   InterfaceTarget("no_shutdown", "eth1 down")}
         @@ c2 :> {Vlan, Replace}
Simple    == c1 :> {UserTarget("create", "bob", {})} \union Interfaces

Fresh   == {{"hostname"}}
Used    == Fresh \union {{"hostname", "eth1 down", "helper"}}
Various == {{"hostname"} \union s : s \in {{}, {"bob"}, {"bobby"}, {"eth1 down", "helper"},
                                           {"bob", "vlan 10"}}}
=============================================================================
