-------------------------- MODULE MCPolicyRollout --------------------------
(* An instance of PolicyRollout: two groups and three lines.                *)
EXTENDS PolicyRollout

\* g1 allows less than g2, and comes first; l3 is in both and always blocked.
TwoGroups == [g \in {"g1", "g2"} |-> IF g = "g1" THEN {"l1", "l3"} ELSE {"l1", "l2", "l3"}]
InOrder == <<"g1", "g2">>
Doc(a, b) == [g \in {"g1", "g2"} |-> IF g = "g1" THEN a ELSE b]
TwoDocs == {Doc("allow", "deny"), Doc("deny", "approve")}
FromCode == Doc("allow", "deny")
Ask1(group, lines) == [group |-> group, lines |-> lines]
Asked == {Ask1("none", {"l1"}), Ask1("g1", {"l1"}), Ask1("g2", {"l1", "l3"})}
=============================================================================
