--------------------------- MODULE MCDhcpSidecar ---------------------------
(* Instances of DhcpSidecar.  A lease pool ("pool") needs the class that    *)
(* "class" declares; two files that both declare it clash.                  *)
EXTENDS DhcpSidecar, TLC

CONSTANTS c1, c2, vlan, base, pool, class, plain

MCValid(f) ==
  LET with(x) == {n \in DOMAIN f : f[n] = x} IN
  /\ Cardinality(with(class)) < 2
  /\ with(pool) # {} => with(class) # {}

TwoNames == c1 :> [name |-> vlan, content |-> pool] @@ c2 :> [name |-> base, content |-> class]

Trees2 == {f \in Tree : MCValid(f)}
\* Nothing there yet, or a class and a pool that needs it.
Both   == {f \in Trees2 : \A n \in Names : f[n] = Absent}
          \union {f \in Trees2 : f[base] = class /\ f[vlan] = pool}
=============================================================================
