---------------------------- MODULE NeighborWalk ----------------------------
(***************************************************************************)
(* network_discovery.py: what a discovery finds.  From a seed it follows   *)
(* CDP or LLDP neighbours depth first, every level with one hop less and   *)
(* all levels sharing the set of visited addresses; or it scans a range of *)
(* addresses with a pool of threads.  The devices do not change meanwhile. *)
(***************************************************************************)
EXTENDS Naturals, Sequences, FiniteSets

CONSTANTS Addrs,      \* management addresses
          Facts,      \* Facts[a]: what "show version" of a says
          Networks,   \* the networks: functions from Addrs to lists of Addrs
          Seeds,      \* where a walk may start
          MaxHops,    \* bound on max_hops
          MaxWorkers  \* threads of a scan

VARIABLES
  link,     \* link[a]: the neighbours of a in the order it lists them
  answers,  \* answers[a]: how a reacts to a login and to commands
  method, seed,
  hops,     \* max_hops
  pc,       \* "run", "done", "interrupted"
  stack,    \* the calls of discover_via_cdp that have not returned
  visited, found,
  job       \* job[a]: a in the pool of a scan

device == <<link, answers, method, seed, hops>>
vars == <<device, pc, stack, visited, found, job>>
-----------------------------------------------------------------------------
Reactions == {"refuses", "mute", "no neighbours command", "answers"}
Types == {"ios-xe", "ios", "access-point", "ise-appliance", "unknown"}

ConstantsOK ==
  /\ IsFiniteSet(Addrs) /\ Seeds \subseteq Addrs
  /\ Networks \subseteq [Addrs -> Seq(Addrs)]
  /\ \A a \in Addrs : Facts[a].banner \in Types
  /\ MaxHops \in Nat \ {0}

(* banner is what the version line says, model a class of model numbers,   *)
(* ap and ise whether the text names an AP image or an ISE, running whether*)
(* the YANG process runs.                                                  *)
IosType(f) ==
  CASE f.ise -> "ise-appliance"
    [] ~ f.ise /\ (f.ap \/ f.model = "ap") -> "access-point"
    [] ~ f.ise /\ ~ f.ap /\ f.model = "xe" -> "ios-xe"
    [] OTHER -> f.banner

Management(f) ==
  CASE IosType(f) = "access-point" -> "wlc_managed"
    [] IosType(f) = "ise-appliance" -> "ise_admin"
    [] IosType(f) = "ios-xe" -> IF f.running THEN "restconf" ELSE "restconf_capable"
    [] IosType(f) = "ios" -> "cli_ssh"
    [] OTHER -> "unknown"

Info(type, management) == [type |-> type, management |-> management]
Nothing == Info("none", "none")

(* get_device_info: a device that answers no command is listed all the     *)
(* same, without a type.                                                   *)
DeviceInfo(a) == IF answers[a] = "mute" THEN Info("unset", "unset")
                                        ELSE Info(IosType(Facts[a]), Management(Facts[a]))

Frame(a, left) == [at |-> a, left |-> left, rest |-> link[a]]

(* A call for address a with left hops: the callers' frames are below.     *)
Visit(a, left, below) ==
  IF a \in visited \/ left = 0
    THEN /\ stack' = below
         /\ UNCHANGED <<visited, found>>
    ELSE /\ visited' = visited \cup {a}
         /\ found' = IF answers[a] = "refuses" THEN found ELSE [found EXCEPT ![a] = DeviceInfo(a)]
         /\ stack' = IF answers[a] = "answers" THEN below \o <<Frame(a, left)>> ELSE below
-----------------------------------------------------------------------------
Init ==
  /\ link \in Networks
  /\ answers \in [Addrs -> Reactions]
  /\ method \in {"neighbours", "range"}
  /\ seed \in Seeds
  /\ hops \in IF method = "range" THEN {1} ELSE 1 .. MaxHops
  /\ pc = "start"
  /\ stack = <<>> /\ visited = {}
  /\ found = [a \in Addrs |-> Nothing]
  /\ job = [a \in Addrs |-> "none"]

StartWalk ==
  /\ pc = "start" /\ method = "neighbours"
  /\ pc' = "run"
  /\ Visit(seed, hops, <<>>)
  /\ UNCHANGED <<device, job>>

Top == stack[Len(stack)]
Below == SubSeq(stack, 1, Len(stack) - 1)

\* A slip: the rest of the list is lost with a device that cannot be reached.
FollowDropping ==
  /\ pc = "run" /\ stack # <<>> /\ Top.rest # <<>>
  /\ Visit(Head(Top.rest), Top.left - 1,
           Below \o <<[Top EXCEPT !.rest = IF answers[Head(@)] = "refuses" THEN <<>> ELSE Tail(@)]>>)
  /\ UNCHANGED <<device, pc, job>>

\* A slip: the neighbour stays at the head of the list.
FollowAgain ==
  /\ pc = "run" /\ stack # <<>> /\ Top.rest # <<>>
  /\ Visit(Head(Top.rest), Top.left - 1, stack)
  /\ UNCHANGED <<device, pc, job>>

(* The next neighbour of the innermost call.                               *)
Follow ==
  /\ pc = "run" /\ stack # <<>> /\ Top.rest # <<>>
  /\ Visit(Head(Top.rest), Top.left - 1, Below \o <<[Top EXCEPT !.rest = Tail(@)]>>)
  /\ UNCHANGED <<device, pc, job>>

Return ==
  /\ pc = "run" /\ stack # <<>> /\ Top.rest = <<>>
  /\ stack' = Below
  /\ UNCHANGED <<device, pc, visited, found, job>>

(* A range scan submits every address at once; the pool takes MaxWorkers.  *)
StartScan ==
  /\ pc = "start" /\ method = "range"
  /\ pc' = "run"
  /\ job' = [a \in Addrs |-> "queued"]
  /\ UNCHANGED <<device, stack, visited, found>>

Scan(a) ==
  /\ job[a] = "queued"
  /\ Cardinality({b \in Addrs : job[b] = "scanning"}) < MaxWorkers
  /\ IF a \in visited
       THEN job' = [job EXCEPT ![a] = "done"] /\ UNCHANGED visited
       ELSE /\ job' = [job EXCEPT ![a] = IF answers[a] = "refuses" THEN "done" ELSE "scanning"]
            /\ visited' = visited \cup {a}
  /\ UNCHANGED <<device, pc, stack, found>>

Scanned(a) ==
  /\ job[a] = "scanning"
  /\ found' = [found EXCEPT ![a] = DeviceInfo(a)]
  /\ job' = [job EXCEPT ![a] = "done"]
  /\ UNCHANGED <<device, pc, stack, visited>>

(* The list is returned to the GUI or exported.  --enable-restconf comes   *)
(* first and does nothing: enable_restconf_on_device is None.              *)
Export ==
  /\ pc = "run" /\ stack = <<>>
  /\ \A a \in Addrs : job[a] \in {"none", "done"}
  /\ pc' = "done"
  /\ UNCHANGED <<device, stack, visited, found, job>>

(* Ctrl-C on the command line: what was found so far is exported.  A scan  *)
(* finishes its pool first.                                                *)
Interrupt ==
  /\ pc = "run" /\ method = "neighbours"
  /\ pc' = "interrupted"
  /\ stack' = <<>>
  /\ UNCHANGED <<device, visited, found, job>>

Advance ==
  \/ StartWalk \/ Follow \/ Return
  \/ StartScan \/ \E a \in Addrs : Scan(a) \/ Scanned(a)
  \/ Export

Next == Advance \/ Interrupt

Spec == Init /\ [][Next]_vars

(* The program runs on, and every login has a timeout.                     *)
FairSpec == Spec /\ WF_vars(Advance)
-----------------------------------------------------------------------------
TypeOK ==
  /\ link \in [Addrs -> Seq(Addrs)]
  /\ answers \in [Addrs -> Reactions]
  /\ method \in {"neighbours", "range"} /\ seed \in Seeds /\ hops \in 1 .. MaxHops
  /\ pc \in {"start", "run", "done", "interrupted"}
  /\ stack \in Seq([at : Addrs, left : 1 .. MaxHops, rest : Seq(Addrs)])
  /\ visited \subseteq Addrs
  /\ \A a \in Addrs : found[a].type \in Types \cup {"none", "unset"}
  /\ job \in [Addrs -> {"none", "queued", "scanning", "done"}]

Found == {a \in Addrs : found[a] # Nothing}
Neighbours(A) == UNION {{link[a][i] : i \in DOMAIN link[a]} : a \in {b \in A : answers[b] = "answers"}}

\* Within[n]: the addresses a walk could log in to in n levels.
Within[n \in 0 .. Cardinality(Addrs)] ==
  IF n = 0 THEN {seed} ELSE Within[n - 1] \cup Neighbours(Within[n - 1])
Least(m, n) == IF m < n THEN m ELSE n
Reach(n) == Within[Least(n, Cardinality(Addrs))]

(* Only devices within the hops asked for are found, along a path of       *)
(* devices that answer, and only devices that accept the login.            *)
FoundInReach ==
  /\ \A a \in Found : answers[a] # "refuses"
  /\ method = "neighbours" => Found \subseteq Reach(hops - 1)

NeighboursFound ==
  method = "neighbours" /\ hops >= 2 => \A a \in Reach(1) : answers[a] # "refuses" => a \in Found
AllFound ==
  method = "range" \/ hops >= Cardinality(Addrs)
    => \A a \in IF method = "range" THEN Addrs ELSE Reach(hops) :
         answers[a] # "refuses" => a \in Found

(* A discovery finds nothing out of reach, and when it is over it has      *)
(* found the seed's neighbours, whichever of them refuse, fall silent or   *)
(* fail in the middle, and with hops to spare everything that can be       *)
(* reached; a scan has found every address that accepts the login.         *)
Complete == FoundInReach /\ (pc = "done" => NeighboursFound /\ AllFound)

(* A discovery ends, whatever loops the network has.                       *)
Ends == <>(pc \in {"done", "interrupted"})
=============================================================================
