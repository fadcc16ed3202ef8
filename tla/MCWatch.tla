------------------------------ MODULE MCWatch ------------------------------
(* The programs that run on their own: the audit bridge, a discovery, and  *)
(* the GUI's job that runs one.  They share nothing, so a behaviour is one *)
(* of one part, and the others rest in an initial state.  The bridge comes *)
(* with three rows of any kind ("bridge"), or with four of one kind, as    *)
(* many as it takes for a backfill to reach past the ids the state file    *)
(* keeps ("backfill").                                                     *)
EXTENDS Watch, MCAuditBridge

VARIABLES
  part,
  hosts, env, staging, console_job, thr, server, imported, ops, crashes, overlapped, damaged
-----------------------------------------------------------------------------
(* One endpoint that wants everything from HIGH, three kinds of events.    *)
OneHook == <<"w1">>

(* Four devices of different kinds; a ring whose devices list both         *)
(* neighbours, in both orders, a line, a diamond.                          *)
Four == {"a1", "a2", "a3", "a4"}
Fact(banner, model, ise, running) ==
  [banner |-> banner, model |-> model, ap |-> FALSE, ise |-> ise, running |-> running]
Kinds == [a \in Four |->
  CASE a = "a1" -> Fact("ios-xe", "other", FALSE, TRUE)
    [] a = "a2" -> Fact("ios", "xe", FALSE, FALSE)
    [] a = "a3" -> Fact("ios", "ap", FALSE, FALSE)
    [] OTHER -> Fact("ios", "other", TRUE, FALSE)]
Around(a) == CASE a = "a1" -> "a2" [] a = "a2" -> "a3" [] a = "a3" -> "a4" [] a = "a4" -> "a1"
Back(a) == CHOOSE b \in Four : Around(b) = a
Shapes == {[a \in Four |-> <<Around(a), Back(a)>>], [a \in Four |-> <<Back(a), Around(a)>>],
           [a \in Four |-> IF a = "a4" THEN <<>> ELSE <<Around(a)>>],
           [a \in Four |-> CASE a = "a1" -> <<"a2", "a3">> [] a = "a4" -> <<>>
                             [] OTHER -> <<"a4", "a1">>]}

(* One device, which may be found, and the pages that show the job.        *)
OneName == [a \in {"a1"} |-> "sw"]

Console == INSTANCE Console WITH
  Addrs <- {"a1"}, Keys <- {"sw"}, Importable <- {"a1"}, FirstKey <- OneName, OtherKey <- OneName,
  Lists <- {<<"a1">>}, Requests <- {"t1"}, Workers <- {"w1"},
  MaxRows <- 1, MaxOps <- 2, MaxCrashes <- 1, job <- console_job
-----------------------------------------------------------------------------
walks == <<link, answers, method, seed, hops, pc, stack, visited, found, job>>
consoles == <<hosts, env, staging, console_job, thr, server, imported, ops, crashes, overlapped,
              damaged>>
watched == <<part, vars, walks, consoles>>

MCInit ==
  /\ part \in {"bridge", "backfill", "walk", "console"}
  /\ Init /\ (part # "bridge" => rows = <<>>)
  /\ Walk!Init /\ (part # "walk" => /\ link = CHOOSE net \in Shapes : TRUE
                                    /\ answers = [a \in Four |-> "answers"]
                                    /\ method = "range")
  /\ Console!Init /\ (part # "console" => hosts = Console!NoHosts /\ staging = <<>>)

BridgeOnly == UNCHANGED <<part, walks, consoles>>
WalkOnly == UNCHANGED <<part, vars, consoles>>
ConsoleOnly == UNCHANGED <<part, vars, walks>>

MCNext ==
  \/ part = "bridge" /\ Next /\ Len(rows') <= 3 /\ BridgeOnly
  \/ /\ part = "backfill" /\ Next /\ BridgeOnly
     /\ \A i \in DOMAIN rows' : rows'[i].key = "k1"
  \/ part = "walk" /\ Walk!Next /\ WalkOnly
  \/ part = "console" /\ Console!Next /\ server'.at = "idle" /\ ConsoleOnly

(* The fairness of each part, as its FairSpec has it.                      *)
Fairness ==
  /\ WF_watched(part \in {"bridge", "backfill"} /\ Start /\ BridgeOnly)
  /\ WF_watched(part \in {"bridge", "backfill"} /\ Loop /\ BridgeOnly)
  /\ WF_watched(part = "walk" /\ Walk!Advance /\ WalkOnly)
  /\ \A t \in {"t1", "w1"} : WF_watched(part = "console" /\ Console!Step(t) /\ ConsoleOnly)

MCSpec == MCInit /\ [][MCNext]_watched /\ Fairness
-----------------------------------------------------------------------------
(* The safety properties are those of Watch.                               *)

\* NeighborWalk
Ends == part = "walk" => Walk!Ends

\* Console
JobEnds == Console!JobEnds
=============================================================================
