---------------------------- MODULE PortalProofs ----------------------------
(***************************************************************************)
(* Proofs about the programs that Portal brings together, for any number   *)
(* of requests, groups, hosts, users and calls, and any interleaving.      *)
(*                                                                         *)
(* The policy (PolicyRollout):                                             *)
(*   TypeCorrect      every variable keeps its type;                       *)
(*   DeniesEnforced   a reload brings what its copy denies into the gateway;*)
(*   AccessInTime     a proposal got an access the file gave meanwhile;    *)
(*   AccessKept       --preserve-access writes the access that is there.   *)
(* The tools of the MCP server (HostTools):                                *)
(*   ToolsTyped, and RunAsConfigured: an entry of the host permitted it.   *)
(* Decisions from Webex (WebexApproval):                                   *)
(*   WebexTyped, OneDecision and LinksRefused.                             *)
(* The host pages (Console):                                               *)
(*   ConsoleTyped, LoginsKept, OrphansGone, ServedFresh and ImportsMerge.  *)
(* All of them:                                                            *)
(*   TypesCorrect     the files and handlers keep their types.             *)
(*                                                                         *)
(* A lemma about an instance, as Console!Spec, is one about the module     *)
(* that is instantiated, in the variables that Portal gives it.            *)
(***************************************************************************)
EXTENDS Portal, WellFoundedInduction, FiniteSetTheorems, TLAPS

Docs == [Groups -> Access \cup {"absent"}]

(* The containers are no programs of the host; a document gives every      *)
(* group an access or does not have it.                                    *)
ConstantsOK ==
  /\ Hosts \cap {"mcp", "gui"} = {}
  /\ Order \in Seq(Groups) /\ Documents \subseteq Docs /\ Generated \in Docs
  /\ MaxOps \in Nat /\ MaxFaults \in Nat

-----------------------------------------------------------------------------
(* The inductive invariant.                                                *)

Ops == {"none", "propose", "save", "edit", "deploy", "preserve", "sync", "reload", "install"}
Pcs == {"idle", "document", "ask", "match", "engine", "saved", "refused", "groups", "again",
        "merge", "open", "write", "merge rules", "rules", "open rules", "write rules", "restart"}
Handlers(todo) ==
  [op : Ops, pc : Pcs, mtime : {"none", "now", "old"},
   request : Requests \cup {NoRequest}, todo : {todo}, doc : Docs, deny : SUBSET Groups,
   current : BOOLEAN, matched : Groups \cup {"none"}, result : {"none", "proposed", "approved"},
   seen : [Groups -> SUBSET (Access \cup {"absent"})]]

FilesOK ==
  /\ file \in [Files -> {Truncated} \cup {Copy(d) : d \in Docs}]
  /\ cache \in [{"mcp", "gui"} -> [data : Docs, fresh : BOOLEAN]]
  /\ rules \subseteq Groups /\ gateway \subseteq Groups
  /\ ops \in 0 .. MaxOps /\ faults \in 0 .. MaxFaults
  /\ synced \in Files \cup {"none"} /\ unsaved \in BOOLEAN
  /\ overlapped \subseteq {"policy", "rules"}

\* Every thread is where its operation takes it, and has files left to write.
ThreadOK(h, t) ==
  /\ h \in Handlers(h.todo)
  /\ \/ h.op = "none" /\ h.pc = "idle"
     \/ /\ h.op = "propose" /\ t \in {"mcp", "gui"}
        /\ h.pc \in {"document", "ask", "match", "engine", "saved", "refused"}
     \/ h.op = "save" /\ t = "gui" /\ h.pc \in {"groups", "open", "write", "again"}
     \/ h.op \in {"edit", "deploy", "sync"} /\ t \in Hosts /\ h.pc \in {"open", "write"}
     \/ h.op = "preserve" /\ t \in Hosts /\ h.pc \in {"merge", "open", "write"}
     \/ /\ h.op = "reload" /\ h.todo = <<>>
        /\ h.pc \in {"merge rules", "rules", "open rules", "write rules", "restart"}
     \/ /\ h.op = "install" /\ t \in Hosts /\ h.todo \in Seq(Files)
        /\ h.pc \in {"open", "write",
                    "merge rules", "rules", "open rules", "write rules", "restart"}
        /\ h.pc = "merge rules" => h.todo = <<>>
  /\ h.pc \in {"merge", "open", "write"} => h.todo \in Seq(Files) /\ h.todo # <<>>
  /\ h.op = "save" /\ h.pc \in {"open", "write"} => h.todo = <<"runtime">>

TypeInv ==
  /\ FilesOK
  /\ DOMAIN thr = Threads /\ \A t \in Threads : ThreadOK(thr[t], t)

\* Without an overlap there is one writer of policies, and one of the rules.
Alone ==
  \A kind \in {"policy", "rules"}, t, u \in Threads :
    kind \notin overlapped /\ kind \in Kinds(thr[t].op) /\ kind \in Kinds(thr[u].op) => t = u

\* What a reload has read is what is there, and gets into the rules.
ReloadOK ==
  /\ \A t \in Threads : thr[t].current =>
       /\ thr[t].pc \in {"rules", "open rules", "write rules", "restart"} /\ thr[t].todo = <<>>
       /\ Denied(file[Source(thr[t].op)]) \subseteq thr[t].deny
  /\ \A t \in Threads : "rules" \notin overlapped /\ thr[t].pc = "restart" => rules = thr[t].deny

\* What is about to be written has the access that is there.
MergeOK ==
  "policy" \notin overlapped => \A t \in Threads : thr[t].op = "preserve" /\ thr[t].pc = "open" =>
    \A g \in Groups :
      LET there == file[Head(thr[t].todo)].access[g] IN
      there # "absent" /\ thr[t].doc[g] # "absent" => thr[t].doc[g] = there

\* The GUI changes its cache before it writes the file, or fails to.
Ahead(p) == p = "gui" /\ (unsaved \/ (thr["gui"].op = "save" /\ thr["gui"].pc = "open"))

CacheOK ==
  \A p \in {"mcp", "gui"} :
    cache[p].fresh /\ ~ Ahead(p) => cache[p].data = file["runtime"].access

\* What the file says now, a proposal has seen it say.
SeenOK ==
  \A t \in Threads, g \in Groups :
    thr[t].op = "propose" => file["runtime"].access[g] \in thr[t].seen[g]

\* Every answer a proposal goes by was the file's at some moment.
AnswersOK ==
  \A t \in Threads : thr[t].op = "propose" /\ ~ (t = "gui" /\ unsaved) =>
    /\ thr[t].pc \in {"ask", "match", "engine", "saved"} =>
         \A g \in Groups : thr[t].doc[g] \notin {"absent", "deny"} => thr[t].seen[g] \ {"deny"} # {}
    /\ thr[t].pc \in {"engine", "saved"} =>
         thr[t].matched \in Groups /\ thr[t].doc[thr[t].matched] \notin {"absent", "deny"}
    /\ thr[t].pc = "saved" /\ thr[t].result = "approved" => "allow" \in thr[t].seen[thr[t].matched]

RolloutInv == Alone /\ ReloadOK /\ DenyEnforced
ProposalInv == CacheOK /\ SeenOK /\ AnswersOK
PolicyInv == TypeInv /\ RolloutInv /\ MergeOK /\ ProposalInv
-----------------------------------------------------------------------------
(* The model's operators.                                                  *)

LEMMA SeqTail ==
  ASSUME NEW S, NEW s \in Seq(S), s # <<>>, Len(s) # 1
  PROVE  Tail(s) \in Seq(S) /\ Tail(s) # <<>>
<1>1. Len(s) \in Nat /\ Len(s) # 0
  OBVIOUS
<1>2. Tail(s) \in Seq(S) /\ Len(Tail(s)) = Len(s) - 1
  OBVIOUS
<1>3. \A r \in Seq(S) : Len(r) # 0 => r # <<>>
  OBVIOUS
<1>4. Len(Tail(s)) # 0
  BY <1>1, <1>2
<1> QED BY <1>2, <1>3, <1>4

LEMMA LeastIndex ==
  ASSUME NEW I, I \subseteq Nat, I # {}
  PROVE  Min(I) \in I
<1>1. PICK m \in I : \A n \in I : <<n, m>> \notin OpToRel(<, Nat)
  BY NatLessThanWellFounded, WFMin
<1>2. \A n \in I : ~ (n < m)
  BY <1>1, Zenon DEF OpToRel
<1>3. \A n \in I : m <= n
  BY <1>2
<1> QED BY <1>3 DEF Min

LEMMA FirstFitFits ==
  ASSUME NEW t, Order \in Seq(Groups)
  PROVE  FirstFit(t) = "none" \/ FirstFit(t) \in Fits(t)
<1> DEFINE I == {i \in 1 .. Len(Order) : Order[i] \in Fits(t)}
<1>1. FirstFit(t) = IF (IF I # {} THEN Min(I) ELSE 0) = 0 THEN "none"
                    ELSE Order[IF I # {} THEN Min(I) ELSE 0]
  BY DEF FirstFit, SelectInSeq
<1>3. I \subseteq Nat /\ 0 \notin I /\ \A i \in I : Order[i] \in Fits(t)
  OBVIOUS
<1> HIDE DEF I
<1>2. I # {} => Min(I) \in I
  BY LeastIndex, <1>3
<1> QED BY <1>1, <1>2, <1>3

LEMMA MatchedFits ==
  ASSUME NEW t, Order \in Seq(Groups)
  PROVE  Matched(t) = "none" \/ Matched(t) \in Fits(t)
BY FirstFitFits DEF Matched

\* A step of thread t, which keeps its types, and of no other.
Moves(t) ==
  /\ DOMAIN thr' = Threads /\ \A u \in Threads : ThreadOK(thr'[u], u)
  /\ \A u \in Threads \ {t} : thr'[u] = thr[u]

LEMMA ThreadMoves ==
  ASSUME NEW t \in Threads, NEW h, TypeInv, ThreadOK(h, t), thr' = [thr EXCEPT ![t] = h]
  PROVE  Moves(t) /\ thr'[t] = h
BY DEF TypeInv, Moves

LEMMA HandlerTyped ==
  ASSUME NEW t \in Threads, TypeInv
  PROVE  thr[t] \in Handlers(thr[t].todo) /\ ThreadOK(thr[t], t)
BY DEF TypeInv, ThreadOK

LEMMA IdleTyped ==
  ASSUME NEW t
  PROVE  /\ ThreadOK(Idle, t) /\ Idle.op = "none" /\ Idle.pc = "idle" /\ ~ Idle.current
         /\ Kinds(Idle.op) = {} /\ Idle.todo = <<>> /\ Idle \in Handlers(<<>>)
<1>1. NoGroups \in Docs /\ NoRequest \in Requests \cup {NoRequest}
      /\ [g \in Groups |-> {}] \in [Groups -> SUBSET (Access \cup {"absent"})]
  BY DEF NoGroups, Docs
<1>2. /\ Idle.op = "none" /\ Idle.pc = "idle" /\ Idle.mtime = "none" /\ Idle.todo = <<>>
      /\ ~ Idle.current
  BY DEF Idle
<1>4. Idle \in Handlers(<<>>)
  <2> DEFINE n == NoGroups
             r == NoRequest
             e == [g \in Groups |-> {}]
  <2>1. n \in Docs /\ r \in Requests \cup {NoRequest}
        /\ e \in [Groups -> SUBSET (Access \cup {"absent"})]
    BY <1>1
  <2>2. Idle = [op |-> "none", pc |-> "idle", mtime |-> "none", request |-> r, todo |-> <<>>,
                doc |-> n, deny |-> {}, current |-> FALSE, matched |-> "none",
                result |-> "none", seen |-> e]
    BY DEF Idle
  <2> HIDE DEF n, r, e
  <2> QED BY <2>1, <2>2 DEF Handlers, Ops, Pcs
<1>3. Kinds("none") = {}
  BY DEF Kinds
<1> QED BY <1>2, <1>3, <1>4 DEF ThreadOK

LEMMA LoaderIsContainer ==
  ASSUME TypeInv, NEW t \in Threads, Loading(t)
  PROVE  t \in {"mcp", "gui"} /\ thr[t].op \in {"propose", "save"}
BY ZenonT(30) DEF TypeInv, ThreadOK, Handlers, Ops, Pcs, Loading

LEMMA FileTyped ==
  ASSUME TypeInv, NEW f \in Files
  PROVE  /\ file[f].access \in Docs /\ file[f].whole \in BOOLEAN
         /\ Truncated.access \in Docs /\ \A g \in Groups : Truncated.access[g] = "absent"
<1>1. NoGroups \in Docs /\ \A g \in Groups : NoGroups[g] = "absent"
  BY DEF NoGroups, Docs
<1>2. Truncated.access = NoGroups /\ Truncated.whole = FALSE
  BY DEF Truncated
<1>3. \A d \in Docs : Copy(d).access = d /\ Copy(d).whole = TRUE
  BY DEF Copy
<1>4. file[f] = Truncated \/ \E d \in Docs : file[f] = Copy(d)
  BY DEF TypeInv, FilesOK
<1> QED BY <1>1, <1>2, <1>3, <1>4

LEMMA CachedFacts ==
  ASSUME TypeInv, NEW t \in {"mcp", "gui"}
  PROVE  /\ Data(t) \in Docs
         /\ Cached(t) \in [{"mcp", "gui"} -> [data : Docs, fresh : BOOLEAN]]
         /\ \A p \in {"mcp", "gui"} \ {t} : Cached(t)[p] = cache[p]
         /\ Cached(t)[t].data = Data(t)
         /\ Cached(t)[t].fresh => cache[t].fresh \/ thr[t].mtime = "now"
<1>1. cache[t] \in [data : Docs, fresh : BOOLEAN]
  BY DEF TypeInv, FilesOK
<1>2. Data(t) \in Docs
  BY <1>1, FileTyped DEF Data, Files
<1>3. CASE cache[t].fresh
  BY <1>1, <1>2, <1>3 DEF Cached, Data, TypeInv, FilesOK
<1>4. CASE ~ cache[t].fresh
  <2> DEFINE c == [data |-> Data(t), fresh |-> thr[t].mtime = "now"]
  <2>1. c \in [data : Docs, fresh : BOOLEAN] /\ c.data = Data(t) /\ c.fresh = (thr[t].mtime = "now")
    BY <1>2
  <2>2. Cached(t) = [cache EXCEPT ![t] = c]
    BY <1>4 DEF Cached
  <2> HIDE DEF c
  <2> QED BY <1>2, <2>1, <2>2 DEF TypeInv, FilesOK
<1> QED BY <1>3, <1>4

\* A new content of f, beside a step of the writer to threads.
LEMMA ContentFacts ==
  ASSUME TypeInv, NEW f \in Files, NEW copy, NEW threads, Content(f, copy, threads),
         copy.access \in Docs, copy \in {Truncated} \cup {Copy(d) : d \in Docs},
         DOMAIN threads = Threads, \A u \in Threads : ThreadOK(threads[u], u)
  PROVE  /\ file' = [file EXCEPT ![f] = copy]
         /\ unsaved' = unsaved
         /\ synced' \in Files \cup {"none"} /\ synced' \in {synced, "none"} /\ synced' # f
         /\ cache' \in [{"mcp", "gui"} -> [data : Docs, fresh : BOOLEAN]]
         /\ \A p \in {"mcp", "gui"} : cache'[p].data = cache[p].data
         /\ DOMAIN thr' = Threads
         /\ \A u \in Threads :
              /\ ThreadOK(thr'[u], u)
              /\ thr'[u].op = threads[u].op /\ thr'[u].pc = threads[u].pc
              /\ thr'[u].todo = threads[u].todo /\ thr'[u].doc = threads[u].doc
              /\ thr'[u].deny = threads[u].deny /\ thr'[u].matched = threads[u].matched
              /\ thr'[u].result = threads[u].result
              /\ thr'[u].current => threads[u].current /\ Source(threads[u].op) # f
         /\ f # "runtime" =>
              /\ \A p \in {"mcp", "gui"} : cache'[p].fresh = cache[p].fresh
              /\ \A u \in Threads, g \in Groups : thr'[u].seen[g] = threads[u].seen[g]
         /\ f = "runtime" =>
              /\ \A p \in {"mcp", "gui"} : ~ cache'[p].fresh
              /\ \A u \in Threads : threads[u].op = "propose" =>
                   \A g \in Groups : thr'[u].seen[g] = threads[u].seen[g] \cup {copy.access[g]}
<1> DEFINE Current(u) == threads[u].current /\ Source(threads[u].op) # f
           Mtime(u) == IF f = "runtime" /\ threads[u].mtime = "now" THEN "old" ELSE threads[u].mtime
           Seen(u) == [g \in Groups |->
              IF f = "runtime" /\ threads[u].op = "propose"
                THEN threads[u].seen[g] \cup {copy.access[g]} ELSE threads[u].seen[g]]
           New(u) == [threads[u] EXCEPT !.current = Current(u), !.mtime = Mtime(u), !.seen = Seen(u)]
<1>1. ASSUME NEW u \in Threads  PROVE  threads[u] \in Handlers(threads[u].todo)
  BY DEF ThreadOK
<1>2. /\ thr' = [u \in Threads |-> New(u)] /\ file' = [file EXCEPT ![f] = copy]
      /\ cache' = [p \in DOMAIN cache |-> [cache[p] EXCEPT !.fresh = @ /\ ~ (f = "runtime")]]
      /\ synced' = (IF synced = f THEN "none" ELSE synced) /\ unsaved' = unsaved
  BY <1>1 DEF Content, Handlers
<1>3. ASSUME NEW u \in Threads
      PROVE  /\ Mtime(u) \in {"none", "now", "old"} /\ Current(u) \in BOOLEAN
             /\ Seen(u) \in [Groups -> SUBSET (Access \cup {"absent"})]
  <2>1. /\ threads[u].mtime \in {"none", "now", "old"} /\ threads[u].current \in BOOLEAN
        /\ threads[u].seen \in [Groups -> SUBSET (Access \cup {"absent"})]
    BY <1>1 DEF Handlers
  <2>2. \A g \in Groups : copy.access[g] \in Access \cup {"absent"}
    BY DEF Docs
  <2> QED BY <2>1, <2>2
<1>4. ASSUME NEW u \in Threads
      PROVE  /\ Current(u) => threads[u].current /\ Source(threads[u].op) # f
             /\ f # "runtime" => \A g \in Groups : Seen(u)[g] = threads[u].seen[g]
             /\ f = "runtime" /\ threads[u].op = "propose" =>
                  \A g \in Groups : Seen(u)[g] = threads[u].seen[g] \cup {copy.access[g]}
  OBVIOUS
<1> HIDE DEF Current, Mtime, Seen
<1>5. ASSUME NEW u \in Threads
      PROVE  /\ New(u) \in Handlers(threads[u].todo)
             /\ New(u).op = threads[u].op /\ New(u).pc = threads[u].pc
             /\ New(u).todo = threads[u].todo /\ New(u).doc = threads[u].doc
             /\ New(u).deny = threads[u].deny /\ New(u).matched = threads[u].matched
             /\ New(u).result = threads[u].result
             /\ New(u).current = Current(u) /\ New(u).seen = Seen(u)
  <2>1. threads[u] \in Handlers(threads[u].todo)
    BY <1>1
  <2> QED BY <2>1, <1>3 DEF Handlers
<1>6. ASSUME NEW u \in Threads  PROVE  ThreadOK(New(u), u)
  <2>1. ThreadOK(threads[u], u)
    OBVIOUS
  <2> HIDE DEF New
  <2> QED BY <2>1, <1>5 DEF ThreadOK
<1> HIDE DEF New
<1>7. DOMAIN thr' = Threads /\ \A u \in Threads : thr'[u] = New(u)
  BY <1>2
<1>8. /\ cache' \in [{"mcp", "gui"} -> [data : Docs, fresh : BOOLEAN]]
      /\ \A p \in {"mcp", "gui"} :
           cache'[p].data = cache[p].data /\ cache'[p].fresh = (cache[p].fresh /\ f # "runtime")
  BY <1>2 DEF TypeInv, FilesOK
<1>9. synced' \in Files \cup {"none"} /\ synced' \in {synced, "none"} /\ synced' # f
  BY <1>2 DEF TypeInv, FilesOK, Files
<1>10. \A p \in {"mcp", "gui"} : cache[p].fresh \in BOOLEAN
  BY DEF TypeInv, FilesOK
<1>11. \A p \in {"mcp", "gui"} : (f # "runtime" => cache'[p].fresh = cache[p].fresh)
                                 /\ (f = "runtime" => ~ cache'[p].fresh)
  BY <1>8, <1>10
<1>12. \A u \in Threads :
         /\ ThreadOK(thr'[u], u)
         /\ thr'[u].op = threads[u].op /\ thr'[u].pc = threads[u].pc
         /\ thr'[u].todo = threads[u].todo /\ thr'[u].doc = threads[u].doc
         /\ thr'[u].deny = threads[u].deny /\ thr'[u].matched = threads[u].matched
         /\ thr'[u].result = threads[u].result
         /\ thr'[u].current = Current(u) /\ thr'[u].seen = Seen(u)
  BY <1>5, <1>6, <1>7
<1> QED BY <1>2, <1>4, <1>7, <1>8, <1>9, <1>11, <1>12

-----------------------------------------------------------------------------
(* The steps of a thread that asks for access.                             *)

Resting == UNCHANGED <<file, rules, gateway, ops, faults, synced, unsaved, overlapped>>

LEMMA StatFacts ==
  ASSUME TypeInv, NEW t \in Threads, Stat(t)
  PROVE  /\ t \in {"mcp", "gui"} /\ thr[t].op \in {"propose", "save"}
         /\ Moves(t) /\ Resting /\ cache' = cache
         /\ thr'[t].op = thr[t].op /\ thr'[t].pc = thr[t].pc /\ thr'[t].doc = thr[t].doc
         /\ thr'[t].current = thr[t].current /\ thr'[t].matched = thr[t].matched
         /\ thr'[t].result = thr[t].result /\ thr'[t].seen = thr[t].seen
<1>1. t \in {"mcp", "gui"} /\ thr[t].op \in {"propose", "save"}
  BY LoaderIsContainer DEF Stat
<1> DEFINE h == [thr[t] EXCEPT !.mtime = "now"]
<1>2. /\ h \in Handlers(thr[t].todo) /\ h.todo = thr[t].todo
      /\ h.op = thr[t].op /\ h.pc = thr[t].pc /\ h.doc = thr[t].doc
      /\ h.current = thr[t].current /\ h.matched = thr[t].matched
      /\ h.result = thr[t].result /\ h.seen = thr[t].seen
  BY HandlerTyped DEF Handlers
<1>3. thr' = [thr EXCEPT ![t] = h] /\ Resting /\ cache' = cache
  BY DEF Stat, Resting
<1> HIDE DEF h
<1>4. ThreadOK(h, t)
  BY <1>2, HandlerTyped, ZenonT(30) DEF ThreadOK
<1> QED BY <1>1, <1>2, <1>3, <1>4, ThreadMoves

LEMMA GoesFacts ==
  ASSUME TypeInv, NEW t \in Threads, NEW h, ThreadOK(h, t), Goes(t, h)
  PROVE  /\ Moves(t) /\ Resting /\ cache' = Cached(t)
         /\ thr'[t].op = h.op /\ thr'[t].pc = h.pc /\ thr'[t].doc = h.doc
         /\ thr'[t].current = h.current /\ thr'[t].matched = h.matched
         /\ thr'[t].result = h.result /\ thr'[t].seen = h.seen
<1> DEFINE k == [h EXCEPT !.mtime = "none"]
<1>1. h \in Handlers(h.todo)
  BY DEF ThreadOK
<1>2. /\ k \in Handlers(h.todo) /\ k.todo = h.todo
      /\ k.op = h.op /\ k.pc = h.pc /\ k.doc = h.doc /\ k.current = h.current
      /\ k.matched = h.matched /\ k.result = h.result /\ k.seen = h.seen
  BY <1>1 DEF Handlers
<1>3. thr' = [thr EXCEPT ![t] = k] /\ Resting /\ cache' = Cached(t)
  BY DEF Goes, Resting
<1> HIDE DEF k
<1>4. ThreadOK(k, t)
  BY <1>2 DEF ThreadOK
<1> QED BY <1>2, <1>3, <1>4, ThreadMoves

\* What is the same in the handler of a proposal that loads the policy.
GoesOn(t) ==
  /\ t \in {"mcp", "gui"} /\ Moves(t) /\ Resting /\ cache' = Cached(t)
  /\ thr[t].op = "propose" /\ thr'[t].op = "propose"
  /\ thr'[t].current = thr[t].current /\ thr'[t].seen = thr[t].seen

LEMMA CompileFacts ==
  ASSUME TypeInv, NEW t \in Threads, Compile(t)
  PROVE  GoesOn(t) /\ thr'[t].doc = Data(t) /\ thr'[t].pc \in {"ask", "refused"}
<1> DEFINE present == SelectSeq(Order, LAMBDA g : Data(t)[g] # "absent")
           pc == IF present = <<>> THEN "refused" ELSE "ask"
           h == [thr[t] EXCEPT !.doc = Data(t), !.todo = present, !.pc = pc]
<1>1. t \in {"mcp", "gui"} /\ thr[t].op = "propose"
  BY LoaderIsContainer, HandlerTyped DEF Compile, Loading, ThreadOK
<1>2. Data(t) \in Docs /\ pc \in {"refused", "ask"}
  BY <1>1, CachedFacts
<1>3. Goes(t, h)
  BY DEF Compile
<1> HIDE DEF present, pc
<1>4. /\ h \in Handlers(present) /\ h.todo = present /\ h.op = thr[t].op /\ h.pc = pc
      /\ h.doc = Data(t) /\ h.current = thr[t].current /\ h.seen = thr[t].seen
  <2>1. thr[t] \in Handlers(thr[t].todo)
    BY HandlerTyped
  <2>2. h \in Handlers(present)
    BY <1>2, <2>1 DEF Handlers, Pcs
  <2>3. /\ h.todo = present /\ h.op = thr[t].op /\ h.pc = pc
        /\ h.doc = Data(t) /\ h.current = thr[t].current /\ h.seen = thr[t].seen
    BY <2>1 DEF Handlers
  <2> QED BY <2>2, <2>3
<1> HIDE DEF h
<1>5. ThreadOK(h, t)
  BY <1>1, <1>2, <1>4 DEF ThreadOK
<1> QED BY <1>1, <1>2, <1>3, <1>4, <1>5, GoesFacts DEF GoesOn

LEMMA AskFacts ==
  ASSUME TypeInv, NEW t \in Threads, Ask(t)
  PROVE  /\ GoesOn(t) /\ thr[t].pc = "ask" /\ thr'[t].pc \in {"ask", "match"}
         /\ \A g \in Groups : thr'[t].doc[g] \in {thr[t].doc[g], AccessOf(Data(t), g)}
<1> DEFINE g == Head(thr[t].todo)
           doc == [thr[t].doc EXCEPT ![g] = AccessOf(Data(t), g)]
           todo == Tail(thr[t].todo)
           pc == IF Len(thr[t].todo) = 1 THEN "match" ELSE "ask"
           h == [thr[t] EXCEPT !.doc = doc, !.todo = todo, !.pc = pc]
<1>1. t \in {"mcp", "gui"} /\ thr[t].op = "propose" /\ thr[t].pc = "ask"
  BY LoaderIsContainer, HandlerTyped DEF Ask, Loading, ThreadOK
<1>2. Data(t) \in Docs /\ thr[t].doc \in Docs
  BY <1>1, CachedFacts, HandlerTyped DEF Handlers
<1>3. doc \in Docs /\ pc \in {"ask", "match"}
      /\ \A i \in Groups : doc[i] \in {thr[t].doc[i], AccessOf(Data(t), i)}
  BY <1>2 DEF Docs, Access, AccessOf
<1>4. Goes(t, h)
  BY HandlerTyped DEF Ask, Handlers
<1> HIDE DEF doc, todo, pc, g
<1>7. doc \in Docs /\ pc \in Pcs /\ thr[t] \in Handlers(thr[t].todo)
  BY <1>3, HandlerTyped DEF Pcs
<1>5. /\ h \in Handlers(todo) /\ h.todo = todo /\ h.op = thr[t].op /\ h.pc = pc
      /\ h.doc = doc /\ h.current = thr[t].current /\ h.seen = thr[t].seen
  BY <1>7 DEF Handlers
<1> HIDE DEF h
<1>6. ThreadOK(h, t)
  BY <1>1, <1>3, <1>5 DEF ThreadOK
<1> QED BY <1>1, <1>3, <1>4, <1>5, <1>6, GoesFacts DEF GoesOn

LEMMA MatchFacts ==
  ASSUME TypeInv, ConstantsOK, NEW t \in Threads, Match(t)
  PROVE  /\ GoesOn(t) /\ thr[t].pc = "match" /\ thr'[t].doc = thr[t].doc
         /\ \/ thr'[t].pc = "refused"
            \/ /\ thr'[t].pc = "engine" /\ thr'[t].matched \in Groups
               /\ thr[t].doc[thr'[t].matched] \notin {"absent", "deny"}
<1> DEFINE pc == IF Matched(t) = "none" THEN "refused" ELSE "engine"
           h == [thr[t] EXCEPT !.matched = Matched(t), !.pc = pc]
<1>1. t \in {"mcp", "gui"} /\ thr[t].op = "propose" /\ thr[t].pc = "match"
  BY LoaderIsContainer, HandlerTyped DEF Match, Loading, ThreadOK
<1>2. Matched(t) = "none" \/ /\ Matched(t) \in Groups
                             /\ thr[t].doc[Matched(t)] \notin {"absent", "deny"}
  BY MatchedFits DEF ConstantsOK, Fits, Compiled
<1>3. pc = "refused" \/ /\ pc = "engine" /\ Matched(t) \in Groups
                        /\ thr[t].doc[Matched(t)] \notin {"absent", "deny"}
  BY <1>2
<1>4. Goes(t, h)
  BY DEF Match
<1> HIDE DEF pc
<1>7. Matched(t) \in Groups \cup {"none"} /\ pc \in Pcs /\ thr[t] \in Handlers(thr[t].todo)
  BY <1>2, <1>3, HandlerTyped DEF Pcs
<1>5. /\ h \in Handlers(thr[t].todo) /\ h.todo = thr[t].todo /\ h.op = thr[t].op /\ h.pc = pc
      /\ h.matched = Matched(t)
      /\ h.doc = thr[t].doc /\ h.current = thr[t].current /\ h.seen = thr[t].seen
  BY <1>7 DEF Handlers
<1> HIDE DEF h
<1>6. ThreadOK(h, t)
  BY <1>1, <1>3, <1>5 DEF ThreadOK
<1> QED BY <1>1, <1>3, <1>4, <1>5, <1>6, GoesFacts DEF GoesOn

LEMMA SaveChangeFacts ==
  ASSUME TypeInv, NEW t \in Threads, SaveChange(t)
  PROVE  /\ GoesOn(t) /\ thr[t].pc = "engine" /\ thr'[t].pc = "saved"
         /\ thr'[t].doc = thr[t].doc /\ thr'[t].matched = thr[t].matched
         /\ thr'[t].result = "approved" => GroupAccess(t) = "allow"
<1> DEFINE result == IF GroupAccess(t) = "allow" THEN "approved" ELSE "proposed"
           h == [thr[t] EXCEPT !.pc = "saved", !.result = result]
<1>1. t \in {"mcp", "gui"} /\ thr[t].op = "propose" /\ thr[t].pc = "engine"
  BY LoaderIsContainer, HandlerTyped DEF SaveChange, Loading, ThreadOK
<1>2. result \in {"approved", "proposed"} /\ (result = "approved" => GroupAccess(t) = "allow")
  OBVIOUS
<1>3. Goes(t, h)
  BY DEF SaveChange
<1> HIDE DEF result
<1>4. /\ h \in Handlers(thr[t].todo) /\ h.todo = thr[t].todo /\ h.op = thr[t].op /\ h.pc = "saved"
      /\ h.matched = thr[t].matched /\ h.result = result
      /\ h.doc = thr[t].doc /\ h.current = thr[t].current /\ h.seen = thr[t].seen
  BY <1>2, HandlerTyped, ZenonT(30) DEF Handlers, Pcs
<1> HIDE DEF h
<1>5. ThreadOK(h, t)
  BY <1>1, <1>4 DEF ThreadOK
<1> QED BY <1>1, <1>2, <1>3, <1>4, <1>5, GoesFacts DEF GoesOn

LEMMA AnswerFacts ==
  ASSUME TypeInv, NEW t \in Threads, Answer(t)
  PROVE  Moves(t) /\ thr'[t] = Idle /\ Resting /\ cache' = cache /\ thr[t].op = "propose"
<1>1. thr[t].op = "propose" /\ thr' = [thr EXCEPT ![t] = Idle] /\ Resting /\ cache' = cache
  BY HandlerTyped DEF Answer, ThreadOK, Resting
<1> QED BY <1>1, ThreadMoves, IdleTyped

LEMMA UpdateGroupsFacts ==
  ASSUME TypeInv, UpdateGroups
  PROVE  /\ Moves("gui") /\ Resting /\ thr["gui"].op = "save" /\ thr'["gui"].op = "save"
         /\ thr'["gui"].pc = "open" /\ thr'["gui"].current = thr["gui"].current
         /\ cache' \in [{"mcp", "gui"} -> [data : Docs, fresh : BOOLEAN]]
         /\ cache'["mcp"] = cache["mcp"]
<1> DEFINE new == Updated(Data("gui"), thr["gui"].doc)
           h == [thr["gui"] EXCEPT !.pc = "open", !.mtime = "none", !.todo = <<"runtime">>, !.doc = new]
<1>1. "gui" \in Threads /\ thr["gui"].pc = "groups" /\ thr["gui"].op = "save"
  BY HandlerTyped DEF UpdateGroups, Threads, ThreadOK
<1>2. Data("gui") \in Docs /\ thr["gui"].doc \in Docs
      /\ Cached("gui") \in [{"mcp", "gui"} -> [data : Docs, fresh : BOOLEAN]]
      /\ Cached("gui")["mcp"] = cache["mcp"]
  BY <1>1, CachedFacts, HandlerTyped DEF Handlers
<1>3. new \in Docs
  BY <1>2 DEF Updated, Docs
<1>4. /\ thr' = [thr EXCEPT !["gui"] = h] /\ Resting
      /\ cache' = [Cached("gui") EXCEPT !["gui"].data = new]
  BY DEF UpdateGroups, Resting
<1> HIDE DEF new
<1>5. /\ h \in Handlers(<<"runtime">>) /\ h.todo = <<"runtime">> /\ h.op = "save" /\ h.pc = "open"
      /\ h.current = thr["gui"].current
  <2>1. thr["gui"] \in Handlers(thr["gui"].todo)
    BY <1>1, HandlerTyped
  <2> QED BY <1>1, <1>3, <2>1 DEF Handlers, Pcs
<1>6. <<"runtime">> \in Seq(Files) /\ <<"runtime">> # <<>>
  BY DEF Files
<1> HIDE DEF h
<1>7. ThreadOK(h, "gui")
  BY <1>5, <1>6 DEF ThreadOK
<1>8. /\ cache' \in [{"mcp", "gui"} -> [data : Docs, fresh : BOOLEAN]]
      /\ cache'["mcp"] = cache["mcp"]
  BY <1>2, <1>3, <1>4
<1> QED BY <1>1, <1>4, <1>5, <1>7, <1>8, ThreadMoves

LEMMA ReloadedFacts ==
  ASSUME TypeInv, Reloaded
  PROVE  /\ Moves("gui") /\ Resting /\ cache' = Cached("gui") /\ thr["gui"].op = "save"
         /\ thr["gui"].pc = "again" /\ thr'["gui"].op = "none" /\ thr'["gui"].pc = "idle"
         /\ ~ thr'["gui"].current
<1>1. "gui" \in Threads /\ thr["gui"].pc = "again" /\ thr["gui"].op = "save" /\ Goes("gui", Idle)
  BY HandlerTyped DEF Reloaded, Threads, ThreadOK
<1> QED BY <1>1, IdleTyped, GoesFacts

-----------------------------------------------------------------------------
(* The beginning of an operation.                                          *)

\* Thread t begins; overlapped tells whether it was alone with its kind.
Starts(t) ==
  /\ Moves(t) /\ thr[t] = Idle /\ ops' \in 0 .. MaxOps
  /\ UNCHANGED <<file, cache, rules, gateway, faults, synced, unsaved>>
  /\ overlapped \subseteq overlapped' /\ overlapped' \subseteq {"policy", "rules"}
  /\ \A kind \in Kinds(thr'[t].op), u \in Threads :
       kind \notin overlapped' => kind \notin Kinds(thr[u].op)
  /\ ~ thr'[t].current

LEMMA BeginStarts ==
  ASSUME TypeInv, ConstantsOK, NEW t \in Threads, NEW h, ThreadOK(h, t), ~ h.current, Begin(t, h),
         UNCHANGED <<file, cache, rules, gateway, faults, synced, unsaved>>
  PROVE  Starts(t) /\ thr'[t] = h
<1>1. thr[t] = Idle /\ thr' = [thr EXCEPT ![t] = h] /\ ops' = ops + 1 /\ ops < MaxOps
      /\ overlapped' = overlapped \cup
           {kind \in Kinds(h.op) : \E u \in Threads : kind \in Kinds(thr[u].op)}
  BY DEF Begin
<1>2. ops \in 0 .. MaxOps /\ MaxOps \in Nat /\ overlapped \subseteq {"policy", "rules"}
      /\ Kinds(h.op) \subseteq {"policy", "rules"}
  BY DEF TypeInv, FilesOK, ConstantsOK, Kinds
<1>3. ops' \in 0 .. MaxOps
  BY <1>1, <1>2
<1>4. Moves(t) /\ thr'[t] = h
  BY <1>1, ThreadMoves
<1> QED BY <1>1, <1>2, <1>3, <1>4 DEF Starts

LEMMA ProposeStarts ==
  ASSUME TypeInv, ConstantsOK, NEW t \in Threads, NEW r \in Requests, Propose(t, r)
  PROVE  /\ Starts(t) /\ thr'[t].op = "propose" /\ thr'[t].pc = "document"
         /\ \A g \in Groups : file["runtime"].access[g] \in thr'[t].seen[g]
<1> DEFINE seen == [g \in Groups |-> {file["runtime"].access[g]}]
           h == [Idle EXCEPT !.op = "propose", !.pc = "document", !.request = r, !.seen = seen]
<1>1. file["runtime"].access \in Docs
  BY FileTyped DEF Files
<1>2. seen \in [Groups -> SUBSET (Access \cup {"absent"})]
      /\ \A g \in Groups : file["runtime"].access[g] \in seen[g]
  BY <1>1 DEF Docs
<1>3. t \in {"mcp", "gui"} /\ Begin(t, h)
      /\ UNCHANGED <<file, cache, rules, gateway, faults, synced, unsaved>>
  BY DEF Propose
<1> HIDE DEF seen
<1>4. /\ h \in Handlers(<<>>)
      /\ h.op = "propose" /\ h.pc = "document" /\ h.todo = <<>> /\ ~ h.current /\ h.seen = seen
  <2>1. Idle \in Handlers(<<>>) /\ ~ Idle.current
    BY IdleTyped
  <2> QED BY <1>2, <2>1, ZenonT(30) DEF Handlers, Ops, Pcs
<1> HIDE DEF h
<1>5. ThreadOK(h, t)
  BY <1>3, <1>4 DEF ThreadOK
<1> QED BY <1>2, <1>3, <1>4, <1>5, BeginStarts

LEMMA OthersStart ==
  ASSUME TypeInv, ConstantsOK, NEW t \in Threads, NEW h, h \in Handlers(h.todo), ~ h.current,
         \/ h.op = "save" /\ h.pc = "groups" /\ t = "gui"
         \/ /\ h.op \in {"edit", "deploy", "sync"} /\ h.pc = "open" /\ t \in Hosts
            /\ h.todo \in Seq(Files) /\ h.todo # <<>>
         \/ /\ h.op = "preserve" /\ h.pc = "merge" /\ t \in Hosts
            /\ h.todo \in Seq(Files) /\ h.todo # <<>>
         \/ h.op = "reload" /\ h.pc = "merge rules" /\ h.todo = <<>>
         \/ h.op = "install" /\ h.pc = "rules" /\ t \in Hosts /\ h.todo \in Seq(Files),
         Begin(t, h), UNCHANGED <<file, cache, rules, gateway, faults, synced, unsaved>>
  PROVE  Starts(t) /\ thr'[t] = h
<1>1. ThreadOK(h, t)
  BY DEF ThreadOK
<1> QED BY <1>1, BeginStarts

LEMMA Sequences ==
  /\ <<"canonical", "bundle", "runtime">> \in Seq(Files)
  /\ <<"canonical", "bundle", "runtime">> # <<>>
  /\ <<"bundle", "runtime">> \in Seq(Files) /\ <<"bundle", "runtime">> # <<>>
  /\ <<"canonical", "bundle">> \in Seq(Files) /\ <<"canonical", "bundle">> # <<>>
BY DEF Files

LEMMA RequestStarts ==
  ASSUME TypeInv, ConstantsOK, NEW t \in Threads, Request(t)
  PROVE  /\ Starts(t)
         /\ \/ /\ thr'[t].op = "propose" /\ thr'[t].pc = "document"
               /\ \A g \in Groups : file["runtime"].access[g] \in thr'[t].seen[g]
            \/ /\ thr'[t].op \in {"edit", "deploy", "preserve", "sync"}
               /\ thr'[t].pc \in {"open", "merge"}
               /\ thr'[t].op = "preserve" => thr'[t].pc = "merge"
            \/ thr'[t].op \in {"reload", "install"} /\ thr'[t].pc \in {"merge rules", "rules"}
<1>1. CASE \E r \in Requests : Propose(t, r)
  BY <1>1, ProposeStarts
<1>2. ASSUME NEW d \in Documents, Edit(t, d)
      PROVE  Starts(t) /\ thr'[t].op = "edit" /\ thr'[t].pc = "open"
  <2> DEFINE todo == <<"canonical", "bundle", "runtime">>
             h == [Idle EXCEPT !.op = "edit", !.pc = "open", !.doc = d, !.todo = todo]
  <2>1. t \in Hosts /\ d \in Docs /\ Begin(t, h)
        /\ UNCHANGED <<file, cache, rules, gateway, faults, synced, unsaved>>
    BY <1>2 DEF Edit, ConstantsOK
  <2>2. h \in Handlers(h.todo) /\ h.op = "edit" /\ h.pc = "open" /\ ~ h.current /\ h.todo = todo
    BY <2>1, IdleTyped DEF Handlers, Ops, Pcs
  <2> HIDE DEF h
  <2> QED BY <2>1, <2>2, Sequences, OthersStart
<1>3. ASSUME NEW op \in {"deploy", "preserve"}, Deploy(t, op)
      PROVE  Starts(t) /\ thr'[t].op = op /\ thr'[t].pc = IF op = "preserve" THEN "merge" ELSE "open"
  <2> DEFINE pc == IF op = "preserve" THEN "merge" ELSE "open"
             doc == file["canonical"].access
             todo == <<"bundle", "runtime">>
             h == [Idle EXCEPT !.op = op, !.pc = pc, !.doc = doc, !.todo = todo]
  <2>1. t \in Hosts /\ Begin(t, h) /\ UNCHANGED <<file, cache, rules, gateway, faults, synced, unsaved>>
    BY <1>3 DEF Deploy
  <2>2. doc \in Docs
    BY FileTyped DEF Files
  <2>4. (op = "deploy" /\ pc = "open") \/ (op = "preserve" /\ pc = "merge")
    OBVIOUS
  <2> HIDE DEF pc, doc
  <2>3. h \in Handlers(h.todo) /\ h.op = op /\ h.pc = pc /\ ~ h.current /\ h.todo = todo
    BY <2>2, <2>4, IdleTyped DEF Handlers, Ops, Pcs
  <2> HIDE DEF h
  <2>5. Starts(t) /\ thr'[t] = h
    BY <2>1, <2>3, <2>4, Sequences, OthersStart
  <2> QED BY <2>3, <2>5 DEF pc
<1>4. CASE Reload(t)
  <2> DEFINE h == [Idle EXCEPT !.op = "reload", !.pc = "merge rules"]
  <2>1. Begin(t, h) /\ UNCHANGED <<file, cache, rules, gateway, faults, synced, unsaved>>
    BY <1>4 DEF Reload
  <2>3. h \in Handlers(h.todo) /\ h.op = "reload" /\ h.pc = "merge rules" /\ ~ h.current
        /\ h.todo = <<>>
    BY IdleTyped DEF Handlers, Ops, Pcs
  <2> HIDE DEF h
  <2> QED BY <2>1, <2>3, OthersStart
<1>5. ASSUME Sync(t) \/ Install(t)
      PROVE  /\ Starts(t)
             /\ \/ thr'[t].op = "sync" /\ thr'[t].pc = "open"
                \/ thr'[t].op = "install" /\ thr'[t].pc = "rules"
  <2> DEFINE todo == <<"canonical", "bundle">>
             H(op, pc) == [Idle EXCEPT !.op = op, !.pc = pc, !.doc = Generated, !.todo = todo]
  <2>1. PICK op, pc : /\ \/ op = "sync" /\ pc = "open"
                         \/ op = "install" /\ pc = "rules"
                      /\ t \in Hosts /\ Begin(t, H(op, pc))
                      /\ UNCHANGED <<file, cache, rules, gateway, faults, synced, unsaved>>
    BY <1>5 DEF Sync, Install
  <2>2. /\ H(op, pc) \in Handlers(H(op, pc).todo) /\ H(op, pc).op = op /\ H(op, pc).pc = pc
        /\ ~ H(op, pc).current /\ H(op, pc).todo = todo
    BY <2>1, IdleTyped DEF Handlers, Ops, Pcs, ConstantsOK
  <2> HIDE DEF H
  <2> QED BY <2>1, <2>2, Sequences, OthersStart
<1>6. (\E r \in Requests : Propose(t, r)) \/ (\E d \in Documents : Edit(t, d))
      \/ (\E op \in {"deploy", "preserve"} : Deploy(t, op))
      \/ Sync(t) \/ Reload(t) \/ Install(t)
  BY DEF Request
<1> QED BY <1>1, <1>2, <1>3, <1>4, <1>5, <1>6

LEMMA SaveGroupsStarts ==
  ASSUME TypeInv, ConstantsOK, NEW updates \in [Groups -> Access], SaveGroups(updates)
  PROVE  Starts("gui") /\ thr'["gui"].op = "save" /\ thr'["gui"].pc = "groups"
<1> DEFINE h == [Idle EXCEPT !.op = "save", !.pc = "groups", !.doc = updates]
<1>1. "gui" \in Threads /\ updates \in Docs
  BY DEF Threads, Docs
<1>2. Begin("gui", h) /\ UNCHANGED <<file, cache, rules, gateway, faults, synced, unsaved>>
  BY DEF SaveGroups
<1>3. h \in Handlers(h.todo) /\ h.op = "save" /\ h.pc = "groups" /\ ~ h.current
  BY <1>1, IdleTyped DEF Handlers, Ops, Pcs
<1> HIDE DEF h
<1> QED BY <1>1, <1>2, <1>3, OthersStart

-----------------------------------------------------------------------------
(* The steps of a writer of the policy.                                    *)

LEMMA MergeAccessFacts ==
  ASSUME TypeInv, NEW t \in Threads, MergeAccess(t)
  PROVE  /\ Moves(t) /\ Resting /\ cache' = cache
         /\ thr[t].op = "preserve" /\ thr'[t].op = "preserve" /\ thr'[t].pc = "open"
         /\ thr'[t].current = thr[t].current /\ thr'[t].todo = thr[t].todo
         /\ \A g \in Groups :
              LET there == file[Head(thr[t].todo)].access[g] IN
              there # "absent" /\ thr'[t].doc[g] # "absent" => thr'[t].doc[g] = there
<1> DEFINE old == file[Head(thr[t].todo)].access
           doc == [g \in Groups |-> IF thr[t].doc[g] = "absent" \/ old[g] = "absent"
                                    THEN thr[t].doc[g] ELSE old[g]]
           h == [thr[t] EXCEPT !.pc = "open", !.doc = doc]
<1>1. /\ thr[t].op = "preserve" /\ t \in Hosts /\ thr[t].todo \in Seq(Files) /\ thr[t].todo # <<>>
      /\ thr[t] \in Handlers(thr[t].todo)
  BY HandlerTyped DEF MergeAccess, ThreadOK
<1>2. thr[t].doc \in Docs /\ old \in Docs
  <2>1. Head(thr[t].todo) \in Files
    BY <1>1
  <2> QED BY <1>1, <2>1, FileTyped DEF Handlers
<1>3. doc \in Docs
  BY <1>2 DEF Docs
<1>4. \A g \in Groups : old[g] # "absent" /\ doc[g] # "absent" => doc[g] = old[g]
  OBVIOUS
<1>5. thr' = [thr EXCEPT ![t] = h] /\ Resting /\ cache' = cache
  BY <1>1 DEF MergeAccess, Resting, Handlers
<1> HIDE DEF doc
<1>6. /\ h \in Handlers(thr[t].todo) /\ h.todo = thr[t].todo /\ h.op = thr[t].op /\ h.pc = "open"
      /\ h.doc = doc /\ h.current = thr[t].current
  BY <1>1, <1>3 DEF Handlers, Pcs
<1> HIDE DEF h
<1>7. ThreadOK(h, t)
  BY <1>1, <1>6 DEF ThreadOK
<1>8. Moves(t) /\ thr'[t] = h
  BY <1>5, <1>7, ThreadMoves
<1> HIDE DEF old
<1>9. \A g \in Groups : old[g] # "absent" /\ thr'[t].doc[g] # "absent" => thr'[t].doc[g] = old[g]
  BY <1>4, <1>6, <1>8
<1> QED BY <1>1, <1>5, <1>6, <1>8, <1>9 DEF old

\* Thread t gives f the content copy, and goes on with h.
Puts(t, f, copy, h) ==
  /\ thr[t].pc \in {"open", "write"} /\ f = Head(thr[t].todo) /\ f \in Files /\ copy.access \in Docs
  /\ copy \in {Truncated} \cup {Copy(d) : d \in Docs}
  /\ ThreadOK(h, t) /\ Content(f, copy, [thr EXCEPT ![t] = h])
  /\ UNCHANGED <<rules, gateway, ops, faults, overlapped>>
  /\ h.op \in {thr[t].op, "none"} /\ h.op # "propose" /\ (h.current => thr[t].current)
  /\ h.pc # "restart" /\ ~ (h.op \in {"save", "preserve"} /\ h.pc = "open")

LEMMA OpenPuts ==
  ASSUME TypeInv, NEW t \in Threads, Open(t)
  PROVE  \E f, copy, h : Puts(t, f, copy, h) /\ thr[t].pc = "open" /\ h.pc = "write"
<1> DEFINE f == Head(thr[t].todo)
           h == [thr[t] EXCEPT !.pc = "write"]
<1>1. /\ thr[t].todo \in Seq(Files) /\ thr[t].todo # <<>> /\ thr[t] \in Handlers(thr[t].todo)
      /\ thr[t].pc = "open" /\ thr[t].op \in {"save", "edit", "deploy", "preserve", "sync", "install"}
      /\ ThreadOK(thr[t], t)
  BY HandlerTyped DEF Open, ThreadOK
<1>2. f \in Files /\ f = Head(thr[t].todo)
  BY <1>1
<1>3. Truncated.access \in Docs
  BY <1>2, FileTyped
<1>4. Content(f, Truncated, [thr EXCEPT ![t] = h]) /\ UNCHANGED <<rules, gateway, ops, faults, overlapped>>
  BY <1>1 DEF Open
<1>5. /\ h \in Handlers(thr[t].todo) /\ h.todo = thr[t].todo /\ h.op = thr[t].op /\ h.pc = "write"
      /\ h.current = thr[t].current
  BY <1>1 DEF Handlers, Pcs
<1> HIDE DEF f, h
<1>6. ThreadOK(h, t)
  BY <1>1, <1>5 DEF ThreadOK
<1>7. Puts(t, f, Truncated, h)
  BY <1>1, <1>2, <1>3, <1>4, <1>5, <1>6 DEF Puts
<1> QED BY <1>1, <1>5, <1>7

LEMMA WritePuts ==
  ASSUME TypeInv, NEW t \in Threads, Write(t)
  PROVE  \E f, copy, h : Puts(t, f, copy, h) /\ thr[t].pc = "write"
<1> DEFINE f == Head(thr[t].todo)
           h == Written(t)
<1>1. /\ thr[t].todo \in Seq(Files) /\ thr[t].todo # <<>> /\ thr[t] \in Handlers(thr[t].todo)
      /\ thr[t].pc = "write" /\ thr[t].op \in {"save", "edit", "deploy", "preserve", "sync", "install"}
      /\ thr[t].doc \in Docs /\ ThreadOK(thr[t], t)
  BY HandlerTyped DEF Write, ThreadOK, Handlers
<1>2. f \in Files /\ f = Head(thr[t].todo)
  BY <1>1
<1>3. Copy(thr[t].doc).access \in Docs
  BY <1>1 DEF Copy
<1>4. /\ Content(f, Copy(thr[t].doc), [thr EXCEPT ![t] = h])
      /\ UNCHANGED <<rules, gateway, ops, faults, overlapped>>
  BY <1>1 DEF Write
<1>5. /\ ThreadOK(h, t) /\ h.op \in {thr[t].op, "none"} /\ h.op # "propose"
      /\ (h.current => thr[t].current) /\ h.pc # "restart"
      /\ ~ (h.op \in {"save", "preserve"} /\ h.pc = "open")
  <2>1. CASE thr[t].op = "save"
    <3>1. h = [thr[t] EXCEPT !.pc = "again", !.todo = <<>>]
      BY <2>1 DEF Written
    <3> HIDE DEF h
    <3>2. /\ h \in Handlers(<<>>) /\ h.todo = <<>> /\ h.op = "save" /\ h.pc = "again"
          /\ h.current = thr[t].current
      BY <1>1, <2>1, <3>1 DEF Handlers, Pcs
    <3> QED BY <1>1, <2>1, <3>2 DEF ThreadOK
  <2>2. CASE thr[t].op \notin {"save", "install"} /\ Len(thr[t].todo) = 1
    <3>1. h = Idle
      BY <2>2 DEF Written
    <3> QED BY <3>1, IdleTyped
  <2>4. CASE thr[t].op = "install" /\ Len(thr[t].todo) = 1
    <3>1. h = [thr[t] EXCEPT !.pc = "merge rules", !.todo = <<>>]
      BY <2>4 DEF Written
    <3> HIDE DEF h
    <3>2. /\ h \in Handlers(<<>>) /\ h.todo = <<>> /\ h.op = "install" /\ h.pc = "merge rules"
          /\ h.current = thr[t].current
      BY <1>1, <2>4, <3>1 DEF Handlers, Pcs
    <3>3. t \in Hosts /\ <<>> \in Seq(Files)
      BY <1>1, <2>4 DEF ThreadOK
    <3> QED BY <1>1, <2>4, <3>2, <3>3 DEF ThreadOK
  <2>3. CASE thr[t].op # "save" /\ Len(thr[t].todo) # 1
    <3> DEFINE pc == IF thr[t].op = "preserve" THEN "merge" ELSE "open"
               todo == Tail(thr[t].todo)
    <3>1. h = [thr[t] EXCEPT !.pc = pc, !.todo = todo]
      BY <1>1, <2>3 DEF Written, Handlers
    <3>2. todo \in Seq(Files) /\ todo # <<>>
      <4> QED BY <1>1, <2>3, SeqTail
    <3>3. pc \in Pcs /\ \/ thr[t].op = "preserve" /\ pc = "merge"
                        \/ thr[t].op \in {"edit", "deploy", "sync", "install"} /\ pc = "open"
      BY <1>1, <2>3 DEF Pcs
    <3> HIDE DEF h, pc, todo
    <3>4. /\ h \in Handlers(todo) /\ h.todo = todo /\ h.op = thr[t].op /\ h.pc = pc
          /\ h.current = thr[t].current
      BY <1>1, <3>1, <3>3 DEF Handlers
    <3> QED BY <1>1, <3>2, <3>3, <3>4 DEF ThreadOK
  <2> QED BY <2>1, <2>2, <2>3, <2>4
<1> HIDE DEF f, h
<1>7. Puts(t, f, Copy(thr[t].doc), h)
  BY <1>1, <1>2, <1>3, <1>4, <1>5 DEF Puts
<1> QED BY <1>1, <1>7

LEMMA FailFacts ==
  ASSUME TypeInv, ConstantsOK, NEW t \in Threads, Fail(t)
  PROVE  /\ Moves(t) /\ thr'[t] = Idle /\ faults' \in 0 .. MaxFaults
         /\ UNCHANGED <<file, cache, rules, gateway, ops, synced, overlapped>>
         /\ thr[t].op # "propose"
         /\ unsaved' = (unsaved \/ (thr[t].op = "save" /\ thr[t].pc = "open"))
<1>1. thr[t].op # "propose" /\ faults' = faults + 1 /\ faults < MaxFaults
      /\ thr' = [thr EXCEPT ![t] = Idle]
      /\ UNCHANGED <<file, cache, rules, gateway, ops, synced, overlapped>>
      /\ unsaved' = (unsaved \/ (thr[t].op = "save" /\ thr[t].pc = "open"))
  BY HandlerTyped DEF Fail, ThreadOK
<1>2. faults' \in 0 .. MaxFaults
  BY <1>1 DEF TypeInv, FilesOK, ConstantsOK
<1> QED BY <1>1, <1>2, ThreadMoves, IdleTyped

-----------------------------------------------------------------------------
(* The steps of a reload.                                                  *)

\* Thread t goes on with its reload, at pc and with the rules deny.
Reloads(t, pc, deny) ==
  /\ Moves(t) /\ thr[t].op \in {"reload", "install"} /\ thr'[t].op = thr[t].op
  /\ thr'[t].pc = pc /\ thr'[t].deny = deny /\ thr'[t].todo = thr[t].todo

LEMMA Reloading ==
  ASSUME TypeInv, NEW t \in Threads,
         thr[t].pc \in {"merge rules", "rules", "open rules", "write rules", "restart"}
  PROVE  /\ thr[t].op \in {"reload", "install"} /\ thr[t].deny \in SUBSET Groups
         /\ thr[t].current \in BOOLEAN
         /\ thr[t].pc = "merge rules" => thr[t].todo = <<>>
BY HandlerTyped DEF ThreadOK, Handlers

\* Not back to "merge rules", and on to "open" with files left to write.
LEMMA ReloadMoves ==
  ASSUME TypeInv, NEW t \in Threads,
         thr[t].pc \in {"merge rules", "rules", "open rules", "write rules", "restart"},
         NEW pc \in {"rules", "open rules", "write rules", "restart", "open"},
         pc = "open" => thr[t].todo # <<>>,
         NEW deny \in SUBSET Groups, NEW current \in BOOLEAN,
         thr' = [thr EXCEPT ![t] = [thr[t] EXCEPT !.pc = pc, !.deny = deny, !.current = current]]
  PROVE  Reloads(t, pc, deny) /\ thr'[t].current = current
<1> DEFINE h == [thr[t] EXCEPT !.pc = pc, !.deny = deny, !.current = current]
<1>1. thr[t] \in Handlers(thr[t].todo) /\ thr' = [thr EXCEPT ![t] = h] /\ ThreadOK(thr[t], t)
      /\ thr[t].op \in {"reload", "install"}
  BY HandlerTyped, Reloading
<1>2. /\ h \in Handlers(thr[t].todo) /\ h.todo = thr[t].todo /\ h.op = thr[t].op /\ h.pc = pc
      /\ h.deny = deny /\ h.current = current
  BY <1>1 DEF Handlers, Pcs
<1> HIDE DEF h
<1>3. ThreadOK(h, t)
  BY <1>1, <1>2 DEF ThreadOK
<1> QED BY <1>1, <1>2, <1>3, ThreadMoves DEF Reloads

LEMMA MergeReadFacts ==
  ASSUME TypeInv, NEW t \in Threads, MergeRead(t)
  PROVE  /\ Resting /\ cache' = cache /\ thr[t].pc = "merge rules"
         /\ \/ Moves(t) /\ thr'[t] = Idle
            \/ /\ Reloads(t, "rules", Denied(file[Source(thr[t].op)]))
               /\ thr'[t].current /\ thr'[t].todo = <<>>
<1>1. /\ thr[t].pc = "merge rules" /\ thr[t].todo = <<>> /\ Resting /\ cache' = cache
  BY Reloading DEF MergeRead, Resting
<1> DEFINE copy == file[Source(thr[t].op)]
<1>2. CASE copy.whole
  <2> DEFINE deny == Denied(copy)
  <2>1. deny \in SUBSET Groups
    BY DEF Denied
  <2>2. thr' = [thr EXCEPT ![t] = [thr[t] EXCEPT !.pc = "rules", !.deny = deny, !.current = TRUE]]
    BY <1>2 DEF MergeRead
  <2> HIDE DEF deny
  <2>3. Reloads(t, "rules", deny) /\ thr'[t].current = TRUE
    BY <1>1, <2>1, <2>2, ReloadMoves
  <2> QED BY <1>1, <2>3 DEF deny, Reloads
<1>3. CASE ~ copy.whole
  <2>1. thr' = [thr EXCEPT ![t] = Idle]
    BY <1>3 DEF MergeRead
  <2> QED BY <1>1, <2>1, ThreadMoves, IdleTyped
<1> QED BY <1>2, <1>3

LEMMA ReadRulesFacts ==
  ASSUME TypeInv, NEW t \in Threads, ReadRules(t)
  PROVE  /\ Resting /\ cache' = cache /\ thr[t].pc = "rules"
         /\ Reloads(t, "open rules", thr[t].deny \cup rules) /\ thr'[t].current = thr[t].current
<1>1. /\ thr[t].pc = "rules" /\ thr[t].deny \in SUBSET Groups
      /\ thr[t].current \in BOOLEAN /\ thr[t] \in Handlers(thr[t].todo)
  BY Reloading, HandlerTyped DEF ReadRules
<1>2. thr[t].deny \cup rules \in SUBSET Groups
  BY <1>1 DEF TypeInv, FilesOK
<1>3. thr' = [thr EXCEPT ![t] = [thr[t] EXCEPT !.pc = "open rules", !.deny = thr[t].deny \cup rules,
                                   !.current = thr[t].current]]
      /\ Resting /\ cache' = cache
  BY <1>1, ZenonT(30) DEF ReadRules, Resting, Handlers
<1> QED BY <1>1, <1>2, <1>3, ReloadMoves

LEMMA OpenRulesFacts ==
  ASSUME TypeInv, NEW t \in Threads, OpenRules(t)
  PROVE  /\ rules' = {} /\ UNCHANGED <<file, cache, gateway, ops, faults, synced, unsaved, overlapped>>
         /\ thr[t].pc = "open rules"
         /\ Reloads(t, "write rules", thr[t].deny) /\ thr'[t].current = thr[t].current
<1>1. /\ thr[t].pc = "open rules" /\ thr[t].deny \in SUBSET Groups
      /\ thr[t].current \in BOOLEAN /\ thr[t] \in Handlers(thr[t].todo)
  BY Reloading, HandlerTyped DEF OpenRules
<1>2. thr' = [thr EXCEPT ![t] = [thr[t] EXCEPT !.pc = "write rules", !.deny = thr[t].deny,
                                   !.current = thr[t].current]]
      /\ rules' = {} /\ UNCHANGED <<file, cache, gateway, ops, faults, synced, unsaved, overlapped>>
  BY <1>1 DEF OpenRules, Handlers
<1> QED BY <1>1, <1>2, ReloadMoves

LEMMA WriteRulesFacts ==
  ASSUME TypeInv, NEW t \in Threads, WriteRules(t)
  PROVE  /\ rules' = thr[t].deny /\ rules' \subseteq Groups
         /\ UNCHANGED <<file, cache, gateway, ops, faults, synced, unsaved, overlapped>>
         /\ thr[t].pc = "write rules" /\ thr'[t].current = thr[t].current
         /\ \/ Reloads(t, "restart", thr[t].deny)
            \/ Reloads(t, "open", thr[t].deny) /\ thr[t].todo # <<>>
<1>1. /\ thr[t].pc = "write rules" /\ thr[t].deny \in SUBSET Groups
      /\ thr[t].current \in BOOLEAN /\ thr[t] \in Handlers(thr[t].todo)
  BY Reloading, HandlerTyped DEF WriteRules
<1> DEFINE pc == IF thr[t].todo = <<>> THEN "restart" ELSE "open"
<1>2. thr' = [thr EXCEPT ![t] = [thr[t] EXCEPT !.pc = pc, !.deny = thr[t].deny,
                                   !.current = thr[t].current]]
      /\ rules' = thr[t].deny
      /\ UNCHANGED <<file, cache, gateway, ops, faults, synced, unsaved, overlapped>>
  BY <1>1 DEF WriteRules, Handlers
<1>3. pc = "restart" \/ (pc = "open" /\ thr[t].todo # <<>>)
  OBVIOUS
<1> HIDE DEF pc
<1>6. /\ pc \in {"rules", "open rules", "write rules", "restart", "open"}
      /\ pc = "open" => thr[t].todo # <<>>
      /\ thr[t].pc \in {"merge rules", "rules", "open rules", "write rules", "restart"}
  BY <1>1, <1>3
<1>4. Reloads(t, pc, thr[t].deny) /\ thr'[t].current = thr[t].current
  BY <1>1, <1>2, <1>6, ReloadMoves
<1>5. rules' \subseteq Groups
  BY <1>1, <1>2
<1> QED BY <1>1, <1>2, <1>3, <1>4, <1>5

LEMMA RestartFacts ==
  ASSUME TypeInv, NEW t \in Threads, Restart(t)
  PROVE  /\ Moves(t) /\ thr'[t] = Idle /\ gateway' = rules
         /\ synced' = (IF thr[t].current THEN Source(thr[t].op) ELSE "none")
         /\ synced' \in Files \cup {"none"}
         /\ UNCHANGED <<file, cache, rules, ops, faults, unsaved, overlapped>>
         /\ thr[t].pc = "restart"
<1>1. thr[t].pc = "restart" /\ thr' = [thr EXCEPT ![t] = Idle] /\ gateway' = rules
      /\ synced' = (IF thr[t].current THEN Source(thr[t].op) ELSE "none")
      /\ UNCHANGED <<file, cache, rules, ops, faults, unsaved, overlapped>>
  BY DEF Restart
<1>2. synced' \in Files \cup {"none"}
  BY <1>1 DEF Source, Files
<1> QED BY <1>1, <1>2, ThreadMoves, IdleTyped

LEMMA ReloadFailsFacts ==
  ASSUME TypeInv, ConstantsOK, NEW t \in Threads, ReloadFails(t)
  PROVE  /\ Moves(t) /\ UNCHANGED <<file, cache, rules, gateway, ops, synced, unsaved, overlapped>>
         /\ faults' \in 0 .. MaxFaults /\ thr[t].op \in {"reload", "install"}
         /\ thr'[t].op \in {"none", thr[t].op} /\ thr'[t].pc \in {"idle", "merge rules"}
         /\ ~ thr'[t].current
<1>1. /\ thr[t].op \in {"reload", "install"}
      /\ UNCHANGED <<file, cache, rules, gateway, ops, synced, unsaved, overlapped>>
      /\ t = "gui" => thr[t].op = "reload"
  <2>1. t = "gui" => t \notin Hosts
    BY DEF ConstantsOK
  <2> QED BY <2>1, Reloading, HandlerTyped DEF ReloadFails, ThreadOK
<1>2. faults' \in 0 .. MaxFaults
  <2>1. faults < MaxFaults /\ faults' = faults + 1
    BY DEF ReloadFails
  <2> QED BY <2>1 DEF TypeInv, FilesOK, ConstantsOK
<1> DEFINE h == [Idle EXCEPT !.op = "reload", !.pc = "merge rules"]
<1>3. h \in Handlers(<<>>) /\ h.op = "reload" /\ h.pc = "merge rules" /\ ~ h.current /\ h.todo = <<>>
  <2>1. Idle \in Handlers(<<>>) /\ ~ Idle.current
    BY IdleTyped
  <2> QED BY <2>1, ZenonT(30) DEF Handlers, Ops, Pcs
<1>4. thr' = [thr EXCEPT ![t] = Idle] \/ (t = "gui" /\ thr' = [thr EXCEPT ![t] = h])
  BY DEF ReloadFails
<1> HIDE DEF h
<1>5. ThreadOK(h, t)
  BY <1>3 DEF ThreadOK
<1>6. CASE thr' = [thr EXCEPT ![t] = Idle]
  BY <1>1, <1>2, <1>6, ThreadMoves, IdleTyped
<1>7. CASE t = "gui" /\ thr' = [thr EXCEPT ![t] = h]
  BY <1>1, <1>2, <1>3, <1>5, <1>7, ThreadMoves
<1> QED BY <1>4, <1>6, <1>7

-----------------------------------------------------------------------------
(* Type correctness.                                                       *)

LEMMA PutsFacts ==
  ASSUME TypeInv, NEW t \in Threads, NEW f, NEW copy, NEW h, Puts(t, f, copy, h)
  PROVE  LET threads == [thr EXCEPT ![t] = h] IN
         /\ thr[t].op \in {"save", "edit", "deploy", "preserve", "sync", "install"}
         /\ f \in Files /\ Content(f, copy, threads) /\ copy.access \in Docs
         /\ copy \in {Truncated} \cup {Copy(d) : d \in Docs}
         /\ DOMAIN threads = Threads /\ \A u \in Threads : ThreadOK(threads[u], u)
         /\ threads[t] = h /\ \A u \in Threads \ {t} : threads[u] = thr[u]
<1>1. thr[t].op \in {"save", "edit", "deploy", "preserve", "sync", "install"}
  BY HandlerTyped DEF Puts, ThreadOK
<1> QED BY <1>1 DEF Puts, TypeInv

\* A new content of a file keeps the types, whoever writes it.
LEMMA PutsTyped ==
  ASSUME TypeInv, NEW t \in Threads, NEW f, NEW copy, NEW h, Puts(t, f, copy, h)
  PROVE  TypeInv'
<1> DEFINE threads == [thr EXCEPT ![t] = h]
<1>1. /\ f \in Files /\ Content(f, copy, threads) /\ copy.access \in Docs
      /\ copy \in {Truncated} \cup {Copy(d) : d \in Docs}
      /\ DOMAIN threads = Threads /\ \A u \in Threads : ThreadOK(threads[u], u)
  BY PutsFacts
<1> HIDE DEF threads
<1>2. /\ file' = [file EXCEPT ![f] = copy] /\ unsaved' = unsaved
      /\ synced' \in Files \cup {"none"}
      /\ cache' \in [{"mcp", "gui"} -> [data : Docs, fresh : BOOLEAN]]
      /\ DOMAIN thr' = Threads /\ \A u \in Threads : ThreadOK(thr'[u], u)
  BY <1>1, ContentFacts
<1>3. UNCHANGED <<rules, gateway, ops, faults, overlapped>>
  BY DEF Puts
<1> QED BY <1>1, <1>2, <1>3 DEF TypeInv, FilesOK

LEMMA RestingTyped ==
  ASSUME TypeInv, NEW t \in Threads, Moves(t), Resting,
         cache' \in [{"mcp", "gui"} -> [data : Docs, fresh : BOOLEAN]]
  PROVE  TypeInv'
BY DEF TypeInv, FilesOK, Moves, Resting

LEMMA StartTyped ==
  ASSUME TypeInv, NEW t \in Threads, Starts(t)
  PROVE  TypeInv'
BY DEF TypeInv, FilesOK, Moves, Starts

LEMMA TypeInit == ConstantsOK /\ Init => TypeInv
<1> SUFFICES ASSUME ConstantsOK, Init PROVE TypeInv
  OBVIOUS
<1>1. file \in [Files -> {Truncated} \cup {Copy(d) : d \in Docs}]
  <2>1. {Copy(d) : d \in Documents} \subseteq {Copy(d) : d \in Docs}
    BY DEF ConstantsOK
  <2> QED BY <2>1 DEF Init
<1>2. cache \in [{"mcp", "gui"} -> [data : Docs, fresh : BOOLEAN]]
  <2>1. file["runtime"] \in {Copy(d) : d \in Documents}
    BY DEF Init, Files
  <2>2. file["runtime"].access \in Docs
    BY <2>1 DEF ConstantsOK, Copy
  <2>3. NoGroups \in Docs
    BY DEF NoGroups, Docs
  <2>4. {[data |-> NoGroups, fresh |-> FALSE], [data |-> file["runtime"].access, fresh |-> TRUE]}
          \subseteq [data : Docs, fresh : BOOLEAN]
    BY <2>2, <2>3
  <2> QED BY <2>4 DEF Init
<1>3. DOMAIN thr = Threads /\ \A t \in Threads : ThreadOK(thr[t], t)
  BY IdleTyped DEF Init
<1>4. rules = {} /\ gateway = {} /\ ops = 0 /\ faults = 0
      /\ synced = "none" /\ unsaved = FALSE /\ overlapped = {}
  BY DEF Init
<1>5. ops \in 0 .. MaxOps /\ faults \in 0 .. MaxFaults
  BY <1>4 DEF ConstantsOK
<1> QED BY <1>1, <1>2, <1>3, <1>4, <1>5 DEF TypeInv, FilesOK

LEMMA TypeNext == ConstantsOK /\ TypeInv /\ [Next]_vars => TypeInv'
<1> SUFFICES ASSUME ConstantsOK, TypeInv, [Next]_vars PROVE TypeInv'
  OBVIOUS
<1>1. cache \in [{"mcp", "gui"} -> [data : Docs, fresh : BOOLEAN]]
  BY DEF TypeInv, FilesOK
<1>2. ASSUME NEW updates \in [Groups -> Access], SaveGroups(updates)  PROVE TypeInv'
  <2>1. "gui" \in Threads
    BY DEF Threads
  <2> QED BY <1>2, <2>1, SaveGroupsStarts, StartTyped
<1>3. CASE UpdateGroups
  <2>1. "gui" \in Threads
    BY DEF Threads
  <2> QED BY <1>3, <2>1, UpdateGroupsFacts, RestingTyped
<1>4. CASE Reloaded
  <2>1. "gui" \in Threads /\ Cached("gui") \in [{"mcp", "gui"} -> [data : Docs, fresh : BOOLEAN]]
    BY CachedFacts DEF Threads
  <2> QED BY <1>4, <2>1, ReloadedFacts, RestingTyped
<1>5. ASSUME NEW t \in Threads, Request(t)  PROVE TypeInv'
  BY <1>5, RequestStarts, StartTyped
<1>6. ASSUME NEW t \in Threads, Compile(t) \/ Ask(t) \/ Match(t) \/ SaveChange(t)  PROVE TypeInv'
  <2>1. GoesOn(t)
    BY <1>6, CompileFacts, AskFacts, MatchFacts, SaveChangeFacts
  <2>2. Cached(t) \in [{"mcp", "gui"} -> [data : Docs, fresh : BOOLEAN]]
    BY <2>1, CachedFacts DEF GoesOn
  <2> QED BY <2>1, <2>2, RestingTyped DEF GoesOn
<1>7. ASSUME NEW t \in Threads, Stat(t) \/ Answer(t) \/ MergeAccess(t)  PROVE TypeInv'
  BY <1>1, <1>7, StatFacts, AnswerFacts, MergeAccessFacts, RestingTyped
<1>8. ASSUME NEW t \in Threads, Open(t) \/ Write(t)  PROVE TypeInv'
  BY <1>8, OpenPuts, WritePuts, PutsTyped
<1>9. ASSUME NEW t \in Threads, Fail(t) \/ ReloadFails(t)  PROVE TypeInv'
  BY <1>9, FailFacts, ReloadFailsFacts DEF TypeInv, FilesOK, Moves
<1>10. ASSUME NEW t \in Threads, MergeRead(t) \/ ReadRules(t)  PROVE TypeInv'
  BY <1>1, <1>10, MergeReadFacts, ReadRulesFacts, RestingTyped DEF Reloads
<1>11. ASSUME NEW t \in Threads, OpenRules(t) \/ WriteRules(t)  PROVE TypeInv'
  BY <1>11, OpenRulesFacts, WriteRulesFacts DEF TypeInv, FilesOK, Moves, Reloads
<1>12. ASSUME NEW t \in Threads, Restart(t)  PROVE TypeInv'
  BY <1>12, RestartFacts DEF TypeInv, FilesOK, Moves
<1>13. CASE UNCHANGED vars
  BY <1>13 DEF vars, TypeInv, FilesOK
<1> QED BY <1>2, <1>3, <1>4, <1>5, <1>6, <1>7, <1>8, <1>9, <1>10, <1>11, <1>12, <1>13
     DEF Next, Step

(* Every variable keeps its type: the copies of the policy, the caches of  *)
(* the two containers, the rules and the operations in progress.           *)
THEOREM TypeCorrect == ASSUME ConstantsOK PROVE Spec => []TypeOK
<1>1. TypeInv => TypeOK
  <2> SUFFICES ASSUME TypeInv PROVE TypeOK
    OBVIOUS
  <2>1. \A t \in Threads : thr[t].deny \subseteq Groups /\ thr[t].matched \in Groups \cup {"none"}
    BY HandlerTyped DEF Handlers
  <2>2. \A p \in {"mcp", "gui"} :
          cache[p].data \in [Groups -> Access \cup {"absent"}] /\ cache[p].fresh \in BOOLEAN
    BY DEF TypeInv, FilesOK, Docs
  <2>3. file \in [Files -> {Truncated} \cup {Copy(d) : d \in [Groups -> Access \cup {"absent"}]}]
    BY DEF TypeInv, FilesOK, Docs
  <2>4. /\ rules \subseteq Groups /\ gateway \subseteq Groups
        /\ ops \in 0 .. MaxOps /\ faults \in 0 .. MaxFaults
    BY DEF TypeInv, FilesOK
  <2> QED BY <2>1, <2>2, <2>3, <2>4 DEF TypeOK
<1> QED BY <1>1, TypeInit, TypeNext, PTL DEF Spec

-----------------------------------------------------------------------------
(* The way into the gateway.                                               *)

LEMMA KindsOf ==
  /\ Kinds("none") = {} /\ Kinds("propose") = {} /\ Kinds("reload") = {"rules"}
  /\ Kinds("install") = {"policy", "rules"}
  /\ \A op \in {"save", "edit", "deploy", "preserve", "sync"} : Kinds(op) = {"policy"}
BY DEF Kinds

LEMMA AloneKept ==
  ASSUME Alone, NEW t \in Threads, Moves(t), overlapped' = overlapped,
         thr'[t].op \in {thr[t].op, "none"}
  PROVE  Alone'
<1>1. \A u \in Threads : Kinds(thr'[u].op) \subseteq Kinds(thr[u].op)
  BY KindsOf DEF Moves
<1> QED BY <1>1 DEF Alone

\* A step that is none of a reload's, or ends it.
LEMMA QuietRollout ==
  ASSUME TypeInv, RolloutInv, NEW t \in Threads, Moves(t),
         UNCHANGED <<file, rules, gateway, synced, overlapped>>,
         thr'[t].op \in {thr[t].op, "none"}, ~ thr'[t].current, thr'[t].pc # "restart"
  PROVE  RolloutInv'
<1>1. Alone'
  BY AloneKept DEF RolloutInv
<1>2. ReloadOK'
  BY DEF RolloutInv, ReloadOK, Moves
<1>3. DenyEnforced'
  BY DEF RolloutInv, DenyEnforced
<1> QED BY <1>1, <1>2, <1>3 DEF RolloutInv

LEMMA QuietMerge ==
  ASSUME MergeOK, NEW t \in Threads, Moves(t), file' = file, overlapped \subseteq overlapped',
         ~ (thr'[t].op = "preserve" /\ thr'[t].pc = "open")
  PROVE  MergeOK'
BY DEF MergeOK, Moves

LEMMA NotReloading ==
  ASSUME TypeInv, ReloadOK, NEW t \in Threads,
         thr[t].op \notin {"reload", "install"} \/ thr[t].pc \in {"open", "write"}
  PROVE  ~ thr[t].current
BY HandlerTyped DEF ReloadOK, ThreadOK

LEMMA StartRollout ==
  ASSUME TypeInv, RolloutInv, MergeOK, NEW t \in Threads, Starts(t), thr'[t].pc # "restart",
         ~ (thr'[t].op = "preserve" /\ thr'[t].pc = "open")
  PROVE  RolloutInv' /\ MergeOK'
<1>1. /\ Moves(t) /\ UNCHANGED <<file, rules, gateway, synced>> /\ overlapped \subseteq overlapped'
      /\ ~ thr'[t].current
      /\ \A kind \in Kinds(thr'[t].op), u \in Threads :
           kind \notin overlapped' => kind \notin Kinds(thr[u].op)
  BY DEF Starts
<1>2. Alone'
  BY <1>1 DEF RolloutInv, Alone, Moves
<1>3. ReloadOK'
  BY <1>1 DEF RolloutInv, ReloadOK, Moves
<1>4. DenyEnforced'
  BY <1>1 DEF RolloutInv, DenyEnforced
<1> QED BY <1>1, <1>2, <1>3, <1>4, QuietMerge DEF RolloutInv

LEMMA PutsRollout ==
  ASSUME TypeInv, RolloutInv, MergeOK, NEW t \in Threads, NEW f, NEW copy, NEW h,
         Puts(t, f, copy, h)
  PROVE  RolloutInv' /\ MergeOK'
<1> DEFINE threads == [thr EXCEPT ![t] = h]
<1>1. /\ f \in Files /\ Content(f, copy, threads) /\ copy.access \in Docs
      /\ copy \in {Truncated} \cup {Copy(d) : d \in Docs}
      /\ DOMAIN threads = Threads /\ \A u \in Threads : ThreadOK(threads[u], u)
      /\ threads[t] = h /\ \A u \in Threads \ {t} : threads[u] = thr[u]
      /\ thr[t].op \in {"save", "edit", "deploy", "preserve", "sync", "install"}
  BY PutsFacts
<1>2. /\ h.op \in {thr[t].op, "none"} /\ (h.current => thr[t].current) /\ h.pc # "restart"
      /\ ~ (h.op = "preserve" /\ h.pc = "open") /\ thr[t].pc \in {"open", "write"}
      /\ rules' = rules /\ gateway' = gateway /\ overlapped' = overlapped
  BY DEF Puts
<1>3. ~ h.current
  BY <1>1, <1>2, NotReloading DEF RolloutInv
<1> HIDE DEF threads
<1>4. /\ file' = [file EXCEPT ![f] = copy]
      /\ synced' \in Files \cup {"none"} /\ synced' \in {synced, "none"} /\ synced' # f
      /\ \A u \in Threads :
           /\ thr'[u].op = threads[u].op /\ thr'[u].pc = threads[u].pc
           /\ thr'[u].todo = threads[u].todo /\ thr'[u].doc = threads[u].doc
           /\ thr'[u].deny = threads[u].deny
           /\ thr'[u].current => threads[u].current /\ Source(threads[u].op) # f
  BY <1>1, ContentFacts
<1>5. \A other \in Files : other # f => file'[other] = file[other]
  BY <1>4 DEF TypeInv, FilesOK
<1>6. Alone'
  <2>1. \A u \in Threads : Kinds(thr'[u].op) \subseteq Kinds(thr[u].op)
    BY <1>1, <1>2, <1>4, KindsOf
  <2> QED BY <1>2, <2>1 DEF RolloutInv, Alone
<1>7. ReloadOK'
  <2>1. ASSUME NEW u \in Threads, thr'[u].current
        PROVE  /\ thr'[u].pc \in {"rules", "open rules", "write rules", "restart"}
               /\ thr'[u].todo = <<>>
               /\ Denied(file'[Source(thr'[u].op)]) \subseteq thr'[u].deny
    <3>1. threads[u].current /\ Source(threads[u].op) # f
      BY <1>4, <2>1
    <3>2. u # t
      BY <1>1, <1>3, <3>1
    <3>3. /\ thr[u].current /\ Source(thr[u].op) # f /\ thr'[u].pc = thr[u].pc
          /\ thr'[u].deny = thr[u].deny /\ thr'[u].todo = thr[u].todo /\ thr'[u].op = thr[u].op
      BY <1>1, <1>4, <3>1, <3>2
    <3>4. Source(thr[u].op) \in Files
      BY DEF Source, Files
    <3>5. file'[Source(thr[u].op)] = file[Source(thr[u].op)]
      BY <1>5, <3>3, <3>4
    <3> QED BY <3>3, <3>5 DEF RolloutInv, ReloadOK
  <2>2. ASSUME NEW u \in Threads, "rules" \notin overlapped', thr'[u].pc = "restart"
        PROVE  rules' = thr'[u].deny
    <3>1. threads[u].pc = "restart" /\ thr'[u].deny = threads[u].deny
      BY <1>4, <2>2
    <3>2. u # t
      BY <1>1, <1>2, <3>1
    <3>3. thr[u].pc = "restart" /\ thr'[u].deny = thr[u].deny
      BY <1>1, <3>1, <3>2
    <3> QED BY <1>2, <2>2, <3>3 DEF RolloutInv, ReloadOK
  <2> QED BY <2>1, <2>2 DEF ReloadOK
<1>8. DenyEnforced'
  <2>1. ASSUME synced' # "none", "rules" \notin overlapped'
        PROVE  Denied(file'[synced']) \subseteq gateway'
    <3>1. synced' = synced /\ synced \in Files /\ file'[synced] = file[synced]
      BY <1>4, <1>5, <2>1
    <3> QED BY <1>2, <2>1, <3>1 DEF RolloutInv, DenyEnforced
  <2> QED BY <2>1 DEF DenyEnforced
<1>9. MergeOK'
  <2>1. ASSUME NEW u \in Threads, "policy" \notin overlapped',
               thr'[u].op = "preserve", thr'[u].pc = "open"
        PROVE  FALSE
    <3>1. u # t
      BY <1>1, <1>2, <1>4, <2>1
    <3>2. thr[u].op = "preserve"
      BY <1>1, <1>4, <2>1, <3>1
    <3>3. "policy" \in Kinds(thr[t].op) /\ "policy" \in Kinds(thr[u].op)
      BY <1>1, <3>2, KindsOf
    <3> QED BY <1>2, <2>1, <3>1, <3>3 DEF RolloutInv, Alone
  <2> QED BY <2>1 DEF MergeOK
<1> QED BY <1>6, <1>7, <1>8, <1>9 DEF RolloutInv

\* The steps that leave the policy and the rules alone.
LEMMA QuietSteps ==
  ASSUME ConstantsOK, TypeInv, RolloutInv, MergeOK, NEW t \in Threads,
         \/ Stat(t) \/ Compile(t) \/ Ask(t) \/ Match(t) \/ SaveChange(t) \/ Answer(t)
         \/ t = "gui" /\ (UpdateGroups \/ Reloaded)
         \/ MergeAccess(t) \/ Fail(t) \/ ReloadFails(t)
  PROVE  RolloutInv' /\ MergeOK'
<1>1. ReloadOK
  BY DEF RolloutInv
<1>2. CASE Compile(t) \/ Ask(t) \/ Match(t) \/ SaveChange(t)
  <2>1. GoesOn(t) /\ thr'[t].pc # "restart"
    BY <1>2, CompileFacts, AskFacts, MatchFacts, SaveChangeFacts
  <2>2. ~ thr'[t].current
    BY <1>1, <2>1, NotReloading DEF GoesOn
  <2> QED BY <2>1, <2>2, QuietRollout, QuietMerge DEF GoesOn, Resting
<1>3. CASE Stat(t)
  <2>1. /\ Moves(t) /\ Resting /\ thr'[t].op = thr[t].op /\ thr'[t].pc = thr[t].pc
        /\ thr'[t].current = thr[t].current /\ thr[t].op \in {"propose", "save"}
    BY <1>3, StatFacts
  <2>2. ~ thr'[t].current /\ thr'[t].pc # "restart"
    BY <1>1, <2>1, NotReloading, HandlerTyped DEF ThreadOK
  <2> QED BY <2>1, <2>2, QuietRollout, QuietMerge DEF Resting
<1>4. CASE Answer(t)
  BY <1>4, AnswerFacts, IdleTyped, QuietRollout, QuietMerge DEF Resting
<1>5. CASE t = "gui" /\ UpdateGroups
  <2>1. /\ Moves(t) /\ Resting /\ thr[t].op = "save" /\ thr'[t].op = "save" /\ thr'[t].pc = "open"
        /\ thr'[t].current = thr[t].current
    BY <1>5, UpdateGroupsFacts
  <2>2. ~ thr'[t].current
    BY <1>1, <2>1, NotReloading
  <2> QED BY <2>1, <2>2, QuietRollout, QuietMerge DEF Resting
<1>6. CASE t = "gui" /\ Reloaded
  BY <1>6, ReloadedFacts, QuietRollout, QuietMerge DEF Resting
<1>7. CASE MergeAccess(t)
  <2>1. /\ Moves(t) /\ Resting /\ thr[t].op = "preserve" /\ thr'[t].op = "preserve"
        /\ thr'[t].pc = "open" /\ thr'[t].current = thr[t].current /\ thr'[t].todo = thr[t].todo
        /\ \A g \in Groups :
             LET there == file[Head(thr[t].todo)].access[g] IN
             there # "absent" /\ thr'[t].doc[g] # "absent" => thr'[t].doc[g] = there
    BY <1>7, MergeAccessFacts
  <2>2. ~ thr'[t].current
    BY <1>1, <2>1, NotReloading
  <2>3. RolloutInv'
    BY <2>1, <2>2, QuietRollout DEF Resting
  <2>4. ASSUME "policy" \notin overlapped', NEW u \in Threads, thr'[u].op = "preserve", thr'[u].pc = "open",
               NEW g \in Groups,
               file'[Head(thr'[u].todo)].access[g] # "absent", thr'[u].doc[g] # "absent"
        PROVE  thr'[u].doc[g] = file'[Head(thr'[u].todo)].access[g]
    <3>1. CASE u = t
      BY <2>1, <2>4, <3>1 DEF Resting
    <3>2. CASE u # t
      BY <2>1, <2>4, <3>2 DEF Resting, Moves, MergeOK
    <3> QED BY <3>1, <3>2
  <2> QED BY <2>3, <2>4 DEF MergeOK
<1>8. CASE Fail(t)
  BY <1>8, FailFacts, IdleTyped, QuietRollout, QuietMerge
<1>9. CASE ReloadFails(t)
  <2>1. /\ Moves(t) /\ UNCHANGED <<file, rules, gateway, synced, overlapped>>
        /\ thr'[t].op \in {thr[t].op, "none"} /\ thr'[t].op # "preserve"
        /\ ~ thr'[t].current /\ thr'[t].pc # "restart"
    BY <1>9, ReloadFailsFacts
  <2> QED BY <2>1, QuietRollout, QuietMerge
<1> QED BY <1>2, <1>3, <1>4, <1>5, <1>6, <1>7, <1>8, <1>9

\* A step of one thread that leaves the files alone, and is not done with the rules.
LEMMA ReloadKept ==
  ASSUME ReloadOK, NEW t \in Threads, Moves(t), UNCHANGED <<file, rules, overlapped>>,
         thr'[t].pc # "restart",
         thr'[t].current =>
           /\ thr'[t].pc \in {"rules", "open rules", "write rules", "restart"}
           /\ thr'[t].todo = <<>>
           /\ Denied(file[Source(thr'[t].op)]) \subseteq thr'[t].deny
  PROVE  ReloadOK'
<1>1. ASSUME NEW u \in Threads, thr'[u].current
      PROVE  /\ thr'[u].pc \in {"rules", "open rules", "write rules", "restart"}
             /\ thr'[u].todo = <<>>
             /\ Denied(file'[Source(thr'[u].op)]) \subseteq thr'[u].deny
  <2>1. CASE u = t
    BY <1>1, <2>1
  <2>2. CASE u # t
    <3>1. thr'[u] = thr[u]
      BY <2>2 DEF Moves
    <3> QED BY <1>1, <3>1 DEF ReloadOK
  <2> QED BY <2>1, <2>2
<1>2. ASSUME NEW u \in Threads, "rules" \notin overlapped', thr'[u].pc = "restart"
      PROVE  rules' = thr'[u].deny
  BY <1>2 DEF ReloadOK, Moves
<1> QED BY <1>1, <1>2 DEF ReloadOK

\* A step of a reload changes no policy file.
LEMMA ReloadSteps ==
  ASSUME TypeInv, RolloutInv, MergeOK, NEW t \in Threads,
         MergeRead(t) \/ ReadRules(t) \/ OpenRules(t) \/ WriteRules(t) \/ Restart(t)
  PROVE  RolloutInv' /\ MergeOK'
<1>1. CASE MergeRead(t)
  <2>1. Resting /\ \/ Moves(t) /\ thr'[t] = Idle
                   \/ /\ Reloads(t, "rules", Denied(file[Source(thr[t].op)]))
                      /\ thr'[t].current /\ thr'[t].todo = <<>>
    BY <1>1, MergeReadFacts
  <2>2. CASE Moves(t) /\ thr'[t] = Idle
    BY <2>1, <2>2, IdleTyped, QuietRollout, QuietMerge DEF Resting
  <2>3. CASE /\ Reloads(t, "rules", Denied(file[Source(thr[t].op)]))
             /\ thr'[t].current /\ thr'[t].todo = <<>>
    <3>1. Alone'
      BY <2>1, <2>3, AloneKept DEF RolloutInv, Reloads, Resting
    <3>2. ReloadOK'
      BY <2>1, <2>3, ReloadKept DEF RolloutInv, Reloads, Resting
    <3>3. DenyEnforced'
      BY <2>1 DEF RolloutInv, DenyEnforced, Resting
    <3> QED BY <2>1, <2>3, <3>1, <3>2, <3>3, QuietMerge DEF RolloutInv, Reloads, Resting
  <2> QED BY <2>1, <2>2, <2>3
<1>2. CASE ReadRules(t)
  <2>1. /\ Resting /\ thr[t].pc = "rules" /\ thr'[t].current = thr[t].current
        /\ Reloads(t, "open rules", thr[t].deny \cup rules)
    BY <1>2, ReadRulesFacts
  <2>2. Alone'
    BY <2>1, AloneKept DEF RolloutInv, Reloads, Resting
  <2>3. ReloadOK'
    <3>1. /\ Moves(t) /\ thr'[t].pc = "open rules" /\ thr'[t].deny = thr[t].deny \cup rules
          /\ thr'[t].op = thr[t].op /\ thr'[t].todo = thr[t].todo
          /\ UNCHANGED <<file, rules, overlapped>>
      BY <2>1 DEF Reloads, Resting
    <3>2. thr[t].current =>
            thr[t].todo = <<>> /\ Denied(file[Source(thr[t].op)]) \subseteq thr[t].deny
      BY DEF RolloutInv, ReloadOK
    <3> QED BY <2>1, <3>1, <3>2, ReloadKept DEF RolloutInv
  <2>4. DenyEnforced'
    BY <2>1 DEF RolloutInv, DenyEnforced, Resting
  <2> QED BY <2>1, <2>2, <2>3, <2>4, QuietMerge DEF RolloutInv, Reloads, Resting
<1>3. CASE OpenRules(t) \/ WriteRules(t)
  <2>1. /\ UNCHANGED <<file, gateway, synced, overlapped>> /\ thr'[t].current = thr[t].current
        /\ \/ Reloads(t, "write rules", thr[t].deny)
           \/ Reloads(t, "restart", thr[t].deny) /\ rules' = thr[t].deny
           \/ Reloads(t, "open", thr[t].deny) /\ thr[t].todo # <<>>
        /\ thr[t].pc \in {"open rules", "write rules"}
    BY <1>3, OpenRulesFacts, WriteRulesFacts
  <2>2. /\ Moves(t) /\ thr[t].op \in {"reload", "install"} /\ thr'[t].op = thr[t].op
        /\ thr'[t].deny = thr[t].deny /\ thr'[t].todo = thr[t].todo
        /\ \/ thr'[t].pc = "write rules"
           \/ thr'[t].pc = "restart" /\ rules' = thr[t].deny
           \/ thr'[t].pc = "open" /\ thr[t].todo # <<>>
    BY <2>1 DEF Reloads
  <2>3. Alone'
    BY <2>1, <2>2, AloneKept DEF RolloutInv
  <2>4. ASSUME NEW u \in Threads, thr'[u].current
        PROVE  /\ thr'[u].pc \in {"rules", "open rules", "write rules", "restart"}
               /\ thr'[u].todo = <<>>
               /\ Denied(file'[Source(thr'[u].op)]) \subseteq thr'[u].deny
    <3>1. thr[u].current /\ thr'[u].op = thr[u].op /\ thr'[u].deny = thr[u].deny
          /\ thr'[u].todo = thr[u].todo
      BY <2>1, <2>2, <2>4 DEF Moves
    <3>2. /\ thr[u].todo = <<>> /\ Denied(file[Source(thr[u].op)]) \subseteq thr[u].deny
          /\ thr[u].pc \in {"rules", "open rules", "write rules", "restart"}
      BY <3>1 DEF RolloutInv, ReloadOK
    <3> QED BY <2>1, <2>2, <3>1, <3>2 DEF Moves
  <2>5. ASSUME NEW u \in Threads, "rules" \notin overlapped', thr'[u].pc = "restart"
        PROVE  rules' = thr'[u].deny
    <3>1. CASE u # t
      <4>1. thr[u].op \in {"reload", "install"}
        BY <2>2, <2>5, <3>1, Reloading DEF Moves
      <4>2. "rules" \in Kinds(thr[t].op) /\ "rules" \in Kinds(thr[u].op)
        BY <2>2, <4>1, KindsOf
      <4> QED BY <2>1, <2>5, <3>1, <4>2 DEF RolloutInv, Alone
    <3> QED BY <2>2, <2>5, <3>1
  <2>6. ReloadOK'
    BY <2>4, <2>5 DEF ReloadOK
  <2>7. DenyEnforced'
    BY <2>1 DEF RolloutInv, DenyEnforced
  <2>8. ~ (thr'[t].op = "preserve" /\ thr'[t].pc = "open")
    BY <2>2
  <2> QED BY <2>1, <2>2, <2>3, <2>6, <2>7, <2>8, QuietMerge DEF RolloutInv
<1>4. CASE Restart(t)
  <2>1. /\ Moves(t) /\ thr'[t] = Idle /\ gateway' = rules
        /\ synced' = (IF thr[t].current THEN Source(thr[t].op) ELSE "none")
        /\ UNCHANGED <<file, rules, overlapped>> /\ thr[t].pc = "restart"
    BY <1>4, RestartFacts
  <2>2. Alone'
    BY <2>1, AloneKept, IdleTyped DEF RolloutInv
  <2>3. ReloadOK'
    BY <2>1, IdleTyped, ZenonT(30) DEF RolloutInv, ReloadOK, Moves
  <2>4. DenyEnforced'
    BY <2>1 DEF RolloutInv, ReloadOK, DenyEnforced
  <2> QED BY <2>1, <2>2, <2>3, <2>4, IdleTyped, QuietMerge DEF RolloutInv
<1> QED BY <1>1, <1>2, <1>3, <1>4

-----------------------------------------------------------------------------
(* What a proposal goes by.                                                *)

\* A step that is no proposal's and leaves the policy and the caches alone.
LEMMA QuietProposals ==
  ASSUME ProposalInv, NEW t \in Threads, Moves(t), UNCHANGED <<file, cache>>,
         unsaved => unsaved', thr'[t].op # "propose",
         t # "gui" \/ unsaved' \/ ~ (thr[t].op = "save" /\ thr[t].pc = "open")
  PROVE  ProposalInv'
<1>1. CacheOK'
  BY DEF ProposalInv, CacheOK, Ahead, Moves, Threads
<1>2. SeenOK'
  BY DEF ProposalInv, SeenOK, Moves
<1>3. ASSUME NEW u \in Threads, thr'[u].op = "propose", ~ (u = "gui" /\ unsaved')
      PROVE  thr'[u] = thr[u] /\ ~ (u = "gui" /\ unsaved)
  BY <1>3 DEF Moves
<1>4. AnswersOK'
  BY <1>3 DEF ProposalInv, AnswersOK
<1> QED BY <1>1, <1>2, <1>4 DEF ProposalInv

\* What a proposal reads is what the file says, and it has seen it.
LEMMA DataSeen ==
  ASSUME TypeInv, CacheOK, SeenOK, NEW t \in {"mcp", "gui"}, thr[t].op = "propose",
         ~ (t = "gui" /\ unsaved), NEW g \in Groups
  PROVE  Data(t)[g] \in thr[t].seen[g]
<1>1. t \in Threads
  BY DEF Threads
<1>2. cache[t].fresh => cache[t].data = file["runtime"].access
  BY DEF CacheOK, Ahead
<1> QED BY <1>1, <1>2 DEF Data, SeenOK

LEMMA CachedOK ==
  ASSUME TypeInv, CacheOK, NEW t \in {"mcp", "gui"}, ~ Ahead(t), Cached(t)[t].fresh
  PROVE  Cached(t)[t].data = file["runtime"].access
<1>1. Cached(t)[t].data = Data(t)
  BY CachedFacts
<1> QED BY <1>1 DEF Data, CacheOK

\* One step of a proposal, whose answers are checked at the call.
LEMMA ProposalGoesOn ==
  ASSUME TypeInv, ProposalInv, NEW t \in Threads, GoesOn(t),
         ~ (t = "gui" /\ unsaved) =>
           /\ thr'[t].pc \in {"ask", "match", "engine", "saved"} =>
                \A g \in Groups : thr'[t].doc[g] \notin {"absent", "deny"}
                                    => thr'[t].seen[g] \ {"deny"} # {}
           /\ thr'[t].pc \in {"engine", "saved"} =>
                thr'[t].matched \in Groups /\ thr'[t].doc[thr'[t].matched] \notin {"absent", "deny"}
           /\ thr'[t].pc = "saved" /\ thr'[t].result = "approved"
                => "allow" \in thr'[t].seen[thr'[t].matched]
  PROVE  ProposalInv'
<1>1. /\ t \in {"mcp", "gui"} /\ Moves(t) /\ file' = file /\ unsaved' = unsaved
      /\ cache' = Cached(t) /\ thr[t].op = "propose" /\ thr'[t].op = "propose"
      /\ thr'[t].seen = thr[t].seen
  BY DEF GoesOn, Resting
<1>2. ASSUME NEW p \in {"mcp", "gui"}, cache'[p].fresh,
             ~ (p = "gui" /\ (unsaved' \/ (thr'["gui"].op = "save" /\ thr'["gui"].pc = "open")))
      PROVE  cache'[p].data = file'["runtime"].access
  <2>1. ~ Ahead(p)
    BY <1>1, <1>2 DEF Ahead, Moves, Threads
  <2>2. CASE p = t
    BY <1>1, <1>2, <2>1, <2>2, CachedOK DEF ProposalInv
  <2>3. CASE p # t
    <3>1. cache'[p] = cache[p]
      BY <1>1, <2>3, CachedFacts
    <3> QED BY <1>1, <1>2, <2>1, <3>1 DEF ProposalInv, CacheOK
  <2> QED BY <2>2, <2>3
<1>3. CacheOK'
  BY <1>2 DEF CacheOK, Ahead
<1>4. SeenOK'
  BY <1>1 DEF ProposalInv, SeenOK, Moves
<1>5. AnswersOK'
  BY <1>1 DEF ProposalInv, AnswersOK, Moves
<1> QED BY <1>3, <1>4, <1>5 DEF ProposalInv

LEMMA ProposalSteps ==
  ASSUME ConstantsOK, TypeInv, ProposalInv, NEW t \in Threads,
         Compile(t) \/ Ask(t) \/ Match(t) \/ SaveChange(t)
  PROVE  ProposalInv'
<1>1. GoesOn(t)
  BY CompileFacts, AskFacts, MatchFacts, SaveChangeFacts
<1>2. t \in {"mcp", "gui"} /\ thr[t].op = "propose" /\ thr'[t].seen = thr[t].seen
  BY <1>1 DEF GoesOn
<1>3. CacheOK /\ SeenOK /\ AnswersOK
  BY DEF ProposalInv
<1>4. ASSUME ~ (t = "gui" /\ unsaved), NEW g \in Groups
      PROVE  /\ Data(t)[g] \in thr[t].seen[g]
             /\ AccessOf(Data(t), g) # "deny" => thr[t].seen[g] \ {"deny"} # {}
             /\ AccessOf(Data(t), g) = "allow" => "allow" \in thr[t].seen[g]
  <2>1. Data(t)[g] \in thr[t].seen[g]
    BY <1>2, <1>3, <1>4, DataSeen
  <2> QED BY <2>1 DEF AccessOf
<1>5. CASE Compile(t)
  <2>1. thr'[t].doc = Data(t) /\ thr'[t].pc \in {"ask", "refused"}
    BY <1>5, CompileFacts
  <2> QED BY <1>1, <1>2, <1>4, <2>1, ProposalGoesOn
<1>6. CASE Ask(t)
  <2>1. /\ thr[t].pc = "ask" /\ thr'[t].pc \in {"ask", "match"}
        /\ \A g \in Groups : thr'[t].doc[g] \in {thr[t].doc[g], AccessOf(Data(t), g)}
    BY <1>6, AskFacts
  <2>2. ASSUME ~ (t = "gui" /\ unsaved), NEW g \in Groups, thr'[t].doc[g] \notin {"absent", "deny"}
        PROVE  thr'[t].seen[g] \ {"deny"} # {}
    BY <1>2, <1>3, <1>4, <2>1, <2>2 DEF AnswersOK
  <2> QED BY <1>1, <2>1, <2>2, ProposalGoesOn
<1>7. CASE Match(t)
  <2>1. /\ thr[t].pc = "match" /\ thr'[t].doc = thr[t].doc
        /\ \/ thr'[t].pc = "refused"
           \/ /\ thr'[t].pc = "engine" /\ thr'[t].matched \in Groups
              /\ thr[t].doc[thr'[t].matched] \notin {"absent", "deny"}
    BY <1>7, MatchFacts
  <2> QED BY <1>1, <1>2, <1>3, <2>1, ProposalGoesOn DEF AnswersOK
<1>8. CASE SaveChange(t)
  <2>1. /\ thr[t].pc = "engine" /\ thr'[t].pc = "saved" /\ thr'[t].doc = thr[t].doc
        /\ thr'[t].matched = thr[t].matched
        /\ thr'[t].result = "approved" => GroupAccess(t) = "allow"
    BY <1>8, SaveChangeFacts
  <2>2. ASSUME ~ (t = "gui" /\ unsaved), thr'[t].result = "approved"
        PROVE  "allow" \in thr'[t].seen[thr'[t].matched]
    <3>1. thr[t].matched \in Groups /\ AccessOf(Data(t), thr[t].matched) = "allow"
      BY <1>2, <1>3, <2>1, <2>2 DEF AnswersOK, GroupAccess
    <3> QED BY <1>2, <1>4, <2>1, <2>2, <3>1
  <2> QED BY <1>1, <1>2, <1>3, <2>1, <2>2, ProposalGoesOn DEF AnswersOK
<1> QED BY <1>5, <1>6, <1>7, <1>8

\* A look at the time of the file, and the loads of a save.
LEMMA LoadingSteps ==
  ASSUME ConstantsOK, TypeInv, ProposalInv
  PROVE  /\ \A t \in Threads : Stat(t) => ProposalInv'
         /\ UpdateGroups \/ Reloaded => ProposalInv'
<1>1. ASSUME NEW t \in Threads, Stat(t)  PROVE ProposalInv'
  <2>1. /\ Moves(t) /\ file' = file /\ cache' = cache /\ unsaved' = unsaved
        /\ thr'[t].op = thr[t].op /\ thr'[t].pc = thr[t].pc /\ thr'[t].doc = thr[t].doc
        /\ thr'[t].matched = thr[t].matched
        /\ thr'[t].result = thr[t].result /\ thr'[t].seen = thr[t].seen
    BY <1>1, StatFacts DEF Resting
  <2>2. CacheOK'
    <3>1. thr'["gui"].op = thr["gui"].op /\ thr'["gui"].pc = thr["gui"].pc
      BY <2>1 DEF Moves, Threads
    <3> QED BY <2>1, <3>1 DEF ProposalInv, CacheOK, Ahead
  <2>3. SeenOK'
    BY <2>1 DEF ProposalInv, SeenOK, Moves
  <2>4. AnswersOK'
    <3>1. \A u \in Threads :
            /\ thr'[u].op = thr[u].op /\ thr'[u].pc = thr[u].pc /\ thr'[u].doc = thr[u].doc
            /\ thr'[u].matched = thr[u].matched
            /\ thr'[u].result = thr[u].result /\ thr'[u].seen = thr[u].seen
      BY <2>1 DEF Moves
    <3> QED BY <2>1, <3>1 DEF ProposalInv, AnswersOK
  <2> QED BY <2>2, <2>3, <2>4 DEF ProposalInv
<1>2. ASSUME UpdateGroups \/ Reloaded  PROVE ProposalInv'
  <2>1. /\ Moves("gui") /\ file' = file /\ unsaved' = unsaved /\ thr'["gui"].op # "propose"
        /\ "gui" \in Threads /\ "mcp" \in Threads
    BY <1>2, UpdateGroupsFacts, ReloadedFacts DEF Resting, Threads
  <2>2. CacheOK'
    <3>1. cache'["mcp"] = cache["mcp"]
      BY <1>2, UpdateGroupsFacts, ReloadedFacts, CachedFacts
    <3>2. cache'["mcp"].fresh => cache'["mcp"].data = file'["runtime"].access
      BY <2>1, <3>1 DEF ProposalInv, CacheOK, Ahead
    <3>3. CASE UpdateGroups
      <4>1. thr'["gui"].op = "save" /\ thr'["gui"].pc = "open"
        BY <3>3, UpdateGroupsFacts
      <4> QED BY <3>2, <4>1 DEF CacheOK, Ahead
    <3>4. CASE Reloaded
      <4>1. cache' = Cached("gui") /\ thr["gui"].pc = "again"
        BY <3>4, ReloadedFacts
      <4>2. ASSUME ~ unsaved, cache'["gui"].fresh
            PROVE  cache'["gui"].data = file'["runtime"].access
        BY <2>1, <4>1, <4>2, CachedOK DEF ProposalInv, Ahead
      <4> QED BY <2>1, <3>2, <4>2 DEF CacheOK, Ahead
    <3> QED BY <1>2, <3>3, <3>4
  <2>3. SeenOK'
    BY <2>1 DEF ProposalInv, SeenOK, Moves
  <2>4. AnswersOK'
    BY <2>1 DEF ProposalInv, AnswersOK, Moves
  <2> QED BY <2>2, <2>3, <2>4 DEF ProposalInv
<1> QED BY <1>1, <1>2

LEMMA StartProposals ==
  ASSUME TypeInv, ProposalInv, NEW t \in Threads, Starts(t),
         \/ thr'[t].op # "propose"
         \/ /\ thr'[t].pc = "document"
            /\ \A g \in Groups : file["runtime"].access[g] \in thr'[t].seen[g]
  PROVE  ProposalInv'
<1>1. /\ Moves(t) /\ thr[t].op = "none" /\ file' = file /\ cache' = cache /\ unsaved' = unsaved
  BY IdleTyped DEF Starts
<1>2. CASE thr'[t].op # "propose"
  BY <1>1, <1>2, QuietProposals
<1>3. CASE /\ thr'[t].op = "propose" /\ thr'[t].pc = "document"
           /\ \A g \in Groups : file["runtime"].access[g] \in thr'[t].seen[g]
  <2>1. CacheOK'
    BY <1>1, <1>3 DEF ProposalInv, CacheOK, Ahead, Moves, Threads
  <2>2. SeenOK'
    BY <1>1, <1>3 DEF ProposalInv, SeenOK, Moves
  <2>3. AnswersOK'
    BY <1>1, <1>3 DEF ProposalInv, AnswersOK, Moves
  <2> QED BY <2>1, <2>2, <2>3 DEF ProposalInv
<1> QED BY <1>2, <1>3

\* A new content of a file makes every cache old, and is seen.
LEMMA PutsProposals ==
  ASSUME TypeInv, ProposalInv, NEW t \in Threads, NEW f, NEW copy, NEW h, Puts(t, f, copy, h)
  PROVE  ProposalInv'
<1> DEFINE threads == [thr EXCEPT ![t] = h]
<1>1. /\ f \in Files /\ Content(f, copy, threads) /\ copy.access \in Docs
      /\ copy \in {Truncated} \cup {Copy(d) : d \in Docs}
      /\ DOMAIN threads = Threads /\ \A u \in Threads : ThreadOK(threads[u], u)
      /\ threads[t] = h /\ \A u \in Threads \ {t} : threads[u] = thr[u]
      /\ thr[t].op \in {"save", "edit", "deploy", "preserve", "sync", "install"}
  BY PutsFacts
<1>2. h.op # "propose" /\ f = Head(thr[t].todo) /\ thr[t].pc \in {"open", "write"}
  BY DEF Puts
<1>3. thr[t].op = "save" => f = "runtime"
  <2>1. thr[t].op = "save" => thr[t].todo = <<"runtime">>
    BY <1>2, HandlerTyped DEF ThreadOK
  <2> QED BY <1>2, <2>1
<1> HIDE DEF threads
<1>4. /\ file' = [file EXCEPT ![f] = copy] /\ unsaved' = unsaved
      /\ \A u \in Threads :
           /\ thr'[u].op = threads[u].op /\ thr'[u].pc = threads[u].pc
           /\ thr'[u].doc = threads[u].doc /\ thr'[u].matched = threads[u].matched
           /\ thr'[u].result = threads[u].result
      /\ \A p \in {"mcp", "gui"} : cache'[p].data = cache[p].data
      /\ f # "runtime" =>
           /\ \A p \in {"mcp", "gui"} : cache'[p].fresh = cache[p].fresh
           /\ \A u \in Threads, g \in Groups : thr'[u].seen[g] = threads[u].seen[g]
      /\ f = "runtime" =>
           /\ \A p \in {"mcp", "gui"} : ~ cache'[p].fresh
           /\ \A u \in Threads : threads[u].op = "propose" =>
                \A g \in Groups : thr'[u].seen[g] = threads[u].seen[g] \cup {copy.access[g]}
  BY <1>1, ContentFacts
<1>5. CASE f = "runtime"
  <2>1. file'["runtime"] = copy
    BY <1>4, <1>5 DEF TypeInv, FilesOK, Files
  <2>2. CacheOK'
    BY <1>4, <1>5 DEF CacheOK
  <2>3. ASSUME NEW u \in Threads, thr'[u].op = "propose"
        PROVE  /\ u # t /\ thr[u].op = "propose" /\ thr'[u].pc = thr[u].pc
               /\ thr'[u].doc = thr[u].doc /\ thr'[u].matched = thr[u].matched
               /\ thr'[u].result = thr[u].result
               /\ \A g \in Groups : thr'[u].seen[g] = thr[u].seen[g] \cup {copy.access[g]}
    <3>1. u # t
      BY <1>1, <1>2, <1>4, <2>3
    <3>2. threads[u] = thr[u]
      BY <1>1, <3>1
    <3> QED BY <1>4, <1>5, <2>3, <3>1, <3>2
  <2>4. SeenOK'
    BY <2>1, <2>3 DEF SeenOK
  <2>5. AnswersOK'
    <3>1. ASSUME NEW u \in Threads, thr'[u].op = "propose", ~ (u = "gui" /\ unsaved')
          PROVE  /\ thr'[u].pc \in {"ask", "match", "engine", "saved"} =>
                      \A g \in Groups : thr'[u].doc[g] \notin {"absent", "deny"}
                                          => thr'[u].seen[g] \ {"deny"} # {}
                 /\ thr'[u].pc \in {"engine", "saved"} =>
                      /\ thr'[u].matched \in Groups
                      /\ thr'[u].doc[thr'[u].matched] \notin {"absent", "deny"}
                 /\ thr'[u].pc = "saved" /\ thr'[u].result = "approved"
                      => "allow" \in thr'[u].seen[thr'[u].matched]
      <4>1. thr[u].op = "propose" /\ ~ (u = "gui" /\ unsaved)
        BY <1>4, <2>3, <3>1
      <4> QED BY <2>3, <3>1, <4>1 DEF ProposalInv, AnswersOK
    <3> QED BY <3>1 DEF AnswersOK
  <2> QED BY <2>2, <2>4, <2>5 DEF ProposalInv
<1>6. CASE f # "runtime"
  <2>1. /\ file'["runtime"] = file["runtime"] /\ unsaved' = unsaved
        /\ \A p \in {"mcp", "gui"} :
             cache'[p].fresh = cache[p].fresh /\ cache'[p].data = cache[p].data
    BY <1>4, <1>6 DEF TypeInv, FilesOK, Files
  <2>2. /\ thr'[t].op # "propose"
        /\ \A u \in Threads \ {t} :
             /\ thr'[u].op = thr[u].op /\ thr'[u].pc = thr[u].pc /\ thr'[u].doc = thr[u].doc
             /\ thr'[u].matched = thr[u].matched /\ thr'[u].result = thr[u].result
             /\ \A g \in Groups : thr'[u].seen[g] = thr[u].seen[g]
    BY <1>1, <1>2, <1>4, <1>6
  <2>3. Ahead("gui") => unsaved' \/ (thr'["gui"].op = "save" /\ thr'["gui"].pc = "open")
    BY <1>3, <1>6, <2>1, <2>2 DEF Ahead, Threads
  <2>4. CacheOK'
    BY <2>1, <2>3 DEF ProposalInv, CacheOK, Ahead
  <2>5. SeenOK'
    BY <2>1, <2>2 DEF ProposalInv, SeenOK
  <2>6. AnswersOK'
    <3>1. ASSUME NEW u \in Threads, thr'[u].op = "propose", ~ (u = "gui" /\ unsaved')
          PROVE  /\ thr'[u].pc \in {"ask", "match", "engine", "saved"} =>
                      \A g \in Groups : thr'[u].doc[g] \notin {"absent", "deny"}
                                          => thr'[u].seen[g] \ {"deny"} # {}
                 /\ thr'[u].pc \in {"engine", "saved"} =>
                      /\ thr'[u].matched \in Groups
                      /\ thr'[u].doc[thr'[u].matched] \notin {"absent", "deny"}
                 /\ thr'[u].pc = "saved" /\ thr'[u].result = "approved"
                      => "allow" \in thr'[u].seen[thr'[u].matched]
      <4>1. u # t /\ thr[u].op = "propose" /\ ~ (u = "gui" /\ unsaved)
        BY <2>1, <2>2, <3>1
      <4>2. thr[u].pc = "saved" => thr[u].matched \in Groups
        BY <4>1 DEF ProposalInv, AnswersOK
      <4> QED BY <2>2, <4>1, <4>2 DEF ProposalInv, AnswersOK
    <3> QED BY <3>1 DEF AnswersOK
  <2> QED BY <2>4, <2>5, <2>6 DEF ProposalInv
<1> QED BY <1>5, <1>6

-----------------------------------------------------------------------------
(* The invariant, and what follows from it.                                *)

LEMMA PolicyInit == ConstantsOK /\ Init => PolicyInv
<1> SUFFICES ASSUME ConstantsOK, Init PROVE PolicyInv
  OBVIOUS
<1>1. \A t \in Threads : thr[t] = Idle
  BY DEF Init
<1>2. synced = "none"
  BY DEF Init
<1>3. RolloutInv
  BY <1>1, <1>2, IdleTyped DEF RolloutInv, Alone, ReloadOK, DenyEnforced
<1>4. MergeOK
  BY <1>1, IdleTyped DEF MergeOK
<1>5. \A p \in {"mcp", "gui"} : cache[p].fresh => cache[p].data = file["runtime"].access
  <2>1. \A p \in {"mcp", "gui"} :
          cache[p] \in {[data |-> NoGroups, fresh |-> FALSE],
                        [data |-> file["runtime"].access, fresh |-> TRUE]}
    BY DEF Init
  <2> QED BY <2>1
<1>6. ProposalInv
  BY <1>1, <1>5, IdleTyped DEF ProposalInv, CacheOK, SeenOK, AnswersOK
<1> QED BY <1>3, <1>4, <1>6, TypeInit DEF PolicyInv

LEMMA PolicyNext == ConstantsOK /\ PolicyInv /\ [Next]_vars => PolicyInv'
<1> SUFFICES ASSUME ConstantsOK, PolicyInv, [Next]_vars PROVE PolicyInv'
  OBVIOUS
<1>1. TypeInv /\ RolloutInv /\ MergeOK /\ ProposalInv /\ TypeInv'
  BY TypeNext DEF PolicyInv
<1> SUFFICES RolloutInv' /\ MergeOK' /\ ProposalInv'
  BY <1>1 DEF PolicyInv
<1>2. "gui" \in Threads
  BY DEF Threads
<1>3. ASSUME NEW updates \in [Groups -> Access], SaveGroups(updates)
      PROVE  RolloutInv' /\ MergeOK' /\ ProposalInv'
  <2>1. Starts("gui") /\ thr'["gui"].op = "save" /\ thr'["gui"].pc = "groups"
    BY <1>1, <1>3, SaveGroupsStarts
  <2> QED BY <1>1, <1>2, <2>1, StartRollout, StartProposals
<1>4. CASE UpdateGroups \/ Reloaded
  BY <1>1, <1>2, <1>4, QuietSteps, LoadingSteps
<1>5. ASSUME NEW t \in Threads, Request(t)
      PROVE  RolloutInv' /\ MergeOK' /\ ProposalInv'
  <2>1. /\ Starts(t)
        /\ \/ /\ thr'[t].op = "propose" /\ thr'[t].pc = "document"
              /\ \A g \in Groups : file["runtime"].access[g] \in thr'[t].seen[g]
           \/ /\ thr'[t].op \in {"edit", "deploy", "preserve", "sync"}
              /\ thr'[t].pc \in {"open", "merge"}
              /\ thr'[t].op = "preserve" => thr'[t].pc = "merge"
           \/ thr'[t].op \in {"reload", "install"} /\ thr'[t].pc \in {"merge rules", "rules"}
    BY <1>1, <1>5, RequestStarts
  <2>2. thr'[t].pc # "restart" /\ ~ (thr'[t].op = "preserve" /\ thr'[t].pc = "open")
    BY <2>1
  <2>3. \/ thr'[t].op # "propose"
        \/ /\ thr'[t].pc = "document"
           /\ \A g \in Groups : file["runtime"].access[g] \in thr'[t].seen[g]
    BY <2>1
  <2> QED BY <1>1, <2>1, <2>2, <2>3, StartRollout, StartProposals
<1>6. ASSUME NEW t \in Threads, Stat(t)
      PROVE  RolloutInv' /\ MergeOK' /\ ProposalInv'
  BY <1>1, <1>6, QuietSteps, LoadingSteps
<1>7. ASSUME NEW t \in Threads, Compile(t) \/ Ask(t) \/ Match(t) \/ SaveChange(t)
      PROVE  RolloutInv' /\ MergeOK' /\ ProposalInv'
  BY <1>1, <1>7, QuietSteps, ProposalSteps
<1>8. ASSUME NEW t \in Threads, Answer(t) \/ MergeAccess(t) \/ Fail(t) \/ ReloadFails(t)
      PROVE  RolloutInv' /\ MergeOK' /\ ProposalInv'
  <2>1. RolloutInv' /\ MergeOK'
    BY <1>1, <1>8, QuietSteps
  <2>2. CASE Answer(t)
    <3>1. /\ Moves(t) /\ UNCHANGED <<file, cache, unsaved>> /\ thr'[t].op # "propose"
          /\ thr[t].op = "propose"
      BY <1>1, <2>2, AnswerFacts, IdleTyped DEF Resting
    <3> QED BY <1>1, <2>1, <3>1, QuietProposals
  <2>3. CASE MergeAccess(t)
    <3>1. /\ Moves(t) /\ UNCHANGED <<file, cache, unsaved>> /\ thr'[t].op # "propose"
          /\ thr[t].op = "preserve"
      BY <1>1, <2>3, MergeAccessFacts DEF Resting
    <3> QED BY <1>1, <2>1, <3>1, QuietProposals
  <2>4. CASE Fail(t)
    <3>1. /\ Moves(t) /\ UNCHANGED <<file, cache>> /\ thr'[t].op # "propose"
          /\ unsaved' = (unsaved \/ (thr[t].op = "save" /\ thr[t].pc = "open"))
      BY <1>1, <2>4, FailFacts, IdleTyped
    <3> QED BY <1>1, <2>1, <3>1, QuietProposals
  <2>5. CASE ReloadFails(t)
    <3>1. /\ Moves(t) /\ UNCHANGED <<file, cache, unsaved>> /\ thr'[t].op # "propose"
          /\ thr[t].op \in {"reload", "install"}
      BY <1>1, <2>5, ReloadFailsFacts
    <3> QED BY <1>1, <2>1, <3>1, QuietProposals
  <2> QED BY <1>8, <2>2, <2>3, <2>4, <2>5
<1>9. ASSUME NEW t \in Threads, Open(t) \/ Write(t)
      PROVE  RolloutInv' /\ MergeOK' /\ ProposalInv'
  <2>1. PICK f, copy, h : Puts(t, f, copy, h)
    BY <1>1, <1>9, OpenPuts, WritePuts
  <2> QED BY <1>1, <2>1, PutsRollout, PutsProposals
<1>10. ASSUME NEW t \in Threads,
              MergeRead(t) \/ ReadRules(t) \/ OpenRules(t) \/ WriteRules(t) \/ Restart(t)
       PROVE  RolloutInv' /\ MergeOK' /\ ProposalInv'
  <2>1. RolloutInv' /\ MergeOK'
    BY <1>1, <1>10, ReloadSteps
  <2>2. /\ Moves(t) /\ UNCHANGED <<file, cache, unsaved>> /\ thr'[t].op # "propose"
    BY <1>1, <1>10, MergeReadFacts, ReadRulesFacts, OpenRulesFacts, WriteRulesFacts, RestartFacts,
       IdleTyped DEF Resting, Reloads
  <2>3. thr[t].op \in {"reload", "install"}
    BY <1>1, <1>10, Reloading DEF MergeRead, ReadRules, OpenRules, WriteRules, Restart
  <2> QED BY <1>1, <2>1, <2>2, <2>3, QuietProposals
<1>11. CASE UNCHANGED vars
  BY <1>1, <1>11 DEF vars, RolloutInv, Alone, ReloadOK, DenyEnforced, MergeOK, ProposalInv,
                     CacheOK, Ahead, SeenOK, AnswersOK
<1> QED BY <1>3, <1>4, <1>5, <1>6, <1>7, <1>8, <1>9, <1>10, <1>11 DEF Next, Step

LEMMA PolicyAlways == ASSUME ConstantsOK PROVE Spec => []PolicyInv
BY PolicyInit, PolicyNext, PTL DEF Spec

(* After a reload the gateway enforces every group that is denied in the   *)
(* copy merge-ios-xe-policy.py was given, if that copy has not changed     *)
(* since, whatever failed before or was being saved meanwhile: the runtime *)
(* copy when the GUI or the DefenseClaw page reload, the canonical one in  *)
(* install-clawlab-guardrail-rules.sh.                                     *)
THEOREM DeniesEnforced == ASSUME ConstantsOK PROVE Spec => []DenyEnforced
<1>1. PolicyInv => DenyEnforced
  BY DEF PolicyInv, RolloutInv
<1> QED BY <1>1, PolicyAlways, PTL

(* A change is approved without a reviewer only if the file said "always   *)
(* allow" of its group while it was proposed, and proposed at all only if  *)
(* it did not say "always deny" throughout.                                *)
THEOREM AccessInTime == ASSUME ConstantsOK PROVE Spec => []AccessOfTheTime
<1>1. PolicyInv => AccessOfTheTime
  <2> SUFFICES ASSUME PolicyInv, NEW t \in {"mcp", "gui"},
                      thr[t].pc = "saved", ~ (t = "gui" /\ unsaved)
               PROVE  /\ thr[t].result = "approved" => "allow" \in thr[t].seen[thr[t].matched]
                      /\ thr[t].seen[thr[t].matched] # {"deny"}
    BY DEF AccessOfTheTime
  <2>1. t \in Threads /\ thr[t].op = "propose"
    BY HandlerTyped DEF PolicyInv, Threads, ThreadOK
  <2> QED BY <2>1 DEF PolicyInv, ProposalInv, AnswersOK
<1> QED BY <1>1, PolicyAlways, PTL

(* deploy-ios-xe-policy.py --preserve-access overwrites a copy with the    *)
(* access that is there, if nobody else is changing the policy.            *)
THEOREM AccessKept == ASSUME ConstantsOK PROVE Spec => DeployKeepsAccess
<1>1. PolicyInv /\ [Next]_vars =>
        [\A t \in Hosts, f \in Files :
           thr[t].op = "preserve" /\ thr[t].pc = "open" /\ Head(thr[t].todo) = f
             /\ thr'[t].pc = "write" /\ "policy" \notin overlapped' =>
             \A g \in Groups : file[f].access[g] # "absent" /\ thr[t].doc[g] # "absent"
                                 => thr[t].doc[g] = file[f].access[g]]_vars
  <2> SUFFICES ASSUME PolicyInv, Next, NEW t \in Hosts, NEW f \in Files,
                      thr[t].op = "preserve", thr[t].pc = "open", Head(thr[t].todo) = f,
                      "policy" \notin overlapped',
                      NEW g \in Groups, file[f].access[g] # "absent", thr[t].doc[g] # "absent"
               PROVE  thr[t].doc[g] = file[f].access[g]
    OBVIOUS
  <2>1. overlapped \subseteq overlapped'
    BY ZenonT(30) DEF PolicyInv, TypeInv, FilesOK, Next, Request, Step, SaveGroups, UpdateGroups,
      Reloaded,
           Propose, Edit, Deploy, Sync, Reload, Install, Begin, Goes, Stat, Compile, Ask, Match, SaveChange, Answer,
           MergeAccess, Open, Write, Fail, MergeRead, ReadRules, OpenRules, WriteRules, Restart,
           ReloadFails
  <2> QED BY <2>1 DEF PolicyInv, MergeOK, Threads
<1> QED BY <1>1, PolicyAlways, PTL DEF Spec, DeployKeepsAccess

-----------------------------------------------------------------------------
(* The tools of the MCP server                                             *)

Listings == [Names -> Entries \cup {Nobody}]

CallRec(at, ask, checked, taken, sudo, login, left, r, seen, saved) ==
  [at |-> at, ask |-> ask, checked |-> checked, used |-> taken, sudo |-> sudo, login |-> login,
   left |-> left, rbac |-> r, seen |-> seen, saved |-> saved]

(* A call in progress: every entry that it may still look up is among those *)
(* hosts.yaml held, and as long as nobody saves hosts.yaml there is one.    *)
CallOK ==
  ~ Tools!Idle =>
    /\ call = CallRec(call.at, call.ask, call.checked, call.used, call.sudo, call.login,
                      call.left, call.rbac, call.seen, call.saved)
    /\ call.ask \in Calls /\ call.left \in 0 .. HealthChecks
    /\ call.at \in {"services", "sudo", "connect", "login", "run"}
    /\ call.seen \subseteq Entries
    /\ call.checked \in call.seen
    /\ view.hosts[call.ask.name] \in call.seen \cup {Nobody}
    /\ inventory # Tools!NoHosts => inventory[call.ask.name] \in call.seen \cup {Nobody}
    /\ call.at \in {"login", "run"} => call.used \in call.seen
    /\ call.at = "services" => call.ask.tool = "restart_service"
    /\ call.at # "services" => Tools!Permitted(call, call.checked)
    /\ ~ call.saved => call.seen = {call.checked}
    /\ ~ call.saved /\ call.ask.tool = "restart_service" => ~ call.checked.net

SavingOK ==
  /\ saving = [file |-> saving.file, hosts |-> saving.hosts, env |-> saving.env]
  /\ saving.file \in {"none", "hosts", "env"}
  /\ saving.hosts \in Listings /\ saving.env \subseteq Tools!Secrets

ServerOK ==
  /\ view = [hosts |-> view.hosts, fresh |-> view.fresh]
  /\ view.hosts \in Listings /\ inventory \in Listings /\ view.fresh \in BOOLEAN
  /\ view.fresh => view.hosts = inventory

ToolsInv ==
  /\ ServerOK /\ SavingOK
  /\ secrets \subseteq Tools!Secrets
  /\ transfers \in [Tools!Files -> {"absent", "whole", "part"}]
  /\ Tools!Idle => call = Tools!NoCall
  /\ CallOK
  /\ calls \in 0 .. MaxCalls /\ edits \in 0 .. MaxEdits
  /\ Tools!RunsAsConfigured

-----------------------------------------------------------------------------
LEMMA NoCallIdle == Tools!NoCall.at = "idle" /\ Tools!NoCall.left = 0
BY DEF Tools!NoCall

LEMMA NoHostsType == Tools!NoHosts \in Listings
BY DEF Tools!NoHosts, Listings

LEMMA ToolsInvTypes ==
  ASSUME Tools!ConstantsOK, ToolsInv
  PROVE  Tools!TypeOK
<1>1. CASE Tools!Idle
  <2>1. call.at = "idle" /\ call.left = 0
    BY <1>1, NoCallIdle DEF ToolsInv
  <2>2. call.left \in 0 .. HealthChecks
    BY <2>1 DEF Tools!ConstantsOK
  <2> QED BY <2>1, <2>2 DEF ToolsInv, ServerOK, SavingOK, Tools!TypeOK, Listings
<1>2. CASE ~ Tools!Idle
  BY <1>2 DEF ToolsInv, ServerOK, SavingOK, Tools!TypeOK, CallOK, Listings
<1> QED BY <1>1, <1>2

LEMMA ToolsInitInv ==
  ASSUME Tools!ConstantsOK, Tools!Init
  PROVE  ToolsInv
<1>1. inventory \in Listings
  BY DEF Tools!Init, Tools!ConstantsOK, Listings
<1>2. ServerOK
  BY <1>1 DEF Tools!Init, ServerOK
<1>3. SavingOK
  BY NoHostsType DEF Tools!Init, SavingOK, Tools!NoSave
<1>4. transfers \in [Tools!Files -> {"absent", "whole", "part"}]
  BY DEF Tools!Init, Tools!Files
<1>5. Tools!Idle /\ CallOK
  BY NoCallIdle DEF Tools!Init, Tools!Idle, CallOK
<1>6. Tools!RunsAsConfigured
  BY DEF Tools!Init, Tools!RunsAsConfigured
<1> QED BY <1>2, <1>3, <1>4, <1>5, <1>6 DEF Tools!Init, ToolsInv, Tools!ConstantsOK

\* What passes the checks of a tool is permitted by the entry they looked at.
LEMMA PassesPermitted ==
  ASSUME Tools!ConstantsOK, NEW c \in Calls, NEW h, Tools!Passes(c, h), c.tool # "restart_service",
         NEW r, r.ask = c, r.rbac = rbac
  PROVE  Tools!Permitted(r, h)
<1>1. c.tool \in Tools!ToolNames
  BY DEF Tools!ConstantsOK
<1>2. CASE c.tool = "run_command"
  BY <1>2 DEF Tools!Passes, Tools!RunCommand, Tools!SensitiveRefused, Tools!MayAdmin,
    Tools!Permitted
<1>3. CASE c.tool = "tail_log"
  BY <1>3 DEF Tools!Passes, Tools!TailLog, Tools!RejectIfNetwork, Tools!Permitted
<1>4. CASE c.tool = "get_journal"
  BY <1>4 DEF Tools!Passes, Tools!GetJournal, Tools!RejectIfNetwork, Tools!Permitted
<1>5. CASE c.tool = "check_health"
  BY <1>5 DEF Tools!Passes, Tools!CheckHealth, Tools!RejectIfNetwork, Tools!Permitted
<1>6. CASE c.tool = "run_write_command"
  BY <1>6 DEF Tools!Passes, Tools!RunWriteCommand, Tools!WriteAllowed, Tools!MayAdmin,
    Tools!Permitted
<1>7. CASE c.tool = "upload_file"
  BY <1>7 DEF Tools!Passes, Tools!UploadFile, Tools!WriteAllowed, Tools!MayAdmin, Tools!Permitted
<1>8. CASE c.tool = "download_file"
  BY <1>8 DEF Tools!Passes, Tools!DownloadFile, Tools!MayAdmin, Tools!Permitted
<1> QED BY <1>1, <1>2, <1>3, <1>4, <1>5, <1>6, <1>7, <1>8 DEF Tools!ToolNames

\* Looking the hosts up: what a call may then find is what it may have found.
LEMMA ToolsReloadStep ==
  ASSUME ToolsInv, Tools!Reload, UNCHANGED inventory
  PROVE  /\ ServerOK' /\ view'.hosts = Tools!Current /\ Tools!Current \in Listings
         /\ inventory # Tools!NoHosts => Tools!Current = inventory
         /\ ~ Tools!Idle => Tools!Current[call.ask.name] \in call.seen \cup {Nobody}
<1>1. Tools!Current \in Listings /\ (inventory # Tools!NoHosts => Tools!Current = inventory)
  BY DEF ToolsInv, ServerOK, Tools!Current
<1>2. view' = [hosts |-> Tools!Current, fresh |-> view.fresh \/ inventory # Tools!NoHosts]
  BY DEF Tools!Reload
<1>3. view.fresh => Tools!Current = inventory
  BY DEF Tools!Current, ToolsInv, ServerOK
<1>4. ServerOK'
  BY <1>1, <1>2, <1>3 DEF ServerOK, ToolsInv
<1>5. ~ Tools!Idle => Tools!Current[call.ask.name] \in call.seen \cup {Nobody}
  BY DEF Tools!Current, ToolsInv, CallOK
<1> QED BY <1>1, <1>2, <1>4, <1>5

LEMMA EnterInv ==
  ASSUME Tools!ConstantsOK, ToolsInv, NEW c \in Calls, Tools!Enter(c)
  PROVE  ToolsInv'
<1> DEFINE h == Tools!Current[c.name]
<1>1. /\ Tools!Idle /\ calls < MaxCalls /\ calls' = calls + 1 /\ Tools!Reload
      /\ inventory' = inventory /\ secrets' = secrets /\ saving' = saving /\ edits' = edits
      /\ transfers' = transfers /\ ran' = ran
  BY DEF Tools!Enter, Tools!gui
<1>2. ServerOK' /\ view'.hosts = Tools!Current /\ Tools!Current \in Listings
      /\ (inventory # Tools!NoHosts => Tools!Current = inventory)
  BY <1>1, ToolsReloadStep
<1>3. calls' \in 0 .. MaxCalls
  BY <1>1 DEF ToolsInv, Tools!ConstantsOK
<1>4. h \in Entries \cup {Nobody} /\ c.tool \in Tools!ToolNames
  BY <1>2 DEF Tools!ConstantsOK, Listings
<1>5. Tools!RunsAsConfigured'
  BY <1>1 DEF ToolsInv, Tools!RunsAsConfigured, Tools!Permitted
<1>6. (Tools!Idle => call = Tools!NoCall)' /\ CallOK'
  <2>1. CASE h # Nobody /\ Tools!Passes(c, h)
    <3> DEFINE at == IF c.tool = "restart_service" THEN "services" ELSE "connect"
               left == IF c.tool = "check_health" THEN HealthChecks ELSE 1
    <3>1. call' = CallRec(at, c, h, Nobody, FALSE, "none", left, rbac, {h}, FALSE)
      BY <2>1 DEF Tools!Enter, Tools!GetHost, CallRec
    <3>2. /\ call'.at = at /\ call'.ask = c /\ call'.checked = h /\ call'.used = Nobody
          /\ call'.left = left /\ call'.rbac = rbac /\ call'.seen = {h} /\ call'.saved = FALSE
          /\ call'.sudo = FALSE /\ call'.login = "none"
      BY <3>1 DEF CallRec
    <3>3. left \in 0 .. HealthChecks
      BY DEF Tools!ConstantsOK
    <3>4. c.tool # "restart_service" => Tools!Permitted(call, call.checked)'
      <4>1. c.tool # "restart_service" => Tools!Permitted(call', h)
        BY <2>1, <3>2, PassesPermitted
      <4> QED BY <3>2, <4>1 DEF Tools!Permitted
    <3>5. c.tool = "restart_service" => ~ h.net
      BY <2>1 DEF Tools!Passes, Tools!RestartService, Tools!RejectIfNetwork
    <3>6. call' = CallRec(call'.at, call'.ask, call'.checked, call'.used, call'.sudo, call'.login,
                          call'.left, call'.rbac, call'.seen, call'.saved)
      BY <3>1, <3>2
    <3> HIDE DEF left, at
    <3>7. at = IF c.tool = "restart_service" THEN "services" ELSE "connect"
      BY DEF at
    <3>8. ~ Tools!Idle'
      BY <3>2, <3>7 DEF Tools!Idle
    <3> HIDE DEF h
    <3>9. h = Tools!Current[c.name]
      BY DEF h
    <3>10. view'.hosts[c.name] = h /\ (inventory' # Tools!NoHosts => inventory'[c.name] = h)
      BY <1>1, <1>2, <3>9
    <3>11. CallOK'
      BY <1>4, <2>1, <3>2, <3>3, <3>4, <3>5, <3>6, <3>7, <3>10 DEF CallOK, Tools!NoHosts
    <3> QED BY <3>8, <3>11
  <2>2. CASE ~ (h # Nobody /\ Tools!Passes(c, h))
    <3>1. call' = call
      BY <2>2 DEF Tools!Enter, Tools!GetHost
    <3> QED BY <1>1, <3>1 DEF ToolsInv, CallOK, Tools!Idle
  <2> QED BY <2>1, <2>2
<1> QED BY <1>1, <1>2, <1>3, <1>5, <1>6 DEF ToolsInv, SavingOK, Tools!Files

\* Permission is a matter of what was asked, and of the time it was asked at.
LEMMA PermittedSame ==
  ASSUME NEW r, NEW s, NEW h, r.ask = s.ask, r.rbac = s.rbac
  PROVE  Tools!Permitted(r, h) <=> Tools!Permitted(s, h)
BY DEF Tools!Permitted

\* A call takes its next step; what it was about, and the entries, stay.
LEMMA CallGoesOn ==
  ASSUME ToolsInv, ~ Tools!Idle, inventory' = inventory,
         NEW at \in {"sudo", "connect", "login", "run"},
         NEW checked \in call.seen, NEW taken, NEW sudo, NEW login, NEW left \in 0 .. HealthChecks,
         call' = CallRec(at, call.ask, checked, taken, sudo, login, left, call.rbac, call.seen,
                         call.saved),
         view'.hosts[call.ask.name] \in call.seen \cup {Nobody},
         at \in {"login", "run"} => taken \in call.seen,
         Tools!Permitted(call, checked)
  PROVE  (Tools!Idle => call = Tools!NoCall)' /\ CallOK'
<1>1. /\ call'.at = at /\ call'.ask = call.ask /\ call'.checked = checked /\ call'.used = taken
      /\ call'.left = left /\ call'.rbac = call.rbac /\ call'.seen = call.seen
      /\ call'.saved = call.saved /\ call'.sudo = sudo /\ call'.login = login
  BY DEF CallRec
<1>2. ~ Tools!Idle' /\ at # "services"
  BY <1>1 DEF Tools!Idle
<1>3. Tools!Permitted(call, call.checked)'
  <2>1. Tools!Permitted(call', checked)
    BY <1>1, PermittedSame
  <2> QED BY <1>1, <2>1 DEF Tools!Permitted
<1>4. CallOK
  BY DEF ToolsInv
<1>5. ~ call.saved => checked = call.checked /\ call.seen = {checked}
  BY <1>4 DEF CallOK
<1>6. call' = CallRec(call'.at, call'.ask, call'.checked, call'.used, call'.sudo, call'.login,
                      call'.left, call'.rbac, call'.seen, call'.saved)
  BY <1>1
<1>7. CallOK'
  BY <1>1, <1>2, <1>3, <1>4, <1>5, <1>6 DEF CallOK, Tools!NoHosts
<1> QED BY <1>2, <1>7

LEMMA CallEnds ==
  ASSUME call' = Tools!NoCall
  PROVE  (Tools!Idle => call = Tools!NoCall)' /\ CallOK'
BY NoCallIdle DEF Tools!Idle, CallOK

LEMMA ListHostsInv ==
  ASSUME Tools!ConstantsOK, ToolsInv, Tools!ListHosts
  PROVE  ToolsInv'
<1>1. /\ Tools!Idle /\ Tools!Reload /\ inventory' = inventory /\ secrets' = secrets /\ saving' = saving /\ edits' = edits
      /\ transfers' = transfers /\ ran' = ran /\ call' = call /\ calls' = calls
  BY DEF Tools!ListHosts, Tools!gui, Tools!tools
<1>2. ServerOK'
  BY <1>1, ToolsReloadStep
<1>3. Tools!Idle'
  BY <1>1 DEF Tools!Idle
<1> QED BY <1>1, <1>2, <1>3 DEF ToolsInv, SavingOK, CallOK, Tools!Files, Tools!RunsAsConfigured,
  Tools!Permitted, Tools!Idle

LEMMA CheckServicesInv ==
  ASSUME Tools!ConstantsOK, ToolsInv, Tools!CheckServices
  PROVE  ToolsInv'
<1> DEFINE h == Tools!Current[call.ask.name]
<1>1. /\ call.at = "services" /\ Tools!Reload /\ inventory' = inventory /\ secrets' = secrets /\ saving' = saving
      /\ edits' = edits /\ transfers' = transfers /\ ran' = ran /\ calls' = calls
  BY DEF Tools!CheckServices, Tools!gui
<1>2. ~ Tools!Idle /\ CallOK
  BY <1>1 DEF Tools!Idle, ToolsInv
<1>3. /\ ServerOK' /\ view'.hosts[call.ask.name] = h /\ h \in call.seen \cup {Nobody}
  BY <1>1, <1>2, ToolsReloadStep
<1>4. Tools!RunsAsConfigured'
  BY <1>1 DEF ToolsInv, Tools!RunsAsConfigured, Tools!Permitted
<1>5. (Tools!Idle => call = Tools!NoCall)' /\ CallOK'
  <2>1. CASE h # Nobody /\ call.ask.arg \in h.services
    <3> DEFINE at == IF h.sudo THEN "sudo" ELSE "connect"
    <3>1. call' = [call EXCEPT !.at = at, !.checked = h]
      BY <2>1 DEF Tools!CheckServices, Tools!GetHost
    <3>2. call' = CallRec(at, call.ask, h, call.used, call.sudo, call.login, call.left,
                          call.rbac, call.seen, call.saved)
      <4> HIDE DEF at, h
      <4>1. call = CallRec(call.at, call.ask, call.checked, call.used, call.sudo, call.login,
                           call.left, call.rbac, call.seen, call.saved)
        BY <1>2 DEF CallOK
      <4> QED BY <3>1, <4>1 DEF CallRec
    <3>3. Tools!Permitted(call, h)
      <4>1. call.ask.tool = "restart_service"
        BY <1>1, <1>2 DEF CallOK
      <4> QED BY <2>1, <4>1 DEF Tools!Permitted
    <3>4. h \in call.seen /\ call.left \in 0 .. HealthChecks /\ at \in {"sudo", "connect"}
      BY <1>2, <1>3, <2>1 DEF CallOK
    <3> HIDE DEF at, h
    <3> QED BY <1>1, <1>2, <1>3, <3>2, <3>3, <3>4, CallGoesOn
  <2>2. CASE ~ (h # Nobody /\ call.ask.arg \in h.services)
    <3>1. call' = Tools!NoCall
      BY <2>2 DEF Tools!CheckServices, Tools!GetHost
    <3> QED BY <3>1, CallEnds
  <2> QED BY <2>1, <2>2
<1> QED BY <1>1, <1>3, <1>4, <1>5 DEF ToolsInv, SavingOK, Tools!Files

\* A step that looks nothing up and leaves hosts.yaml alone.
LEMMA SameHosts ==
  ASSUME ToolsInv, UNCHANGED <<Tools!gui, keyed, rbac, view, calls>>,
         transfers' \in [DOMAIN transfers' -> {"absent", "whole", "part"}],
         (Tools!Idle => call = Tools!NoCall)', CallOK', Tools!RunsAsConfigured'
  PROVE  ToolsInv'
<1>1. /\ inventory' = inventory /\ secrets' = secrets /\ saving' = saving /\ edits' = edits /\ view' = view
      /\ calls' = calls
  BY DEF Tools!gui
<1> QED BY <1>1 DEF ToolsInv, ServerOK, SavingOK, Tools!Files

LEMMA SudoPasswordInv ==
  ASSUME Tools!ConstantsOK, ToolsInv, Tools!SudoPassword
  PROVE  ToolsInv'
<1> DEFINE stored == <<call.ask.name, "sudo">> \in secrets
<1>1. /\ call.at = "sudo" /\ UNCHANGED <<Tools!gui, keyed, rbac, view, transfers, ran, calls>>
      /\ call' = IF stored /\ ~ keyed THEN Tools!NoCall
                 ELSE [call EXCEPT !.at = "connect", !.sudo = stored]
  BY DEF Tools!SudoPassword
<1> HIDE DEF stored
<1>2. ~ Tools!Idle /\ CallOK /\ inventory' = inventory /\ view' = view /\ ran' = ran /\ transfers' = transfers
  BY <1>1 DEF Tools!Idle, ToolsInv, Tools!gui
<1>3. (Tools!Idle => call = Tools!NoCall)' /\ CallOK'
  <2>1. CASE call' = Tools!NoCall
    BY <2>1, CallEnds
  <2>2. CASE call' # Tools!NoCall
    <3>1. call' = CallRec("connect", call.ask, call.checked, call.used, stored, call.login,
                          call.left, call.rbac, call.seen, call.saved)
      BY <1>1, <1>2, <2>2 DEF CallOK, CallRec
    <3> QED BY <1>1, <1>2, <3>1, CallGoesOn DEF CallOK
  <2> QED BY <2>1, <2>2
<1>4. Tools!RunsAsConfigured'
  BY <1>2 DEF ToolsInv, Tools!RunsAsConfigured, Tools!Permitted
<1>5. transfers' \in [DOMAIN transfers' -> {"absent", "whole", "part"}]
  BY <1>2 DEF ToolsInv, Tools!Files
<1> QED BY <1>1, <1>3, <1>4, <1>5, SameHosts

LEMMA ConnectInv ==
  ASSUME Tools!ConstantsOK, ToolsInv, Tools!Connect
  PROVE  ToolsInv'
<1> DEFINE h == Tools!Current[call.ask.name]
<1>1. /\ call.at = "connect" /\ Tools!Reload /\ inventory' = inventory /\ secrets' = secrets /\ saving' = saving
      /\ edits' = edits /\ transfers' = transfers /\ ran' = ran /\ calls' = calls
      /\ call' = IF h = Nobody THEN Tools!NoCall ELSE [call EXCEPT !.at = "login", !.used = h]
  BY DEF Tools!Connect, Tools!gui, Tools!GetHost
<1>2. ~ Tools!Idle /\ CallOK
  BY <1>1 DEF Tools!Idle, ToolsInv
<1>3. /\ ServerOK' /\ view'.hosts[call.ask.name] = h /\ h \in call.seen \cup {Nobody}
  BY <1>1, <1>2, ToolsReloadStep
<1>4. Tools!RunsAsConfigured'
  BY <1>1 DEF ToolsInv, Tools!RunsAsConfigured, Tools!Permitted
<1> HIDE DEF h
<1>5. (Tools!Idle => call = Tools!NoCall)' /\ CallOK'
  <2>1. CASE h = Nobody
    BY <1>1, <2>1, CallEnds
  <2>2. CASE h # Nobody
    <3>1. call' = CallRec("login", call.ask, call.checked, h, call.sudo, call.login,
                          call.left, call.rbac, call.seen, call.saved)
      BY <1>1, <1>2, <2>2 DEF CallOK, CallRec
    <3>2. /\ call.checked \in call.seen /\ call.left \in 0 .. HealthChecks /\ h \in call.seen
          /\ Tools!Permitted(call, call.checked)
      BY <1>1, <1>2, <1>3, <2>2 DEF CallOK
    <3> QED BY <1>1, <1>2, <1>3, <3>1, <3>2, CallGoesOn
  <2> QED BY <2>1, <2>2
<1> QED BY <1>1, <1>3, <1>4, <1>5 DEF ToolsInv, SavingOK, Tools!Files

LEMMA LoginInv ==
  ASSUME Tools!ConstantsOK, ToolsInv, Tools!Login
  PROVE  ToolsInv'
<1> DEFINE stored == <<call.ask.name, "login">> \in secrets
           login == IF stored /\ keyed THEN "password" ELSE "keys"
<1>1. /\ call.at = "login" /\ UNCHANGED <<Tools!gui, keyed, rbac, view, transfers, ran, calls>>
      /\ call' = Tools!NoCall \/ call' = [call EXCEPT !.at = "run", !.login = login]
  BY DEF Tools!Login
<1> HIDE DEF login
<1>2. ~ Tools!Idle /\ CallOK /\ inventory' = inventory /\ view' = view /\ ran' = ran /\ transfers' = transfers
  BY <1>1 DEF Tools!Idle, ToolsInv, Tools!gui
<1>3. (Tools!Idle => call = Tools!NoCall)' /\ CallOK'
  <2>1. CASE call' = Tools!NoCall
    BY <2>1, CallEnds
  <2>2. CASE call' # Tools!NoCall
    <3>1. call' = CallRec("run", call.ask, call.checked, call.used, call.sudo, login,
                          call.left, call.rbac, call.seen, call.saved)
      BY <1>1, <1>2, <2>2 DEF CallOK, CallRec
    <3> QED BY <1>1, <1>2, <3>1, CallGoesOn DEF CallOK
  <2> QED BY <2>1, <2>2
<1>4. Tools!RunsAsConfigured'
  BY <1>2 DEF ToolsInv, Tools!RunsAsConfigured, Tools!Permitted
<1>5. transfers' \in [DOMAIN transfers' -> {"absent", "whole", "part"}]
  BY <1>2 DEF ToolsInv, Tools!Files
<1> QED BY <1>1, <1>3, <1>4, <1>5, SameHosts

\* What is left of a call after a command.
LEMMA OverOK ==
  ASSUME Tools!ConstantsOK, ToolsInv, call.at = "run", inventory' = inventory, view' = view,
         call' = Tools!Over \/ call' = Tools!NoCall
  PROVE  (Tools!Idle => call = Tools!NoCall)' /\ CallOK'
<1>1. ~ Tools!Idle /\ CallOK
  BY DEF Tools!Idle, ToolsInv
<1>2. CASE call' = Tools!NoCall
  BY <1>2, CallEnds
<1>3. CASE call' # Tools!NoCall
  <2>1. call.left > 1 /\ call' = [call EXCEPT !.at = "connect", !.left = @ - 1, !.used = Nobody,
                                              !.login = "none"]
    BY <1>3 DEF Tools!Over
  <2>2. call.left - 1 \in 0 .. HealthChecks
    BY <1>1, <2>1 DEF CallOK, Tools!ConstantsOK
  <2>3. call' = CallRec("connect", call.ask, call.checked, Nobody, call.sudo, "none",
                        call.left - 1, call.rbac, call.seen, call.saved)
    BY <1>1, <2>1 DEF CallOK, CallRec
  <2>4. /\ call.checked \in call.seen /\ Tools!Permitted(call, call.checked)
        /\ view'.hosts[call.ask.name] \in call.seen \cup {Nobody}
    BY <1>1 DEF CallOK
  <2> QED BY <1>1, <2>2, <2>3, <2>4, CallGoesOn
<1> QED BY <1>2, <1>3

\* What reaches the host is as RunsAsConfigured has it.
LEMMA RanOK ==
  ASSUME ToolsInv, call.at = "run", ran' = call
  PROVE  Tools!RunsAsConfigured'
<1>1. ~ Tools!Idle /\ CallOK
  BY DEF Tools!Idle, ToolsInv
<1>2. /\ call.used \in call.seen /\ call.checked \in call.seen
      /\ Tools!Permitted(call, call.checked)
      /\ (~ call.saved => call.seen = {call.checked})
      /\ (~ call.saved /\ call.ask.tool = "restart_service" => ~ call.checked.net)
  BY <1>1 DEF CallOK
<1>3. /\ call.used \in call.seen
      /\ \E h \in call.seen : Tools!Permitted(call, h)
      /\ ~ call.saved => Tools!Permitted(call, call.used)
                         /\ (call.ask.tool = "restart_service" => ~ call.used.net)
  BY <1>2
<1> QED BY <1>3 DEF Tools!RunsAsConfigured, Tools!Permitted

LEMMA FailsInv ==
  ASSUME Tools!ConstantsOK, ToolsInv, Tools!Fails
  PROVE  ToolsInv'
<1>1. /\ call.at = "run" /\ call' = Tools!Over /\ UNCHANGED <<Tools!gui, keyed, rbac, view, calls>>
      /\ transfers' = transfers /\ ran' = ran /\ inventory' = inventory /\ view' = view
  BY DEF Tools!Fails, Tools!gui
<1>2. Tools!RunsAsConfigured'
  BY <1>1 DEF ToolsInv, Tools!RunsAsConfigured, Tools!Permitted
<1>3. transfers' \in [DOMAIN transfers' -> {"absent", "whole", "part"}]
  BY <1>1 DEF ToolsInv, Tools!Files
<1> QED BY <1>1, <1>2, <1>3, OverOK, SameHosts

LEMMA RunsInv ==
  ASSUME Tools!ConstantsOK, ToolsInv, Tools!Runs
  PROVE  ToolsInv'
<1>1. /\ call.at = "run" /\ call' = Tools!Over /\ UNCHANGED <<Tools!gui, keyed, rbac, view, calls>>
      /\ transfers' = transfers /\ ran' = call /\ inventory' = inventory /\ view' = view
  BY DEF Tools!Runs, Tools!gui
<1>2. transfers' \in [DOMAIN transfers' -> {"absent", "whole", "part"}]
  BY <1>1 DEF ToolsInv, Tools!Files
<1> QED BY <1>1, <1>2, RanOK, OverOK, SameHosts

LEMMA DownloadsInv ==
  ASSUME Tools!ConstantsOK, ToolsInv, Tools!Downloads
  PROVE  ToolsInv'
<1>1. /\ call.at = "run" /\ call' = Tools!NoCall /\ UNCHANGED <<Tools!gui, keyed, rbac, view, calls>>
      /\ ran' = call /\ inventory' = inventory /\ view' = view
  BY DEF Tools!Downloads, Tools!gui
<1>2. transfers' \in [DOMAIN transfers' -> {"absent", "whole", "part"}]
  <2>1. PICK got \in {"whole", "part"} : transfers' = [transfers EXCEPT ![call.ask.arg] = got]
    BY DEF Tools!Downloads
  <2> QED BY <2>1 DEF ToolsInv, Tools!Files
<1> QED BY <1>1, <1>2, RanOK, OverOK, SameHosts
-----------------------------------------------------------------------------
(* The GUI                                                                 *)

\* A save, with the hosts it leaves in the file, and the entries K it shows.
LEMMA ToolsSeenOK ==
  ASSUME Tools!ConstantsOK, ToolsInv, NEW K, K \subseteq Entries, Tools!Seen(K), view'.hosts = view.hosts,
         ~ Tools!Idle /\ inventory' # Tools!NoHosts => inventory'[call.ask.name] \in K \cup {Nobody}
  PROVE  (Tools!Idle => call = Tools!NoCall)' /\ CallOK'
<1>1. CASE Tools!Idle
  BY <1>1, CallEnds DEF ToolsInv, Tools!Seen
<1>2. CASE ~ Tools!Idle
  <2>1. CallOK /\ call' = [call EXCEPT !.saved = TRUE, !.seen = @ \cup K]
    BY <1>2 DEF ToolsInv, Tools!Seen
  <2>2. call' = CallRec(call.at, call.ask, call.checked, call.used, call.sudo, call.login,
                        call.left, call.rbac, call.seen \cup K, TRUE)
    BY <1>2, <2>1 DEF CallOK, CallRec
  <2>3. /\ call'.at = call.at /\ call'.ask = call.ask /\ call'.checked = call.checked
        /\ call'.used = call.used /\ call'.sudo = call.sudo /\ call'.login = call.login
        /\ call'.left = call.left /\ call'.rbac = call.rbac /\ call'.seen = call.seen \cup K
        /\ call'.saved = TRUE
    BY <2>2 DEF CallRec
  <2>4. ~ Tools!Idle'
    BY <1>2, <2>3 DEF Tools!Idle
  <2>5. call.at # "services" => Tools!Permitted(call, call.checked)'
    <3>1. call.at # "services" => Tools!Permitted(call', call.checked)
      BY <1>2, <2>1, <2>3, PermittedSame DEF CallOK
    <3> QED BY <2>3, <3>1 DEF Tools!Permitted
  <2>6. call' = CallRec(call'.at, call'.ask, call'.checked, call'.used, call'.sudo, call'.login,
                        call'.left, call'.rbac, call'.seen, call'.saved)
    BY <2>2, <2>3
  <2>7. CallOK'
    BY <1>2, <2>1, <2>3, <2>4, <2>5, <2>6 DEF CallOK, Tools!NoHosts
  <2> QED BY <2>4, <2>7
<1> QED BY <1>1, <1>2

LEMMA OpenHostsInv ==
  ASSUME Tools!ConstantsOK, ToolsInv, NEW listed \in Inventories, Tools!OpenHosts(listed)
  PROVE  ToolsInv'
<1>1. /\ edits < MaxEdits /\ edits' = edits + 1
      /\ saving' = [file |-> "hosts", hosts |-> listed, env |-> {}]
      /\ inventory' = Tools!NoHosts /\ view' = [view EXCEPT !.fresh = FALSE] /\ Tools!Seen({})
      /\ secrets' = secrets /\ transfers' = transfers /\ ran' = ran /\ calls' = calls
  BY DEF Tools!OpenHosts
<1>2. ServerOK' /\ view'.hosts = view.hosts
  BY <1>1, NoHostsType DEF ToolsInv, ServerOK
<1>3. SavingOK'
  BY <1>1 DEF SavingOK, Tools!ConstantsOK, Listings
<1>4. (Tools!Idle => call = Tools!NoCall)' /\ CallOK'
  BY <1>1, <1>2, ToolsSeenOK
<1>5. Tools!RunsAsConfigured'
  BY <1>1 DEF ToolsInv, Tools!RunsAsConfigured, Tools!Permitted
<1>6. edits' \in 0 .. MaxEdits
  BY <1>1 DEF ToolsInv, Tools!ConstantsOK
<1> QED BY <1>1, <1>2, <1>3, <1>4, <1>5, <1>6 DEF ToolsInv, Tools!Files

LEMMA WriteHostsInv ==
  ASSUME Tools!ConstantsOK, ToolsInv, Tools!WriteHosts
  PROVE  ToolsInv'
<1> DEFINE K == IF Tools!Idle THEN {} ELSE {saving.hosts[call.ask.name]} \ {Nobody}
<1>1. /\ saving' = Tools!NoSave /\ inventory' = saving.hosts /\ view' = [view EXCEPT !.fresh = FALSE]
      /\ Tools!Seen(K) /\ edits' = edits
      /\ secrets' = secrets /\ transfers' = transfers /\ ran' = ran /\ calls' = calls
  BY DEF Tools!WriteHosts
<1>2. ServerOK' /\ view'.hosts = view.hosts
  BY <1>1 DEF ToolsInv, ServerOK, SavingOK
<1>3. SavingOK'
  BY <1>1, NoHostsType DEF SavingOK, Tools!NoSave
<1>4. K \subseteq Entries
  <2>1. ~ Tools!Idle => call.ask.name \in Names
    BY DEF ToolsInv, CallOK, Tools!ConstantsOK
  <2> QED BY <2>1 DEF ToolsInv, SavingOK, Listings
<1>5. (Tools!Idle => call = Tools!NoCall)' /\ CallOK'
  <2>1. ~ Tools!Idle /\ inventory' # Tools!NoHosts => inventory'[call.ask.name] \in K \cup {Nobody}
    BY <1>1
  <2> HIDE DEF K
  <2> QED BY <1>1, <1>2, <1>4, <2>1, ToolsSeenOK
<1>6. Tools!RunsAsConfigured'
  BY <1>1 DEF ToolsInv, Tools!RunsAsConfigured, Tools!Permitted
<1> QED BY <1>1, <1>2, <1>3, <1>5, <1>6 DEF ToolsInv, Tools!Files

\* Steps that neither the call nor the hosts notice.
LEMMA ToolsEnvInv ==
  ASSUME Tools!ConstantsOK, ToolsInv,
         \/ \E s \in {{}, Tools!Secrets} : Tools!OpenEnv(s)
         \/ Tools!WriteEnv \/ Tools!CreateDatabase \/ UNCHANGED Tools!vars
  PROVE  ToolsInv'
<1>1. /\ inventory' = inventory /\ view' = view /\ transfers' = transfers /\ call' = call
      /\ ran' = ran /\ calls' = calls
  BY DEF Tools!OpenEnv, Tools!WriteEnv, Tools!CreateDatabase, Tools!vars, Tools!gui, Tools!tools
<1>2. edits' \in 0 .. MaxEdits
  <2>1. edits' = edits \/ (edits < MaxEdits /\ edits' = edits + 1)
    BY DEF Tools!OpenEnv, Tools!WriteEnv, Tools!CreateDatabase, Tools!vars, Tools!gui
  <2> QED BY <2>1 DEF ToolsInv, Tools!ConstantsOK
<1>3. SavingOK' /\ secrets' \subseteq Tools!Secrets
  <2>1. CASE \E s \in {{}, Tools!Secrets} : Tools!OpenEnv(s)
    <3>1. PICK s \in {{}, Tools!Secrets} : Tools!OpenEnv(s)
      BY <2>1
    <3>2. saving' = [file |-> "env", hosts |-> Tools!NoHosts, env |-> s] /\ secrets' = {}
      BY <3>1 DEF Tools!OpenEnv
    <3> QED BY <3>2, NoHostsType DEF SavingOK, Tools!Secrets
  <2>2. CASE Tools!WriteEnv
    BY <2>2, NoHostsType DEF Tools!WriteEnv, ToolsInv, SavingOK, Tools!NoSave
  <2>3. CASE Tools!CreateDatabase \/ UNCHANGED Tools!vars
    BY <2>3 DEF Tools!CreateDatabase, Tools!vars, Tools!gui, ToolsInv, SavingOK
  <2> QED BY <2>1, <2>2, <2>3
<1>4. ServerOK'
  BY <1>1 DEF ToolsInv, ServerOK
<1>5. CallOK' /\ (Tools!Idle => call = Tools!NoCall)' /\ Tools!RunsAsConfigured'
  BY <1>1 DEF ToolsInv, CallOK, Tools!Idle, Tools!RunsAsConfigured, Tools!Permitted
<1> QED BY <1>1, <1>2, <1>3, <1>4, <1>5 DEF ToolsInv, Tools!Files

LEMMA ToolsRestartInv ==
  ASSUME Tools!ConstantsOK, ToolsInv, Tools!Restart
  PROVE  ToolsInv'
<1>1. /\ edits < MaxEdits /\ edits' = edits + 1 /\ call' = Tools!NoCall
      /\ view' = [hosts |-> inventory, fresh |-> TRUE] /\ inventory' = inventory /\ secrets' = secrets
      /\ saving' = saving /\ transfers' = transfers /\ ran' = ran /\ calls' = calls
  BY DEF Tools!Restart
<1>2. ServerOK' /\ SavingOK'
  BY <1>1 DEF ToolsInv, ServerOK, SavingOK
<1>3. edits' \in 0 .. MaxEdits
  BY <1>1 DEF ToolsInv, Tools!ConstantsOK
<1>4. Tools!RunsAsConfigured'
  BY <1>1 DEF ToolsInv, Tools!RunsAsConfigured, Tools!Permitted
<1> QED BY <1>1, <1>2, <1>3, <1>4, CallEnds DEF ToolsInv, Tools!Files

LEMMA ToolsNextInv ==
  ASSUME Tools!ConstantsOK, ToolsInv, [Tools!Next]_(Tools!vars)
  PROVE  ToolsInv'
<1>1. CASE \E c \in Calls : Tools!Enter(c)
  BY <1>1, EnterInv
<1>2. CASE Tools!ListHosts \/ Tools!CheckServices \/ Tools!SudoPassword \/ Tools!Connect \/ Tools!Login
  BY <1>2, ListHostsInv, CheckServicesInv, SudoPasswordInv, ConnectInv, LoginInv
<1>3. CASE Tools!Fails \/ Tools!Runs \/ Tools!Downloads
  BY <1>3, FailsInv, RunsInv, DownloadsInv
<1>4. CASE \E i \in Inventories : Tools!OpenHosts(i)
  BY <1>4, OpenHostsInv
<1>5. CASE Tools!WriteHosts
  BY <1>5, WriteHostsInv
<1>6. CASE (\E s \in {{}, Tools!Secrets} : Tools!OpenEnv(s)) \/ Tools!WriteEnv \/ Tools!CreateDatabase \/ UNCHANGED Tools!vars
  BY <1>6, ToolsEnvInv
<1>7. CASE Tools!Restart
  BY <1>7, ToolsRestartInv
<1> QED BY <1>1, <1>2, <1>3, <1>4, <1>5, <1>6, <1>7 DEF Tools!Next

LEMMA ToolsAlways == Tools!Spec => []ToolsInv
<1>1. Tools!Init => ToolsInv
  BY ToolsInitInv, ToolsConstants
<1>2. ToolsInv /\ [Tools!Next]_(Tools!vars) => ToolsInv'
  BY ToolsNextInv, ToolsConstants
<1> QED BY <1>1, <1>2, PTL DEF Tools!Spec

\* Whatever an agent asks for, the GUI saves meanwhile and the host cuts short:
\* the call in progress, the inventory and the transferred files keep their
\* types (server.py).
THEOREM ToolsTyped == Tools!Spec => []Tools!TypeOK
<1>1. ToolsInv => Tools!TypeOK
  BY ToolsInvTypes, ToolsConstants
<1> QED BY <1>1, ToolsAlways, PTL

\* A command or a transfer reaches a host only if an entry of the host that
\* hosts.yaml held during the call permits it, although every connection looks
\* the host up again and the file is rewritten in between (server.py,
\* _current_hosts).
THEOREM RunAsConfigured == Tools!Spec => []RunsAsConfigured
<1>1. ToolsInv => RunsAsConfigured
  BY DEF ToolsInv, RunsAsConfigured
<1> QED BY <1>1, ToolsAlways, PTL
-----------------------------------------------------------------------------
(* Decisions from Webex                                                    *)

Proved == INSTANCE WebexApprovalProofs WITH
  Threads <- Clicks, MaxRequests <- MaxClicks,
  cache <- emails, thr <- click, requests <- clicks, edits <- links,
  overlapped <- crossed, damaged <- torn

\* WebexApprovalProofs speaks of the same initial states, steps and properties
\* as the instance that Portal checks.
LEMMA SameWebex ==
  /\ Proved!CapOK
  /\ Webex!Init => Proved!Init
  /\ [Webex!Next]_(Webex!vars) <=> [Proved!Next]_(Proved!vars)
  /\ Proved!TypeOK => Webex!TypeOK
  /\ Proved!DecidedOnce => DecidedOnce
BY WebexConstants DEF DecidedOnce, Webex!Cardinality, Proved!Cardinality, Webex!IsFiniteSet,
  Proved!IsFiniteSet,
  Webex!CapOK, Webex!Actions, Webex!Links, Webex!counters, Webex!history,
  Webex!vars, Webex!NoLink, Webex!Idle, Webex!Begun, Webex!Change,
  Webex!Action, Webex!Init, Webex!Begin, Webex!Propose,
  Webex!DecideElsewhere, Webex!Expire, Webex!Link, Webex!Click,
  Webex!Account, Webex!Press, Webex!After, Webex!MayDecide, Webex!Check,
  Webex!Save, Webex!Notice, Webex!ReadMarks, Webex!OpenMarks, Webex!Kept,
  Webex!WriteMarks, Webex!Crash, Webex!Request, Webex!Step, Webex!Next,
  Webex!TypeOK, Webex!DecidedOnce, Proved!CapOK, Proved!Actions,
  Proved!Links, Proved!counters, Proved!history, Proved!vars,
  Proved!NoLink, Proved!Idle, Proved!Begun, Proved!Change, Proved!Action,
  Proved!Init, Proved!Begin, Proved!Propose, Proved!DecideElsewhere,
  Proved!Expire, Proved!Link, Proved!Click, Proved!Account, Proved!Press,
  Proved!After, Proved!MayDecide, Proved!Check, Proved!Save,
  Proved!Notice, Proved!ReadMarks, Proved!OpenMarks, Proved!Kept,
  Proved!WriteMarks, Proved!Crash, Proved!Request, Proved!Step,
  Proved!Next, Proved!TypeOK, Proved!DecidedOnce

\* Every variable keeps its type, whatever is pressed, confirmed, expired or
\* cut short (webex_approval.py).
THEOREM WebexTyped == Webex!Spec => []Webex!TypeOK
BY SameWebex, Proved!TypeCorrect, PTL DEF Webex!Spec, Proved!Spec

\* While requests take turns no change is decided twice by button or link
\* (approve_change, reject_change and the checks of store.approve).
THEOREM OneDecision == Webex!Spec => []DecidedOnce
BY SameWebex, Proved!OneDecision, PTL DEF Webex!Spec, Proved!Spec

\* While requests take turns a link whose mark was written decides nothing,
\* unless the list was truncated or Cap used links are above it
\* (_mark_token_used).
THEOREM LinksRefused == Webex!Spec => SpentLinksRefused
<1>1. [\A t \in Clicks, l \in spent :
           click[t] = Proved!Idle /\ click'[t].via = "link" /\ click'[t].link = l =>
             \/ crossed' \/ torn
             \/ Proved!Cardinality({k \in spent : Rank[k] > Rank[l]}) >= Cap]_(Proved!vars)
      => [\A t \in Clicks, l \in spent :
              click[t] = Webex!Idle /\ click'[t].via = "link" /\ click'[t].link = l =>
                \/ crossed' \/ torn
                \/ Webex!Cardinality({k \in spent : Rank[k] > Rank[l]}) >= Cap]_(Webex!vars)
  BY DEF Webex!Cardinality, Proved!Cardinality, Webex!IsFiniteSet, Proved!IsFiniteSet,
    Webex!Idle, Proved!Idle, Webex!NoLink, Proved!NoLink, Webex!vars, Proved!vars,
    Webex!counters, Proved!counters, Webex!history, Proved!history
<1> QED BY <1>1, SameWebex, Proved!LinksRefused, PTL
  DEF Webex!Spec, Proved!Spec, SpentLinksRefused, Webex!SpentLinksRefused, Proved!SpentLinksRefused
-----------------------------------------------------------------------------
(* The host pages of the admin GUI                                         *)
\* Induction over the numbers, for a set of them: the least number outside S
\* would contradict the step.
LEMMA InAll ==
  ASSUME NEW S, 0 \in S, \A n \in Nat : n \in S => n + 1 \in S
  PROVE  \A n \in Nat : n \in S
<1> DEFINE R == OpToRel(<, Nat)
           T == {n \in Nat : n \notin S}
<1>1. IsWellFoundedOn(R, Nat)
  BY NatLessThanWellFounded
<1>2. \A m, n \in Nat : m < n => <<m, n>> \in R
  BY DEF OpToRel
<1> HIDE DEF R
<1>3. SUFFICES ASSUME T # {} PROVE FALSE
  OBVIOUS
<1>4. PICK n \in T : \A m \in T : ~ (<<m, n>> \in R)
  BY <1>1, <1>3, WFMin
<1>5. n # 0 /\ n \in Nat /\ n - 1 \in Nat /\ n - 1 < n
  BY <1>4
<1>6. n - 1 \in S
  BY <1>2, <1>4, <1>5
<1> QED BY <1>4, <1>5, <1>6

\* f starts with base, and g makes each of its values of the one before.
Folds(f, n, S, base, g) ==
  f \in [0 .. n -> S] /\ f[0] = base /\ \A i \in 1 .. n : f[i] = g[<<i, f[i - 1]>>]

LEMMA FoldExists ==
  ASSUME NEW n \in Nat, NEW S, NEW base \in S, NEW g \in [(1 .. n) \X S -> S]
  PROVE  \E f : Folds(f, n, S, base, g)
<1> DEFINE Up(f, k) == f[0] = base /\ \A i \in 1 .. k : f[i] = g[<<i, f[i - 1]>>]
           T == {k \in Nat : k <= n => \E f \in [0 .. n -> S] : Up(f, k)}
<1>1. 0 \in T
  <2>1. [i \in 0 .. n |-> base] \in [0 .. n -> S] /\ 0 \in 0 .. n /\ 1 .. 0 = {}
    OBVIOUS
  <2> QED BY <2>1
<1>2. ASSUME NEW k \in Nat, k \in T PROVE k + 1 \in T
  <2> SUFFICES ASSUME k + 1 <= n PROVE \E f \in [0 .. n -> S] : Up(f, k + 1)
    OBVIOUS
  <2>1. PICK f \in [0 .. n -> S] : Up(f, k)
    BY <1>2
  <2> DEFINE e == [f EXCEPT ![k + 1] = g[<<k + 1, f[k]>>]]
  <2>2. k \in 0 .. n /\ k + 1 \in 1 .. n /\ k + 1 \in 0 .. n /\ f[k] \in S
    OBVIOUS
  <2>3. g[<<k + 1, f[k]>>] \in S
    BY <2>2
  <2>4. e \in [0 .. n -> S] /\ e[k + 1] = g[<<k + 1, f[k]>>] /\ \A i \in 0 .. n : i # k + 1 => e[i] = f[i]
    BY <2>2, <2>3
  <2> HIDE DEF e
  <2>5. e[0] = base
    BY <2>1, <2>4
  <2>6. ASSUME NEW i \in 1 .. (k + 1) PROVE e[i] = g[<<i, e[i - 1]>>]
    <3>1. CASE i = k + 1
      <4>1. i - 1 = k /\ k # k + 1
        BY <3>1
      <4>2. e[k] = f[k]
        BY <2>2, <2>4, <4>1
      <4> QED BY <2>4, <3>1, <4>1, <4>2
    <3>2. CASE i # k + 1
      <4>1. i \in 1 .. k /\ i - 1 \in 0 .. n /\ i - 1 # k + 1 /\ i \in 0 .. n
        BY <2>2, <3>2
      <4> QED BY <2>1, <2>4, <3>2, <4>1
    <3> QED BY <3>1, <3>2
  <2> QED BY <2>4, <2>5, <2>6
<1>3. \A k \in Nat : k \in T
  <2> HIDE DEF T
  <2> QED BY <1>1, <1>2, InAll
<1>4. n \in T
  BY <1>3
<1> QED BY <1>4 DEF Folds

\* What holds at 0 and from each number to the next holds up to n.
LEMMA UpTo ==
  ASSUME NEW n \in Nat, NEW S, 0 \in S, \A i \in 1 .. n : i - 1 \in S => i \in S
  PROVE  n \in S
<1> DEFINE T == {k \in Nat : k <= n => k \in S}
<1>1. 0 \in T
  OBVIOUS
<1>2. ASSUME NEW k \in Nat, k \in T PROVE k + 1 \in T
  <2>1. k + 1 <= n => k + 1 \in 1 .. n /\ (k + 1) - 1 = k /\ k <= n
    OBVIOUS
  <2> QED BY <1>2, <2>1
<1>3. \A k \in Nat : k \in T
  <2> HIDE DEF T
  <2> QED BY <1>1, <1>2, InAll
<1> QED BY <1>3

LEMMA AppendType ==
  ASSUME NEW S, NEW s \in Seq(S), NEW x \in S
  PROVE  Append(s, x) \in Seq(S) /\ Len(Append(s, x)) = Len(s) + 1 /\ Len(s) \in Nat
OBVIOUS

LEMMA PickedType ==
  ASSUME NEW rows \in Seq(Addrs), NEW I
  PROVE  Console!Picked(rows, I) \in Seq(Addrs) /\ Len(Console!Picked(rows, I)) <= Len(rows)
<1> DEFINE n == Len(rows)
           F(s, i) == IF i = 0 THEN <<>> ELSE IF i \in I THEN Append(s[i - 1], rows[i]) ELSE s[i - 1]
           some == CHOOSE s : s = [i \in 0 .. n |-> F(s, i)]
           G == [x \in (1 .. n) \X Seq(Addrs) |-> IF x[1] \in I THEN Append(x[2], rows[x[1]]) ELSE x[2]]
<1>1. n \in Nat /\ \A i \in 1 .. n : rows[i] \in Addrs
  OBVIOUS
<1> HIDE DEF n
<1>2. G \in [(1 .. n) \X Seq(Addrs) -> Seq(Addrs)]
  BY <1>1
<1>3. <<>> \in Seq(Addrs)
  OBVIOUS
<1>4. PICK f : Folds(f, n, Seq(Addrs), <<>>, G)
  <2> HIDE DEF G, F, some
  <2> QED BY <1>1, <1>2, <1>3, FoldExists
<1>4a. f \in [0 .. n -> Seq(Addrs)] /\ f[0] = <<>> /\ \A i \in 1 .. n : f[i] = G[<<i, f[i - 1]>>]
  BY <1>4, Zenon DEF Folds
<1>5. ASSUME NEW i \in 0 .. n PROVE f[i] = F(f, i)
  <2>1. CASE i = 0
    BY <1>4a, <2>1
  <2>2. CASE i # 0
    <3>1. i \in 1 .. n /\ i - 1 \in 0 .. n
      BY <1>1, <2>2
    <3>2. f[i - 1] \in Seq(Addrs)
      BY <1>4a, <3>1
    <3>3. <<i, f[i - 1]>> \in (1 .. n) \X Seq(Addrs)
      BY <3>1, <3>2
    <3>4. G[<<i, f[i - 1]>>] = IF i \in I THEN Append(f[i - 1], rows[i]) ELSE f[i - 1]
      BY <3>3
    <3> QED BY <1>4a, <2>2, <3>1, <3>4
  <2> QED BY <2>1, <2>2
<1>6. f = [i \in 0 .. n |-> F(f, i)]
  <2> HIDE DEF F
  <2> QED BY <1>4a, <1>5
<1>7. some = [i \in 0 .. n |-> F(some, i)]
  <2> HIDE DEF F
  <2> QED BY <1>6
<1> HIDE DEF some
<1>8. some[0] = <<>> /\ \A i \in 1 .. n : some[i] = IF i \in I THEN Append(some[i - 1], rows[i]) ELSE some[i - 1]
  <2>1. \A i \in 0 .. n : some[i] = F(some, i)
    <3> HIDE DEF F
    <3> QED BY <1>7
  <2> QED BY <1>1, <2>1
<1> DEFINE S == {i \in 0 .. n : some[i] \in Seq(Addrs) /\ Len(some[i]) <= i}
<1>9. 0 \in S
  <2>1. some[0] = <<>> /\ 0 \in 0 .. n
    BY <1>1, <1>8
  <2>2. \A s : s = <<>> => s \in Seq(Addrs) /\ Len(s) <= 0
    OBVIOUS
  <2> QED BY <2>1, <2>2
<1>10. ASSUME NEW i \in 1 .. n, i - 1 \in S PROVE i \in S
  <2>1. i \in 0 .. n /\ i \in Nat /\ rows[i] \in Addrs
    BY <1>1
  <2>2. some[i - 1] \in Seq(Addrs) /\ Len(some[i - 1]) <= i - 1 /\ Len(some[i - 1]) \in Nat
    BY <1>10
  <2>3. some[i] = some[i - 1] \/ some[i] = Append(some[i - 1], rows[i])
    BY <1>8
  <2>4. /\ Append(some[i - 1], rows[i]) \in Seq(Addrs)
        /\ Len(Append(some[i - 1], rows[i])) = Len(some[i - 1]) + 1
    BY <2>1, <2>2, AppendType
  <2>5. some[i] \in Seq(Addrs)
    BY <2>2, <2>3, <2>4
  <2>6. Len(some[i]) = Len(some[i - 1]) \/ Len(some[i]) = Len(some[i - 1]) + 1
    BY <2>3, <2>4
  <2>7. \A a, b \in Nat : a <= i - 1 /\ (b = a \/ b = a + 1) => b <= i
    BY <2>1
  <2> HIDE DEF some
  <2>8. Len(some[i]) <= i
    BY <2>2, <2>5, <2>6, <2>7
  <2> QED BY <2>1, <2>5, <2>8
<1>11. n \in S
  <2> HIDE DEF S
  <2> QED BY <1>1, <1>9, <1>10, UpTo
<1>12. Console!Picked(rows, I) = some[n]
  BY DEF Console!Picked, some, n
<1> QED BY <1>11, <1>12 DEF n


LEMMA MergedType ==
  ASSUME NEW rows \in Seq(Addrs)
  PROVE  Console!Merged(rows) \in Seq(Addrs) /\ Len(Console!Merged(rows)) <= Len(rows)
BY PickedType DEF Console!Merged

-----------------------------------------------------------------------------
(* What an import makes of the hosts                                       *)

Jobs == {"idle", "running", "done", "error"}
Configs == [Keys -> Addrs \cup {"none"}]
Sets == {Console!SetSecret(k) : k \in Keys}
AtMostOne(S) == \A x, y \in S : x = y

\* The instance's sizes are those that the theorems on finite sets speak of.
LEMMA SameSizes ==
  \A S : Console!Cardinality(S) = Cardinality(S) /\ (Console!IsFiniteSet(S) <=> IsFiniteSet(S))
BY DEF Console!Cardinality, Cardinality, Console!IsFiniteSet, IsFiniteSet

LEMMA FewKeys ==
  ASSUME Console!ConstantsOK, NEW K, K \subseteq Keys
  PROVE  Cardinality(K) <= 1 <=> AtMostOne(K)
<1>1. IsFiniteSet(K) /\ Cardinality(K) \in Nat
  BY SameSizes, FS_Subset, FS_CardinalityType DEF Console!ConstantsOK
<1>2. Cardinality(K) <= 1 <=> Cardinality(K) = 0 \/ Cardinality(K) = 1
  BY <1>1
<1>3. Cardinality(K) = 0 <=> K = {}
  BY <1>1, FS_EmptySet
<1>4. Cardinality(K) = 1 <=> \E x : K = {x}
  BY <1>1, FS_Singleton
<1>5. AtMostOne(K) <=> K = {} \/ \E x : K = {x}
  BY DEF AtMostOne
<1> QED BY <1>2, <1>3, <1>4, <1>5

\* What a merge makes of the hosts cfg: the entries there were, no address
\* twice that was not there twice, and passwords only for hosts there are.
Merges(cfg) ==
  {m \in [cfg : Configs, done : Seq(Sets)] :
     /\ \A k \in Keys : cfg[k] # "none" => m.cfg[k] = cfg[k]
     /\ \A a \in Addrs : AtMostOne(Console!KeysOf(cfg, a)) => AtMostOne(Console!KeysOf(m.cfg, a))
     /\ \A i \in 1 .. Len(m.done) : m.cfg[m.done[i].key] # "none"}

LEMMA MergeOneMerges ==
  ASSUME Console!ConstantsOK, NEW cfg \in Configs, NEW m \in Merges(cfg), NEW a \in Addrs
  PROVE  Console!MergeOne(m, a) \in Merges(cfg)
<1> DEFINE known == Console!KeysOf(m.cfg, a)
           key == IF known # {} THEN CHOOSE k \in known : TRUE ELSE Console!HostKey(m.cfg, a)
           new == [m.cfg EXCEPT ![key] = a]
           done == Append(m.done, Console!SetSecret(key))
<1>1. /\ m.cfg \in Configs /\ m.done \in Seq(Sets) /\ m = [cfg |-> m.cfg, done |-> m.done]
      /\ \A k \in Keys : cfg[k] # "none" => m.cfg[k] = cfg[k]
      /\ \A b \in Addrs : AtMostOne(Console!KeysOf(cfg, b)) => AtMostOne(Console!KeysOf(m.cfg, b))
      /\ \A i \in 1 .. Len(m.done) : m.cfg[m.done[i].key] # "none"
  BY DEF Merges
<1>2. CASE a \notin Importable \/ (known = {} /\ m.cfg[key] # "none")
  BY <1>2 DEF Console!MergeOne
<1>3. CASE ~ (a \notin Importable \/ (known = {} /\ m.cfg[key] # "none"))
  <2>1. key \in Keys /\ (known # {} => m.cfg[key] = a) /\ (known = {} => m.cfg[key] = "none")
    <3>1. known \subseteq Keys /\ \A k \in known : m.cfg[k] = a
      BY DEF Console!KeysOf
    <3>2. known # {} => (CHOOSE k \in known : TRUE) \in known
      OBVIOUS
    <3>3. Console!HostKey(m.cfg, a) \in Keys
      BY DEF Console!HostKey, Console!ConstantsOK
    <3> QED BY <1>3, <3>1, <3>2, <3>3
  <2> HIDE DEF key
  <2>2. Console!MergeOne(m, a) = [cfg |-> new, done |-> done]
    BY <1>3 DEF Console!MergeOne, key
  <2>3. new \in Configs /\ new[key] = a /\ a # "none" /\ \A k \in Keys : k # key => new[k] = m.cfg[k]
    BY <1>1, <2>1 DEF Configs, Console!ConstantsOK
  <2>4. Console!SetSecret(key) \in Sets /\ Console!SetSecret(key).key = key
    BY <2>1 DEF Sets, Console!SetSecret, Console!Effect
  <2>5. /\ done \in Seq(Sets) /\ Len(done) = Len(m.done) + 1 /\ Len(m.done) \in Nat
        /\ done[Len(m.done) + 1] = Console!SetSecret(key) /\ \A i \in 1 .. Len(m.done) : done[i] = m.done[i]
    <3> HIDE DEF Merges
    <3> QED BY <1>1, <2>4
  <2> HIDE DEF new, done
  <2>6. ASSUME NEW k \in Keys, cfg[k] # "none" PROVE new[k] = cfg[k]
    BY <1>1, <2>1, <2>3, <2>6
  <2>7. ASSUME NEW b \in Addrs, AtMostOne(Console!KeysOf(cfg, b)) PROVE AtMostOne(Console!KeysOf(new, b))
    <3>1. AtMostOne(Console!KeysOf(m.cfg, b))
      BY <1>1, <2>7
    <3>2. CASE known # {}
      <4>1. \A k \in Keys : new[k] = m.cfg[k]
        BY <2>1, <2>3, <3>2
      <4> QED BY <3>1, <4>1 DEF AtMostOne, Console!KeysOf
    <3>3. CASE known = {} /\ b = a
      BY <2>3, <3>3 DEF AtMostOne, Console!KeysOf
    <3>4. CASE known = {} /\ b # a
      BY <2>1, <2>3, <3>1, <3>4 DEF AtMostOne, Console!KeysOf
    <3> QED BY <3>2, <3>3, <3>4
  <2>8. ASSUME NEW k \in Keys, m.cfg[k] # "none" PROVE new[k] # "none"
    BY <2>3, <2>8
  <2>9. ASSUME NEW i \in 1 .. Len(done) PROVE new[done[i].key] # "none"
    <3>1. CASE i = Len(m.done) + 1
      BY <2>3, <2>4, <2>5, <3>1
    <3>2. CASE i # Len(m.done) + 1
      <4>1. i \in 1 .. Len(m.done)
        BY <2>5, <3>2
      <4>2. done[i] = m.done[i] /\ m.done[i] \in Sets
        BY <1>1, <2>5, <4>1
      <4>3. m.done[i].key \in Keys
        BY <4>2 DEF Sets, Console!SetSecret, Console!Effect
      <4> QED BY <1>1, <2>8, <4>1, <4>2, <4>3
    <3> QED BY <3>1, <3>2
  <2> QED BY <2>2, <2>3, <2>5, <2>6, <2>7, <2>9 DEF Merges
<1> QED BY <1>2, <1>3

LEMMA MergeSelectedMerges ==
  ASSUME Console!ConstantsOK, NEW cfg \in Configs, NEW rows \in Seq(Addrs), NEW sel
  PROVE  Console!MergeSelected(cfg, rows, sel) \in Merges(cfg)
<1> DEFINE n == Len(rows)
           base == [cfg |-> cfg, done |-> <<>>]
           F(s, i) == IF i = 0 THEN base ELSE IF i \in sel THEN Console!MergeOne(s[i - 1], rows[i]) ELSE s[i - 1]
           sofar == CHOOSE s : s = [i \in 0 .. n |-> F(s, i)]
           G == [x \in (1 .. n) \X Merges(cfg) |-> IF x[1] \in sel THEN Console!MergeOne(x[2], rows[x[1]]) ELSE x[2]]
<1>1. n \in Nat /\ \A i \in 1 .. n : rows[i] \in Addrs
  OBVIOUS
<1> HIDE DEF n
<1>2. G \in [(1 .. n) \X Merges(cfg) -> Merges(cfg)]
  BY <1>1, MergeOneMerges
<1>3. base \in Merges(cfg)
  <2>1. \A s : s = <<>> => s \in Seq(Sets) /\ 1 .. Len(s) = {}
    OBVIOUS
  <2> QED BY <2>1 DEF Merges
<1>4. PICK f : Folds(f, n, Merges(cfg), base, G)
  <2> HIDE DEF G, F, sofar, base
  <2> QED BY <1>1, <1>2, <1>3, FoldExists
<1>4a. f \in [0 .. n -> Merges(cfg)] /\ f[0] = base /\ \A i \in 1 .. n : f[i] = G[<<i, f[i - 1]>>]
  BY <1>4, Zenon DEF Folds
<1>5. ASSUME NEW i \in 0 .. n PROVE f[i] = F(f, i)
  <2>1. CASE i = 0
    BY <1>4a, <2>1
  <2>2. CASE i # 0
    <3>1. i \in 1 .. n /\ i - 1 \in 0 .. n
      BY <1>1, <2>2
    <3>2. f[i - 1] \in Merges(cfg)
      BY <1>4a, <3>1
    <3>3. <<i, f[i - 1]>> \in (1 .. n) \X Merges(cfg)
      BY <3>1, <3>2
    <3>4. G[<<i, f[i - 1]>>] = IF i \in sel THEN Console!MergeOne(f[i - 1], rows[i]) ELSE f[i - 1]
      BY <3>3
    <3> QED BY <1>4a, <2>2, <3>1, <3>4
  <2> QED BY <2>1, <2>2
<1>6. f = [i \in 0 .. n |-> F(f, i)]
  <2> HIDE DEF F
  <2> QED BY <1>4a, <1>5
<1>7. sofar = [i \in 0 .. n |-> F(sofar, i)]
  <2> HIDE DEF F
  <2> QED BY <1>6
<1> HIDE DEF sofar
<1>8. sofar[0] = base
      /\ \A i \in 1 .. n : sofar[i] = IF i \in sel THEN Console!MergeOne(sofar[i - 1], rows[i]) ELSE sofar[i - 1]
  <2>1. \A i \in 0 .. n : sofar[i] = F(sofar, i)
    <3> HIDE DEF F
    <3> QED BY <1>7
  <2> QED BY <1>1, <2>1
<1> DEFINE S == {i \in 0 .. n : sofar[i] \in Merges(cfg)}
<1>9. 0 \in S
  BY <1>1, <1>3, <1>8
<1>10. ASSUME NEW i \in 1 .. n, i - 1 \in S PROVE i \in S
  BY <1>1, <1>8, <1>10, MergeOneMerges
<1>11. n \in S
  <2> HIDE DEF S
  <2> QED BY <1>1, <1>9, <1>10, UpTo
<1>12. Console!MergeSelected(cfg, rows, sel) = sofar[n]
  BY DEF Console!MergeSelected, sofar, n
<1> QED BY <1>11, <1>12

-----------------------------------------------------------------------------
(* What a handler has to do                                                *)

Effects == Sets \cup {Console!DropSecret(k) : k \in Keys} \cup {Console!WriteJob(st) : st \in Jobs}
             \cup {Console!WriteHosts, Console!WriteStaging, Console!Touch, Console!StartThread}

LEMMA EffectFields ==
  /\ \A k : /\ Console!SetSecret(k).file = "env" /\ Console!SetSecret(k).on = TRUE /\ Console!SetSecret(k).key = k
            /\ Console!DropSecret(k).file = "env" /\ Console!DropSecret(k).on = FALSE /\ Console!DropSecret(k).key = k
            /\ Console!WriteJob(k).file = "job" /\ Console!WriteJob(k).key = k
  /\ Console!WriteHosts.file = "hosts" /\ Console!WriteStaging.file = "staging" /\ Console!Touch.file = "touch"
  /\ Console!StartThread.file = "thread"
  /\ \A k \in Keys : Console!SetSecret(k) \in Sets /\ Console!SetSecret(k) \in Effects /\ Console!DropSecret(k) \in Effects
  /\ \A st \in Jobs : Console!WriteJob(st) \in Effects
  /\ {Console!WriteHosts, Console!WriteStaging, Console!Touch, Console!StartThread} \subseteq Effects /\ Sets \subseteq Effects
BY DEF Effects, Sets, Console!SetSecret, Console!DropSecret, Console!WriteJob, Console!WriteHosts,
  Console!WriteStaging, Console!Touch,
  Console!StartThread, Console!Effect

LEMMA EffectFacts ==
  ASSUME NEW e \in Effects
  PROVE  /\ e.file \in {"env", "hosts", "staging", "job", "touch", "thread"}
         /\ e.file = "env" => e.key \in Keys /\ e.on \in BOOLEAN
         /\ e.file = "env" /\ e.on => e = Console!SetSecret(e.key)
         /\ e.file = "env" /\ ~ e.on => e = Console!DropSecret(e.key)
         /\ e.file = "hosts" <=> e = Console!WriteHosts
         /\ e.file = "job" => e.key \in Jobs
         /\ e = Console!StartThread => e.file = "thread"
<1>1. CASE e \in Sets
  <2>1. PICK k \in Keys : e = Console!SetSecret(k)
    BY <1>1 DEF Sets
  <2> QED BY <2>1, EffectFields
<1>2. CASE e \in {Console!DropSecret(k) : k \in Keys}
  <2>1. PICK k \in Keys : e = Console!DropSecret(k)
    BY <1>2
  <2> QED BY <2>1, EffectFields
<1>3. CASE e \in {Console!WriteJob(st) : st \in Jobs}
  <2>1. PICK st \in Jobs : e = Console!WriteJob(st)
    BY <1>3
  <2> QED BY <2>1, EffectFields
<1>4. CASE e \in {Console!WriteHosts, Console!WriteStaging, Console!Touch, Console!StartThread}
  BY <1>4, EffectFields
<1> QED BY <1>1, <1>2, <1>3, <1>4 DEF Effects

In(e, todo) == \E i \in 1 .. Len(todo) : todo[i] = e

\* Passwords come before hosts.yaml, and the deletion of one after it.
Ordered(todo) ==
  \A i, j \in 1 .. Len(todo) :
    todo[i] = Console!WriteHosts /\ todo[j].file = "env" => IF todo[j].on THEN j < i ELSE i < j

LEMMA HeadTail ==
  ASSUME NEW s \in Seq(Effects), s # <<>>
  PROVE  /\ Head(s) \in Effects /\ Tail(s) \in Seq(Effects)
         /\ \A e : In(e, s) <=> e = Head(s) \/ In(e, Tail(s))
         /\ Ordered(s) => Ordered(Tail(s))
         /\ Ordered(s) /\ Head(s) = Console!WriteHosts => \A k \in Keys : ~ In(Console!SetSecret(k), s)
         /\ Ordered(s) /\ Head(s).file = "env" /\ ~ Head(s).on => ~ In(Console!WriteHosts, s)
<1>1. /\ Len(s) \in Nat /\ Len(s) # 0 /\ 1 \in 1 .. Len(s) /\ Head(s) = s[1] /\ s[1] \in Effects
      /\ Tail(s) \in Seq(Effects) /\ Len(Tail(s)) = Len(s) - 1
  OBVIOUS
<1>2. \A i \in 1 .. Len(Tail(s)) : Tail(s)[i] = s[i + 1] /\ i + 1 \in 1 .. Len(s)
  OBVIOUS
<1>3. \A i \in 1 .. Len(s) : i = 1 \/ (i - 1 \in 1 .. Len(Tail(s)) /\ s[i] = Tail(s)[i - 1])
  <2> TAKE i \in 1 .. Len(s)
  <2> SUFFICES ASSUME i # 1 PROVE i - 1 \in 1 .. Len(Tail(s)) /\ s[i] = Tail(s)[i - 1]
    OBVIOUS
  <2> DEFINE k == i - 1
  <2>1. k \in 1 .. Len(Tail(s)) /\ k + 1 = i
    BY <1>1
  <2> HIDE DEF k
  <2>2. s[i] = Tail(s)[k]
    BY <1>2, <2>1
  <2> QED BY <2>1, <2>2 DEF k
<1>4. \A e : In(e, s) <=> e = Head(s) \/ In(e, Tail(s))
  BY <1>1, <1>2, <1>3 DEF In
<1>5. ASSUME Ordered(s) PROVE Ordered(Tail(s))
  <2> SUFFICES ASSUME NEW i \in 1 .. Len(Tail(s)), NEW j \in 1 .. Len(Tail(s)),
                      Tail(s)[i] = Console!WriteHosts, Tail(s)[j].file = "env"
               PROVE  IF Tail(s)[j].on THEN j < i ELSE i < j
    BY DEF Ordered
  <2>1. /\ s[i + 1] = Console!WriteHosts /\ s[j + 1].file = "env" /\ s[j + 1].on = Tail(s)[j].on
        /\ i + 1 \in 1 .. Len(s) /\ j + 1 \in 1 .. Len(s)
    BY <1>2
  <2>2. IF s[j + 1].on THEN j + 1 < i + 1 ELSE i + 1 < j + 1
    BY <1>5, <2>1 DEF Ordered
  <2>3. i \in Nat /\ j \in Nat
    OBVIOUS
  <2> QED BY <2>1, <2>2, <2>3
<1>6. ASSUME Ordered(s), Head(s) = Console!WriteHosts, NEW k \in Keys, In(Console!SetSecret(k), s) PROVE FALSE
  <2>1. PICK j \in 1 .. Len(s) : s[j] = Console!SetSecret(k)
    BY <1>6 DEF In
  <2>2. j < 1
    BY <1>1, <1>6, <2>1, EffectFields DEF Ordered
  <2> QED BY <2>2
<1>7. ASSUME Ordered(s), Head(s).file = "env", ~ Head(s).on, In(Console!WriteHosts, s) PROVE FALSE
  <2>1. PICK i \in 1 .. Len(s) : s[i] = Console!WriteHosts
    BY <1>7 DEF In
  <2>2. i < 1
    BY <1>1, <1>7, <2>1 DEF Ordered
  <2> QED BY <2>2
<1> QED BY <1>1, <1>4, <1>5, <1>6, <1>7

LEMMA EmptyTodo ==
  /\ <<>> \in Seq(Effects) /\ <<>> \in Seq(Sets) /\ <<>> \in Seq(Addrs) /\ Len(<<>>) = 0
  /\ Ordered(<<>>) /\ \A e : ~ In(e, <<>>)
<1>1. \A s : s = <<>> => s \in Seq(Effects) /\ s \in Seq(Sets) /\ s \in Seq(Addrs) /\ Len(s) = 0
  OBVIOUS
<1>2. 1 .. 0 = {}
  OBVIOUS
<1> QED BY <1>1, <1>2 DEF Ordered, In

\* One effect, or two, of which the first is no password.
LEMMA ShortTodo ==
  ASSUME NEW a \in Effects, NEW b \in Effects, NEW c \in Effects,
         a.file # "env", b.file # "hosts", c.file \notin {"env", "hosts"},
         b.file = "env" => ~ b.on
  PROVE  /\ <<a>> \in Seq(Effects) /\ <<a>> # <<>> /\ Ordered(<<a>>)
         /\ \A e : In(e, <<a>>) <=> e = a
         /\ <<b>> \in Seq(Effects) /\ <<b>> # <<>> /\ Ordered(<<b>>)
         /\ \A e : In(e, <<b>>) <=> e = b
         /\ <<a, b>> \in Seq(Effects) /\ <<a, b>> # <<>> /\ Ordered(<<a, b>>)
         /\ \A e : In(e, <<a, b>>) <=> e = a \/ e = b
         /\ <<a, b, c>> \in Seq(Effects) /\ <<a, b, c>> # <<>> /\ Ordered(<<a, b, c>>)
         /\ \A e : In(e, <<a, b, c>>) <=> e = a \/ e = b \/ e = c
<1>1. \A e \in Effects : e = Console!WriteHosts <=> e.file = "hosts"
  BY EffectFacts
<1>2. /\ <<a>> \in Seq(Effects) /\ <<b>> \in Seq(Effects) /\ <<a, b>> \in Seq(Effects)
      /\ <<a, b, c>> \in Seq(Effects) /\ <<a>> # <<>> /\ <<b>> # <<>> /\ <<a, b>> # <<>>
      /\ <<a, b, c>> # <<>>
  OBVIOUS
<1>3. /\ Len(<<a>>) = 1 /\ Len(<<b>>) = 1 /\ Len(<<a, b>>) = 2 /\ Len(<<a, b, c>>) = 3
      /\ <<a>>[1] = a /\ <<b>>[1] = b /\ <<a, b>>[1] = a /\ <<a, b>>[2] = b
      /\ <<a, b, c>>[1] = a /\ <<a, b, c>>[2] = b /\ <<a, b, c>>[3] = c
  OBVIOUS
<1>4. 1 .. 1 = {1} /\ 1 .. 2 = {1, 2} /\ 1 .. 3 = {1, 2, 3}
  OBVIOUS
<1>5. /\ \A e : In(e, <<a>>) <=> e = a
      /\ \A e : In(e, <<b>>) <=> e = b
      /\ \A e : In(e, <<a, b>>) <=> e = a \/ e = b
      /\ \A e : In(e, <<a, b, c>>) <=> e = a \/ e = b \/ e = c
  BY <1>3, <1>4 DEF In
<1>6. Ordered(<<a>>)
  BY <1>1, <1>3, <1>4 DEF Ordered
<1>7. Ordered(<<b>>)
  BY <1>1, <1>3, <1>4 DEF Ordered
<1>8. Ordered(<<a, b>>)
  <2> DEFINE s == <<a, b>>
  <2> SUFFICES ASSUME NEW i \in 1 .. 2, NEW j \in 1 .. 2, s[i] = Console!WriteHosts, s[j].file = "env"
               PROVE  IF s[j].on THEN j < i ELSE i < j
    BY <1>3 DEF Ordered
  <2>1. s[1] = a /\ s[2] = b
    OBVIOUS
  <2> HIDE DEF s
  <2>2. i = 1 /\ j = 2
    BY <1>1, <1>4, <2>1
  <2> QED BY <2>1, <2>2
<1>9. Ordered(<<a, b, c>>)
  <2> DEFINE s == <<a, b, c>>
  <2> SUFFICES ASSUME NEW i \in 1 .. 3, NEW j \in 1 .. 3, s[i] = Console!WriteHosts, s[j].file = "env"
               PROVE  IF s[j].on THEN j < i ELSE i < j
    BY <1>3 DEF Ordered
  <2>1. s[1] = a /\ s[2] = b /\ s[3] = c
    OBVIOUS
  <2> HIDE DEF s
  <2>2. i = 1 /\ j = 2
    BY <1>1, <1>4, <2>1
  <2> QED BY <2>1, <2>2
<1> QED BY <1>2, <1>5, <1>6, <1>7, <1>8, <1>9

\* Passwords, and then what is in rest.
LEMMA LongTodo ==
  ASSUME NEW s \in Seq(Sets), NEW r \in Seq(Effects), r # <<>>, Ordered(r),
         \A k \in Keys : ~ In(Console!SetSecret(k), r)
  PROVE  /\ s \o r \in Seq(Effects) /\ s \o r # <<>> /\ Ordered(s \o r)
         /\ \A e : In(e, s \o r) <=> In(e, s) \/ In(e, r)
         /\ \A e : In(e, s) => e \in Sets
<1> DEFINE w == s \o r
<1>1. Sets \subseteq Effects /\ \A e \in Sets : e.file = "env" /\ e.on = TRUE /\ e # Console!WriteHosts
  BY EffectFields DEF Sets
<1>2. /\ Len(s) \in Nat /\ Len(r) \in Nat /\ Len(r) # 0 /\ \A i \in 1 .. Len(s) : s[i] \in Sets
      /\ \A i \in 1 .. Len(r) : r[i] \in Effects
  OBVIOUS
<1>3. s \in Seq(Effects)
  <2>1. \A q : q \in Seq(Sets) => q \in Seq(Effects)
    BY <1>1
  <2> QED BY <2>1
<1>4. /\ w \in Seq(Effects) /\ Len(w) = Len(s) + Len(r)
      /\ \A i \in 1 .. Len(w) : w[i] = IF i <= Len(s) THEN s[i] ELSE r[i - Len(s)]
  BY <1>3
<1>5. w # <<>>
  BY <1>2, <1>4
<1> HIDE DEF w
<1>6. \A i \in 1 .. Len(w) : \/ i \in 1 .. Len(s) /\ w[i] = s[i]
                             \/ i - Len(s) \in 1 .. Len(r) /\ w[i] = r[i - Len(s)]
  BY <1>2, <1>4
<1>7. \A i \in 1 .. Len(s) : i \in 1 .. Len(w) /\ w[i] = s[i]
  BY <1>2, <1>4
<1>8. \A i \in 1 .. Len(r) : i + Len(s) \in 1 .. Len(w) /\ w[i + Len(s)] = r[i]
  <2> TAKE i \in 1 .. Len(r)
  <2>1. i + Len(s) \in 1 .. Len(w) /\ ~ (i + Len(s) <= Len(s)) /\ (i + Len(s)) - Len(s) = i
    BY <1>2, <1>4
  <2> QED BY <1>4, <2>1
<1>9. \A e : In(e, w) <=> In(e, s) \/ In(e, r)
  BY <1>6, <1>7, <1>8 DEF In
<1>10. Ordered(w)
  <2> SUFFICES ASSUME NEW i \in 1 .. Len(w), NEW j \in 1 .. Len(w),
                      w[i] = Console!WriteHosts, w[j].file = "env"
               PROVE  IF w[j].on THEN j < i ELSE i < j
    BY DEF Ordered
  <2>1. i - Len(s) \in 1 .. Len(r) /\ r[i - Len(s)] = Console!WriteHosts
    BY <1>1, <1>2, <1>6
  <2>2. CASE j \in 1 .. Len(s) /\ w[j] = s[j]
    BY <1>1, <1>2, <2>1, <2>2
  <2>3. CASE j - Len(s) \in 1 .. Len(r) /\ w[j] = r[j - Len(s)]
    <3>1. IF r[j - Len(s)].on THEN j - Len(s) < i - Len(s) ELSE i - Len(s) < j - Len(s)
      BY <2>1, <2>3 DEF Ordered
    <3> QED BY <1>2, <2>3, <3>1
  <2> QED BY <1>6, <2>2, <2>3
<1>11. \A e : In(e, s) => e \in Sets
  BY <1>2 DEF In
<1> QED BY <1>4, <1>5, <1>9, <1>10, <1>11 DEF w
-----------------------------------------------------------------------------
(* The state that a handler is in                                          *)

PageOps ==
  {"none", "save", "delete", "bulk", "reload", "upload", "edit", "add", "remove", "clear",
   "import", "run", "discover", "found", "render"}
PageHandlers ==
  [op : PageOps, at : {"idle", "env", "hosts", "run", "next", "read", "open"}, cfg : Configs,
   rows : Seq(Addrs), sel : SUBSET (Nat \cup Keys), secrets : SUBSET Keys, todo : Seq(Effects)]

Handled(h) ==
  /\ h \in PageHandlers
  /\ Len(h.rows) <= MaxRows
  /\ h.at \in {"next", "read", "open"} <=> h.todo # <<>>
  /\ h.at = "read" => Head(h.todo).file = "env"
  /\ h.at = "open" => Head(h.todo).file \in {"env", "hosts", "staging", "job"}
  /\ Ordered(h.todo)
  /\ In(Console!StartThread, h.todo) => \A e \in Effects : In(e, h.todo) => e = Console!StartThread
  /\ h.at # "hosts" => h.sel \subseteq Keys
  /\ h.sel # {} => \A k \in Keys : ~ In(Console!DropSecret(k), h.todo)
  /\ h.at \in {"read", "open"} /\ Head(h.todo).file = "env" =>
       (Head(h.todo).key \in h.secrets <=> Head(h.todo).on)

\* A request does not discover; a discovery touches the staged rows and the job.
Paged(h) == Handled(h) /\ h.op # "discover" /\ h.at # "run"
Background(h) ==
  /\ Handled(h)
  /\ h.at \notin {"env", "hosts", "read"}
  /\ \A e \in Effects : In(e, h.todo) => e.file \in {"staging", "job"}

ThreadsOK(x) ==
  /\ DOMAIN x = Console!Threads
  /\ \A t \in Pages : Paged(x[t])
  /\ \A t \in Workers : Background(x[t])

PageFilesOK ==
  /\ hosts \in Configs /\ env \subseteq Keys
  /\ staging \in Seq(Addrs) /\ Len(staging) <= MaxRows
  /\ job \in Jobs
Servers == [at : {"idle", "load"}, view : Configs, fresh : BOOLEAN, current : BOOLEAN]
PageTypeInv ==
  /\ PageFilesOK /\ ThreadsOK(page)
  /\ server \in Servers
  /\ imported \subseteq Keys
  /\ pages \in 0 .. MaxPages /\ restarts \in 0 .. MaxRestarts
  /\ overwritten \in BOOLEAN /\ cut \in BOOLEAN

\* .env and hosts.yaml as they will be when what is open has been written
\* and what is to be done has been done.
Opened(h, f) == h.at = "open" /\ Head(h.todo).file = f
EnvOf(h, E) == IF Opened(h, "env") THEN h.secrets ELSE E
HostsOf(h, H) == IF In(Console!WriteHosts, h.todo) THEN h.cfg ELSE H

\* What was read is still what is there, but for the change.
ReadOK(h, E) ==
  h.at = "read" => h.secrets = IF Head(h.todo).on THEN E \cup {Head(h.todo).key}
                                                  ELSE E \ {Head(h.todo).key}

\* Imported hosts have their password, and those that h is to import have it or
\* will be given it; a password to be deleted is that of a host that goes.
LoginOK(h, H, E, I) ==
  /\ ~ Opened(h, "hosts") => \A k \in I : H[k] # "none"
  /\ I \subseteq EnvOf(h, E)
  /\ h.at # "hosts" => \A k \in h.sel : k \in EnvOf(h, E) \/ In(Console!SetSecret(k), h.todo)
  /\ \A k \in Keys : In(Console!DropSecret(k), h.todo) =>
       h.cfg[k] = "none" /\ (In(Console!WriteHosts, h.todo) \/ H[k] = "none")
  /\ ReadOK(h, E)

\* A password is that of a host that there is or will be, or it will be deleted.
OrphanOK(h, H, E) ==
  /\ \A k \in EnvOf(h, E) : HostsOf(h, H)[k] # "none" \/ In(Console!DropSecret(k), h.todo)
  /\ \A k \in Keys : In(Console!SetSecret(k), h.todo) => HostsOf(h, H)[k] # "none"
  /\ h.at = "env" => h.cfg = H
  /\ ReadOK(h, E)

PageAlone(x, t) == \A u \in Pages : u # t => x[u] = Console!Idle
TurnsInv == ~ overwritten => \E t \in Pages : PageAlone(page, t)
PageLoginInv ==
  ~ overwritten /\ ~ cut =>
    \A t \in Pages : PageAlone(page, t) => LoginOK(page[t], hosts, env, imported)
OrphanInv ==
  ~ overwritten /\ restarts = 0 =>
    \A t \in Pages : PageAlone(page, t) => OrphanOK(page[t], hosts, env)

\* The inductive invariant: the types, with what each handler has yet to do; at
\* most one request at work as long as none overlapped; and then, of that one,
\* what .env and hosts.yaml will be.
ConsoleInv == PageTypeInv /\ TurnsInv /\ PageLoginInv /\ OrphanInv

\* Fin(h): Finished, of the thread that is in state h.
Fin(h) ==
  LET rest == Tail(h.todo) IN
  IF rest # <<>> THEN [h EXCEPT !.at = "next", !.todo = rest]
  ELSE IF h.op = "discover" THEN [h EXCEPT !.at = "run", !.todo = <<>>]
  ELSE Console!Idle

LEMMA IdleFacts ==
  ASSUME Console!ConstantsOK
  PROVE  /\ Handled(Console!Idle) /\ Paged(Console!Idle) /\ Background(Console!Idle)
         /\ Console!Idle.at = "idle" /\ Console!Idle.todo = <<>> /\ Console!Idle.sel = {} /\ Console!Idle.cfg = Console!NoHosts
         /\ Console!NoHosts \in Configs
<1>1. /\ Console!Idle.at = "idle" /\ Console!Idle.todo = <<>> /\ Console!Idle.sel = {} /\ Console!Idle.cfg = Console!NoHosts /\ Console!Idle.rows = <<>>
      /\ Console!Idle.op = "none"
  BY DEF Console!Idle, Console!Handler
<1>2. Console!NoHosts \in Configs
  BY DEF Console!NoHosts, Configs
<1>3. Console!Idle \in PageHandlers
  <2> DEFINE none == <<>>
  <2>1. none \in Seq(Addrs) /\ none \in Seq(Effects)
    BY EmptyTodo
  <2>2. Console!Idle = [op |-> "none", at |-> "idle", cfg |-> Console!NoHosts, rows |-> none, sel |-> {},
                secrets |-> {}, todo |-> none]
    BY DEF Console!Idle, Console!Handler
  <2>3. "none" \in PageOps
    BY DEF PageOps
  <2> HIDE DEF none
  <2> QED BY <1>2, <2>1, <2>2, <2>3 DEF PageHandlers
<1>4. MaxRows \in Nat
  BY DEF Console!ConstantsOK
<1>5. Handled(Console!Idle)
  BY <1>1, <1>3, <1>4, EmptyTodo DEF Handled
<1> QED BY <1>1, <1>2, <1>5, EmptyTodo DEF Paged, Background

LEMMA HandlerFields ==
  ASSUME NEW h \in PageHandlers
  PROVE  /\ h.at \in {"idle", "env", "hosts", "run", "next", "read", "open"} /\ h.cfg \in Configs
         /\ h.rows \in Seq(Addrs) /\ h.secrets \subseteq Keys /\ h.todo \in Seq(Effects)
         /\ h.sel \subseteq Nat \cup Keys
BY DEF PageHandlers

\* A handler about to work through todo.
LEMMA NewHandler ==
  ASSUME Console!ConstantsOK, NEW op \in PageOps, NEW cfg \in Configs, NEW rows \in Seq(Addrs),
         Len(rows) <= MaxRows, NEW sel \in SUBSET Keys,
         NEW todo \in Seq(Effects), todo # <<>>, Ordered(todo), op # "discover",
         sel # {} => \A k \in Keys : ~ In(Console!DropSecret(k), todo),
         In(Console!StartThread, todo) => \A e \in Effects : In(e, todo) => e = Console!StartThread
  PROVE  /\ Paged(Console!Handler(op, "next", cfg, rows, sel, todo))
         /\ Console!Handler(op, "next", cfg, rows, sel, todo).todo = todo
         /\ Console!Handler(op, "next", cfg, rows, sel, todo).sel = sel
         /\ Console!Handler(op, "next", cfg, rows, sel, todo).cfg = cfg
         /\ Console!Handler(op, "next", cfg, rows, sel, todo).at = "next"
<1> DEFINE h == Console!Handler(op, "next", cfg, rows, sel, todo)
<1>1. /\ h.op = op /\ h.at = "next" /\ h.cfg = cfg /\ h.rows = rows /\ h.sel = sel /\ h.todo = todo
      /\ h.secrets = {}
  BY DEF Console!Handler
<1>2. h \in PageHandlers
  BY DEF Console!Handler, PageHandlers
<1> HIDE DEF h
<1>3. Handled(h)
  BY <1>1, <1>2 DEF Handled
<1> QED BY <1>1, <1>3 DEF Paged, h

LEMMA FinFacts ==
  ASSUME Console!ConstantsOK, NEW h, Handled(h), h.todo # <<>>
  PROVE  /\ Handled(Fin(h)) /\ Fin(h).todo = Tail(h.todo)
         /\ Paged(h) => Paged(Fin(h))
         /\ Background(h) => Background(Fin(h))
         /\ Fin(h).at \in {"idle", "next", "run"}
         /\ Fin(h).sel = {} \/ Fin(h).sel = h.sel
         /\ Tail(h.todo) # <<>> => Fin(h).cfg = h.cfg
<1> DEFINE g == Fin(h)
           rest == Tail(h.todo)
<1>1. /\ h \in PageHandlers /\ h.todo \in Seq(Effects) /\ rest \in Seq(Effects) /\ Ordered(rest)
      /\ \A e : In(e, rest) => In(e, h.todo)
  BY HandlerFields, HeadTail DEF Handled
<1>2. CASE rest # <<>>
  <2>1. g = [h EXCEPT !.at = "next", !.todo = rest]
    BY <1>2 DEF Fin
  <2>2. /\ g \in PageHandlers /\ g.op = h.op /\ g.at = "next" /\ g.cfg = h.cfg /\ g.rows = h.rows
        /\ g.sel = h.sel /\ g.secrets = h.secrets /\ g.todo = rest
    BY <1>1, <2>1 DEF PageHandlers
  <2> HIDE DEF g
  <2>3. h.at # "hosts"
    BY DEF Handled
  <2>4. Handled(g)
    BY <1>1, <1>2, <2>2, <2>3 DEF Handled
  <2> HIDE DEF rest
  <2>5. Paged(h) => Paged(g)
    BY <2>2, <2>4 DEF Paged
  <2>6. Background(h) => Background(g)
    BY <1>1, <2>2, <2>4 DEF Background
  <2> QED BY <1>2, <2>2, <2>4, <2>5, <2>6 DEF g, rest
<1>3. CASE rest = <<>> /\ h.op = "discover"
  <2>1. g = [h EXCEPT !.at = "run", !.todo = <<>>]
    BY <1>3 DEF Fin
  <2>2. /\ g \in PageHandlers /\ g.op = h.op /\ g.at = "run" /\ g.cfg = h.cfg /\ g.rows = h.rows
        /\ g.sel = h.sel /\ g.secrets = h.secrets /\ g.todo = <<>>
    BY <1>1, <2>1, EmptyTodo DEF PageHandlers
  <2> HIDE DEF g
  <2>3. h.at # "hosts"
    BY DEF Handled
  <2>4. Handled(g)
    BY <2>2, <2>3, EmptyTodo DEF Handled
  <2>6. Background(h) => Background(g)
    BY <2>2, <2>4, EmptyTodo DEF Background
  <2>7. ~ Paged(h)
    BY <1>3 DEF Paged
  <2> QED BY <1>3, <2>2, <2>4, <2>6, <2>7 DEF g
<1>4. CASE rest = <<>> /\ h.op # "discover"
  <2>1. g = Console!Idle
    BY <1>4 DEF Fin
  <2> QED BY <1>4, <2>1, IdleFacts
<1> QED BY <1>2, <1>3, <1>4

-----------------------------------------------------------------------------
(* What a step of a handler does to what LoginOK and OrphanOK say          *)

LEMMA Login ==
  ASSUME Console!ConstantsOK, NEW H, NEW E, NEW I
  PROVE  /\ LoginOK(Console!Idle, H, E, I) <=> (\A k \in I : H[k] # "none") /\ I \subseteq E
         /\ OrphanOK(Console!Idle, H, E) <=> \A k \in E : H[k] # "none"
BY IdleFacts, EmptyTodo DEF LoginOK, OrphanOK, ReadOK, EnvOf, HostsOf, Opened

\* A handler that is to touch neither .env nor hosts.yaml.
LEMMA BeginsPlain ==
  ASSUME Console!ConstantsOK, NEW H, NEW E, NEW I, NEW h, h.at \in {"next", "hosts"},
         h.at = "hosts" \/ h.sel = {},
         \A e \in Effects : In(e, h.todo) => e.file \notin {"env", "hosts"}
  PROVE  /\ LoginOK(Console!Idle, H, E, I) => LoginOK(h, H, E, I)
         /\ OrphanOK(Console!Idle, H, E) => OrphanOK(h, H, E)
<1>1. ~ In(Console!WriteHosts, h.todo) /\ \A k \in Keys : ~ In(Console!SetSecret(k), h.todo) /\ ~ In(Console!DropSecret(k), h.todo)
  BY EffectFields
<1>2. ASSUME \A k \in I : H[k] # "none", I \subseteq E PROVE LoginOK(h, H, E, I)
  BY <1>1, <1>2 DEF LoginOK, ReadOK, EnvOf, Opened
<1>3. ASSUME \A k \in E : H[k] # "none" PROVE OrphanOK(h, H, E)
  BY <1>1, <1>3 DEF OrphanOK, ReadOK, EnvOf, HostsOf, Opened
<1> QED BY <1>2, <1>3, Login

LEMMA BeginsSave ==
  ASSUME Console!ConstantsOK, NEW H \in Configs, NEW E \in SUBSET Keys, NEW I \in SUBSET Keys, NEW h, h.at = "next",
         NEW q \in Keys, NEW a \in Addrs,
         h.sel = {}, h.cfg = [H EXCEPT ![q] = a], In(Console!WriteHosts, h.todo),
         \A k \in Keys : ~ In(Console!DropSecret(k), h.todo) /\ (In(Console!SetSecret(k), h.todo) => k = q)
  PROVE  /\ LoginOK(Console!Idle, H, E, I) => LoginOK(h, H, E, I)
         /\ OrphanOK(Console!Idle, H, E) => OrphanOK(h, H, E)
<1>1. a # "none" /\ h.cfg[q] = a /\ \A k \in Keys : k # q => h.cfg[k] = H[k]
  BY DEF Console!ConstantsOK, Configs
<1>2. ASSUME \A k \in I : H[k] # "none", I \subseteq E PROVE LoginOK(h, H, E, I)
  BY <1>2 DEF LoginOK, ReadOK, EnvOf, Opened
<1>3. ASSUME \A k \in E : H[k] # "none" PROVE OrphanOK(h, H, E)
  BY <1>1, <1>3 DEF OrphanOK, ReadOK, EnvOf, HostsOf, Opened
<1> QED BY <1>2, <1>3, Login

LEMMA BeginsDelete ==
  ASSUME Console!ConstantsOK, NEW H \in Configs, NEW E \in SUBSET Keys, NEW I \in SUBSET Keys, NEW h, h.at = "next",
         NEW q \in Keys,
         h.sel = {}, h.cfg = [H EXCEPT ![q] = "none"], In(Console!WriteHosts, h.todo) <=> H[q] # "none",
         \A k \in Keys : ~ In(Console!SetSecret(k), h.todo) /\ (In(Console!DropSecret(k), h.todo) <=> k = q)
  PROVE  /\ LoginOK(Console!Idle, H, E, I) => LoginOK(h, H, E, I)
         /\ OrphanOK(Console!Idle, H, E) => OrphanOK(h, H, E)
<1>1. h.cfg[q] = "none" /\ \A k \in Keys : k # q => h.cfg[k] = H[k]
  BY DEF Configs
<1>2. ASSUME \A k \in I : H[k] # "none", I \subseteq E PROVE LoginOK(h, H, E, I)
  BY <1>1, <1>2 DEF LoginOK, ReadOK, EnvOf, Opened
<1>3. ASSUME \A k \in E : H[k] # "none" PROVE OrphanOK(h, H, E)
  BY <1>1, <1>3 DEF OrphanOK, ReadOK, EnvOf, HostsOf, Opened
<1> QED BY <1>2, <1>3, Login

LEMMA BeginsBulk ==
  ASSUME Console!ConstantsOK, NEW H, NEW E, NEW I, NEW h, h.at = "env", h.sel = {}, h.cfg = H, h.todo = <<>>
  PROVE  /\ LoginOK(Console!Idle, H, E, I) => LoginOK(h, H, E, I)
         /\ OrphanOK(Console!Idle, H, E) => OrphanOK(h, H, E)
<1>1. \A e : ~ In(e, h.todo)
  BY EmptyTodo
<1>2. ASSUME \A k \in I : H[k] # "none", I \subseteq E PROVE LoginOK(h, H, E, I)
  BY <1>1, <1>2 DEF LoginOK, ReadOK, EnvOf, Opened
<1>3. ASSUME \A k \in E : H[k] # "none" PROVE OrphanOK(h, H, E)
  BY <1>1, <1>3 DEF OrphanOK, ReadOK, EnvOf, HostsOf, Opened
<1> QED BY <1>2, <1>3, Login

\* The passwords of hosts there are, and perhaps the hosts as they are.
LEMMA ChoosesBulk ==
  ASSUME Console!ConstantsOK, NEW H, NEW E, NEW I, NEW h, h.at = "env", h.todo = <<>>,
         NEW g, g.at = "next", g.sel = {}, g.cfg = h.cfg,
         \A k \in Keys : ~ In(Console!DropSecret(k), g.todo) /\ (In(Console!SetSecret(k), g.todo) => h.cfg[k] # "none")
  PROVE  /\ LoginOK(h, H, E, I) => LoginOK(g, H, E, I)
         /\ OrphanOK(h, H, E) => OrphanOK(g, H, E)
BY EmptyTodo DEF LoginOK, OrphanOK, ReadOK, EnvOf, HostsOf, Opened

LEMMA GivesUp ==
  ASSUME Console!ConstantsOK, NEW H, NEW E \in SUBSET Keys, NEW I, NEW h, h.at # "open",
         \A e \in Effects : In(e, h.todo) => e.file \notin {"env", "hosts"}
  PROVE  /\ LoginOK(h, H, E, I) => LoginOK(Console!Idle, H, E, I)
         /\ OrphanOK(h, H, E) => OrphanOK(Console!Idle, H, E)
<1>1. ~ In(Console!WriteHosts, h.todo) /\ \A k \in Keys : ~ In(Console!DropSecret(k), h.todo)
  BY EffectFields
<1>2. LoginOK(h, H, E, I) => (\A k \in I : H[k] # "none") /\ I \subseteq E
  BY DEF LoginOK, EnvOf, Opened
<1>3. OrphanOK(h, H, E) => \A k \in E : H[k] # "none"
  BY <1>1 DEF OrphanOK, EnvOf, HostsOf, Opened
<1> QED BY <1>2, <1>3, Login

\* The merged hosts keep those there are, and those with a new password.
LEMMA ChoosesImport ==
  ASSUME Console!ConstantsOK, NEW H \in Configs, NEW E \in SUBSET Keys, NEW I, NEW h, h.at = "hosts", h.todo = <<>>,
         NEW g, g.at = "next", In(Console!WriteHosts, g.todo),
         \A k \in Keys : H[k] # "none" => g.cfg[k] = H[k],
         \A k \in g.sel : In(Console!SetSecret(k), g.todo),
         \A k \in Keys : ~ In(Console!DropSecret(k), g.todo) /\ (In(Console!SetSecret(k), g.todo) => g.cfg[k] # "none")
  PROVE  /\ LoginOK(h, H, E, I) => LoginOK(g, H, E, I)
         /\ OrphanOK(h, H, E) => OrphanOK(g, H, E)
<1>1. LoginOK(h, H, E, I) => LoginOK(g, H, E, I)
  BY EmptyTodo DEF LoginOK, ReadOK, EnvOf, Opened
<1>2. OrphanOK(h, H, E) => OrphanOK(g, H, E)
  <2>1. ~ In(Console!WriteHosts, h.todo) /\ \A k : ~ In(Console!DropSecret(k), h.todo)
    BY EmptyTodo
  <2> QED BY <2>1 DEF OrphanOK, ReadOK, EnvOf, HostsOf, Opened
<1> QED BY <1>1, <1>2

\* The state of a handler before and after its step, by what it had to do.
LEMMA Split ==
  ASSUME Console!ConstantsOK, NEW h, Handled(h), h.todo # <<>>
  PROVE  /\ Head(h.todo) \in Effects
         /\ \A e : In(e, h.todo) <=> e = Head(h.todo) \/ In(e, Tail(h.todo))
         /\ h.at # "hosts" /\ h.sel \subseteq Keys
         /\ In(Console!WriteHosts, h.todo) /\ Head(h.todo).file # "hosts" => In(Console!WriteHosts, Tail(h.todo))
         /\ \A k \in Keys : In(Console!SetSecret(k), h.todo) /\ Head(h.todo).file # "env" => In(Console!SetSecret(k), Tail(h.todo))
         /\ \A k \in Keys : In(Console!DropSecret(k), h.todo) /\ Head(h.todo).file # "env" => In(Console!DropSecret(k), Tail(h.todo))
         /\ \A e : In(e, Tail(h.todo)) => Tail(h.todo) # <<>> /\ Fin(h).cfg = h.cfg
<1>1. h.todo \in Seq(Effects)
  BY HandlerFields DEF Handled
<1>2. /\ Head(h.todo) \in Effects
      /\ \A e : In(e, h.todo) <=> e = Head(h.todo) \/ In(e, Tail(h.todo))
  BY <1>1, HeadTail
<1>3. h.at # "hosts" /\ h.sel \subseteq Keys
  BY DEF Handled
<1>4. \A e : In(e, Tail(h.todo)) => Tail(h.todo) # <<>>
  BY EmptyTodo
<1>5. Tail(h.todo) # <<>> => Fin(h).cfg = h.cfg
  BY FinFacts
<1> QED BY <1>2, <1>3, <1>4, <1>5, EffectFields

\* Something else than .env and hosts.yaml was written, or touched.
LEMMA FinishesPlain ==
  ASSUME Console!ConstantsOK, NEW H, NEW E \in SUBSET Keys, NEW I, NEW h, Handled(h), h.todo # <<>>,
         Head(h.todo).file \notin {"env", "hosts"}
  PROVE  /\ LoginOK(h, H, E, I) => LoginOK(Fin(h), H, E, I)
         /\ OrphanOK(h, H, E) => OrphanOK(Fin(h), H, E)
<1> DEFINE g == Fin(h)
<1>1. /\ g.todo = Tail(h.todo) /\ g.at \in {"idle", "next", "run"} /\ (g.sel = {} \/ g.sel = h.sel)
      /\ Handled(g)
  BY FinFacts
<1>2. /\ \A e : In(e, g.todo) => In(e, h.todo) /\ g.cfg = h.cfg
      /\ In(Console!WriteHosts, g.todo) <=> In(Console!WriteHosts, h.todo)
      /\ \A k \in Keys : In(Console!SetSecret(k), h.todo) => In(Console!SetSecret(k), g.todo)
      /\ \A k \in Keys : In(Console!DropSecret(k), h.todo) => In(Console!DropSecret(k), g.todo)
      /\ h.at # "hosts" /\ h.sel \subseteq Keys
  BY <1>1, Split
<1> HIDE DEF g
<1>3. ASSUME LoginOK(h, H, E, I) PROVE LoginOK(g, H, E, I)
  <2>1. (\A k \in I : H[k] # "none") /\ I \subseteq E
    BY <1>3 DEF LoginOK, EnvOf, Opened
  <2>2. \A k \in h.sel : k \in E \/ In(Console!SetSecret(k), h.todo)
    BY <1>2, <1>3 DEF LoginOK, EnvOf, Opened
  <2>3. \A k \in Keys : In(Console!DropSecret(k), h.todo) => h.cfg[k] = "none" /\ (In(Console!WriteHosts, h.todo) \/ H[k] = "none")
    BY <1>3 DEF LoginOK
  <2>4. EnvOf(g, E) = E /\ ~ Opened(g, "hosts") /\ ReadOK(g, E)
    BY <1>1 DEF EnvOf, Opened, ReadOK
  <2>5. \A k \in g.sel : k \in E \/ In(Console!SetSecret(k), g.todo)
    BY <1>1, <1>2, <2>2
  <2>6. \A k \in Keys : In(Console!DropSecret(k), g.todo) => g.cfg[k] = "none" /\ (In(Console!WriteHosts, g.todo) \/ H[k] = "none")
    BY <1>2, <2>3
  <2> QED BY <2>1, <2>4, <2>5, <2>6 DEF LoginOK
<1>4. ASSUME OrphanOK(h, H, E) PROVE OrphanOK(g, H, E)
  <2>1. \A k \in E : HostsOf(h, H)[k] # "none" \/ In(Console!DropSecret(k), h.todo)
    BY <1>4 DEF OrphanOK, EnvOf, Opened
  <2>2. \A k \in Keys : In(Console!SetSecret(k), h.todo) => HostsOf(h, H)[k] # "none"
    BY <1>4 DEF OrphanOK
  <2>3. EnvOf(g, E) = E /\ HostsOf(g, H) = HostsOf(h, H) /\ ReadOK(g, E) /\ g.at # "env"
    BY <1>1, <1>2 DEF EnvOf, Opened, ReadOK, HostsOf
  <2> QED BY <1>2, <2>1, <2>2, <2>3 DEF OrphanOK
<1> QED BY <1>3, <1>4 DEF g

\* A password that is not there is not deleted.
LEMMA Skips ==
  ASSUME Console!ConstantsOK, NEW H, NEW E \in SUBSET Keys, NEW I, NEW h, Handled(h), h.at = "next", h.todo # <<>>,
         Head(h.todo).file = "env", ~ Head(h.todo).on, Head(h.todo).key \notin E
  PROVE  /\ LoginOK(h, H, E, I) => LoginOK(Fin(h), H, E, I)
         /\ OrphanOK(h, H, E) => OrphanOK(Fin(h), H, E)
<1> DEFINE g == Fin(h)
           q == Head(h.todo).key
<1>1. /\ g.todo = Tail(h.todo) /\ g.at \in {"idle", "next", "run"} /\ (g.sel = {} \/ g.sel = h.sel)
      /\ Handled(g)
  BY FinFacts
<1>2. q \in Keys /\ Head(h.todo) = Console!DropSecret(q)
  BY Split, EffectFacts
<1>3. h.sel = {}
  BY <1>2, Split DEF Handled
<1>4. /\ \A e : In(e, g.todo) => In(e, h.todo) /\ g.cfg = h.cfg
      /\ In(Console!WriteHosts, g.todo) <=> In(Console!WriteHosts, h.todo)
  BY <1>1, Split
<1>5. \A k \in Keys : In(Console!DropSecret(k), h.todo) /\ k # q => In(Console!DropSecret(k), g.todo)
  <2>1. \A k \in Keys : k # q => Console!DropSecret(k) # Console!DropSecret(q)
    BY EffectFields
  <2> QED BY <1>1, <1>2, <2>1, Split
<1> HIDE DEF g
<1>6. ASSUME LoginOK(h, H, E, I) PROVE LoginOK(g, H, E, I)
  <2>1. (\A k \in I : H[k] # "none") /\ I \subseteq E
    BY <1>6 DEF LoginOK, EnvOf, Opened
  <2>2. \A k \in Keys : In(Console!DropSecret(k), h.todo) => h.cfg[k] = "none" /\ (In(Console!WriteHosts, h.todo) \/ H[k] = "none")
    BY <1>6 DEF LoginOK
  <2>3. EnvOf(g, E) = E /\ ~ Opened(g, "hosts") /\ ReadOK(g, E) /\ g.sel = {}
    BY <1>1, <1>3 DEF EnvOf, Opened, ReadOK
  <2>4. \A k \in Keys : In(Console!DropSecret(k), g.todo) => g.cfg[k] = "none" /\ (In(Console!WriteHosts, g.todo) \/ H[k] = "none")
    BY <1>4, <2>2
  <2> QED BY <2>1, <2>3, <2>4 DEF LoginOK
<1>7. ASSUME OrphanOK(h, H, E) PROVE OrphanOK(g, H, E)
  <2>1. \A k \in E : HostsOf(h, H)[k] # "none" \/ In(Console!DropSecret(k), h.todo)
    BY <1>7 DEF OrphanOK, EnvOf, Opened
  <2>2. \A k \in Keys : In(Console!SetSecret(k), h.todo) => HostsOf(h, H)[k] # "none"
    BY <1>7 DEF OrphanOK
  <2>3. EnvOf(g, E) = E /\ HostsOf(g, H) = HostsOf(h, H) /\ ReadOK(g, E) /\ g.at # "env"
    BY <1>1, <1>4 DEF EnvOf, Opened, ReadOK, HostsOf
  <2> QED BY <1>4, <1>5, <2>1, <2>2, <2>3 DEF OrphanOK
<1> QED BY <1>6, <1>7 DEF g

LEMMA Reads ==
  ASSUME Console!ConstantsOK, NEW H, NEW E \in SUBSET Keys, NEW I, NEW h, Handled(h), h.at = "next", h.todo # <<>>,
         Head(h.todo).file = "env",
         NEW g, g = [h EXCEPT !.at = "read",
                       !.secrets = IF Head(h.todo).on THEN E \cup {Head(h.todo).key}
                                                     ELSE E \ {Head(h.todo).key}]
  PROVE  /\ Handled(g) /\ (Paged(h) => Paged(g))
         /\ LoginOK(h, H, E, I) => LoginOK(g, H, E, I)
         /\ OrphanOK(h, H, E) => OrphanOK(g, H, E)
<1> DEFINE q == Head(h.todo).key
           new == IF Head(h.todo).on THEN E \cup {q} ELSE E \ {q}
<1>1. h \in PageHandlers /\ q \in Keys /\ new \in SUBSET Keys /\ (q \in new <=> Head(h.todo).on)
  BY Split, EffectFacts DEF Handled
<1> HIDE DEF new
<1>2. g = [h EXCEPT !.at = "read", !.secrets = new]
  BY DEF new
<1>3. /\ g \in PageHandlers /\ g.op = h.op /\ g.at = "read" /\ g.cfg = h.cfg /\ g.rows = h.rows
      /\ g.sel = h.sel /\ g.secrets = new /\ g.todo = h.todo
  BY <1>1, <1>2 DEF PageHandlers
<1>4. Handled(g)
  BY <1>1, <1>3 DEF Handled
<1>5. Paged(h) => Paged(g)
  BY <1>3, <1>4 DEF Paged
<1>6. /\ EnvOf(g, E) = E /\ EnvOf(h, E) = E /\ HostsOf(g, H) = HostsOf(h, H)
      /\ ~ Opened(g, "hosts") /\ ~ Opened(h, "hosts") /\ ReadOK(g, E)
      /\ g.at # "env" /\ g.at # "hosts" /\ h.at # "hosts"
  BY <1>3 DEF EnvOf, HostsOf, Opened, ReadOK, new
<1>7. LoginOK(h, H, E, I) => LoginOK(g, H, E, I)
  BY <1>3, <1>6 DEF LoginOK
<1>8. OrphanOK(h, H, E) => OrphanOK(g, H, E)
  BY <1>3, <1>6 DEF OrphanOK
<1> QED BY <1>4, <1>5, <1>7, <1>8

\* h opens a file: from it, H and E come g, H2 and E2.
Opening(h, H, E, g, H2, E2) ==
  /\ Handled(h) /\ h.todo # <<>>
  /\ h.at = "read" \/ (h.at = "next" /\ Head(h.todo).file \in {"hosts", "staging", "job"})
  /\ g = [h EXCEPT !.at = "open"]
  /\ IF Head(h.todo).file = "hosts" THEN H2 = Console!NoHosts ELSE H2 = H
  /\ IF Head(h.todo).file = "env" THEN E2 = {} ELSE E2 = E

LEMMA Opens ==
  ASSUME Console!ConstantsOK, NEW H \in Configs, NEW E \in SUBSET Keys, NEW I, NEW h, NEW g, NEW H2, NEW E2,
         Opening(h, H, E, g, H2, E2)
  PROVE  /\ Handled(g) /\ (Paged(h) => Paged(g)) /\ (Background(h) => Background(g))
         /\ LoginOK(h, H, E, I) => LoginOK(g, H2, E2, I)
         /\ OrphanOK(h, H, E) => OrphanOK(g, H2, E2)
<1>0. /\ Handled(h) /\ h.todo # <<>>
      /\ h.at = "read" \/ (h.at = "next" /\ Head(h.todo).file \in {"hosts", "staging", "job"})
      /\ g = [h EXCEPT !.at = "open"]
      /\ Head(h.todo).file = "hosts" => H2 = Console!NoHosts
      /\ Head(h.todo).file # "hosts" => H2 = H
      /\ Head(h.todo).file = "env" => E2 = {}
      /\ Head(h.todo).file # "env" => E2 = E
  BY DEF Opening
<1>1. /\ g \in PageHandlers /\ g.op = h.op /\ g.at = "open" /\ g.cfg = h.cfg /\ g.rows = h.rows
      /\ g.sel = h.sel /\ g.secrets = h.secrets /\ g.todo = h.todo
  BY <1>0 DEF PageHandlers, Handled
<1>2. Handled(g)
  BY <1>0, <1>1 DEF Handled
<1>3. Paged(h) => Paged(g)
  BY <1>0, <1>1, <1>2 DEF Paged
<1>4. Background(h) => Background(g)
  BY <1>0, <1>1, <1>2 DEF Background
<1>5. Head(h.todo) \in Effects /\ (h.at = "read" => Head(h.todo).file = "env") /\ In(Head(h.todo), h.todo)
  BY <1>0, Split DEF Handled
<1>6. CASE Head(h.todo).file = "env"
  <2>1. h.at = "read" /\ E2 = {} /\ H2 = H
    BY <1>0, <1>6
  <2>2. /\ EnvOf(g, E2) = h.secrets /\ EnvOf(h, E) = E /\ HostsOf(g, H) = HostsOf(h, H)
        /\ ~ Opened(g, "hosts") /\ ~ Opened(h, "hosts") /\ ReadOK(g, E2)
        /\ g.at # "env" /\ g.at # "hosts" /\ h.at # "hosts"
    BY <1>0, <1>1, <1>6, <2>1 DEF EnvOf, HostsOf, Opened, ReadOK
  <2> DEFINE q == Head(h.todo).key
  <2>3. q \in Keys
    BY <1>0, <1>5, <1>6, EffectFacts
  <2>4. CASE Head(h.todo).on
    <3>1. Head(h.todo) = Console!SetSecret(q)
      BY <1>0, <1>5, <1>6, <2>4, EffectFacts
    <3>2. ReadOK(h, E) => h.secrets = E \cup {q}
      BY <1>0, <2>1, <2>4 DEF ReadOK
    <3>3. ASSUME LoginOK(h, H, E, I) PROVE LoginOK(g, H2, E2, I)
      <4>1. h.secrets = E \cup {q}
        BY <1>0, <3>2, <3>3 DEF LoginOK
      <4> QED BY <1>1, <2>1, <2>2, <3>3, <4>1 DEF LoginOK
    <3>4. ASSUME OrphanOK(h, H, E) PROVE OrphanOK(g, H2, E2)
      <4>1. h.secrets = E \cup {q} /\ HostsOf(h, H)[q] # "none"
        BY <1>0, <1>5, <2>3, <3>1, <3>2, <3>4 DEF OrphanOK
      <4> QED BY <1>1, <2>1, <2>2, <3>4, <4>1 DEF OrphanOK
    <3> QED BY <1>2, <1>3, <1>4, <3>3, <3>4
  <2>5. CASE ~ Head(h.todo).on
    <3>1. Head(h.todo) = Console!DropSecret(q)
      BY <1>0, <1>5, <1>6, <2>5, EffectFacts
    <3>2. ReadOK(h, E) => h.secrets = E \ {q}
      BY <1>0, <2>1, <2>5 DEF ReadOK
    <3>3. h.sel = {} /\ ~ In(Console!WriteHosts, h.todo)
      <4>1. h.sel = {}
        BY <1>0, <1>5, <2>3, <3>1 DEF Handled
      <4>2. h.todo \in Seq(Effects) /\ Ordered(h.todo)
        BY <1>0, HandlerFields DEF Handled
      <4> QED BY <1>0, <1>6, <2>5, <4>1, <4>2, HeadTail
    <3>4. ASSUME LoginOK(h, H, E, I) PROVE LoginOK(g, H2, E2, I)
      <4>1. h.secrets = E \ {q} /\ (\A k \in I : H[k] # "none") /\ I \subseteq E
        BY <1>0, <2>2, <3>2, <3>4 DEF LoginOK
      <4>2. H[q] = "none"
        BY <1>0, <1>5, <2>3, <3>1, <3>3, <3>4 DEF LoginOK
      <4>3. I \subseteq h.secrets
        BY <1>0, <4>1, <4>2
      <4>4. \A k \in Keys : In(Console!DropSecret(k), g.todo) => g.cfg[k] = "none" /\ (In(Console!WriteHosts, g.todo) \/ H2[k] = "none")
        BY <1>0, <1>1, <2>1, <3>4 DEF LoginOK
      <4> HIDE DEF q
      <4> QED BY <1>1, <2>1, <2>2, <3>3, <4>1, <4>3, <4>4 DEF LoginOK
    <3>5. ASSUME OrphanOK(h, H, E) PROVE OrphanOK(g, H2, E2)
      <4>1. h.secrets = E \ {q}
        BY <1>0, <3>2, <3>5 DEF OrphanOK
      <4> QED BY <1>1, <2>1, <2>2, <3>5, <4>1 DEF OrphanOK
    <3> QED BY <1>2, <1>3, <1>4, <3>4, <3>5
  <2> QED BY <2>4, <2>5
<1>7. CASE Head(h.todo).file = "hosts"
  <2>1. h.at = "next" /\ E2 = E /\ Head(h.todo) = Console!WriteHosts /\ In(Console!WriteHosts, h.todo)
    BY <1>0, <1>5, <1>7, EffectFacts
  <2>2. /\ EnvOf(g, E2) = E /\ EnvOf(h, E) = E /\ HostsOf(g, H2) = HostsOf(h, H)
        /\ Opened(g, "hosts") /\ ReadOK(g, E2)
        /\ g.at # "env" /\ g.at # "hosts" /\ h.at # "hosts"
    BY <1>0, <1>1, <1>7, <2>1 DEF EnvOf, HostsOf, Opened, ReadOK
  <2>3. LoginOK(h, H, E, I) => LoginOK(g, H2, E2, I)
    BY <1>0, <1>1, <2>1, <2>2 DEF LoginOK
  <2>4. OrphanOK(h, H, E) => OrphanOK(g, H2, E2)
    BY <1>0, <1>1, <2>1, <2>2 DEF OrphanOK
  <2> QED BY <1>2, <1>3, <1>4, <2>3, <2>4
<1>8. CASE Head(h.todo).file \notin {"env", "hosts"}
  <2>1. h.at = "next" /\ E2 = E /\ H2 = H
    BY <1>0, <1>5, <1>8
  <2>2. /\ EnvOf(g, E2) = E /\ EnvOf(h, E) = E /\ HostsOf(g, H2) = HostsOf(h, H)
        /\ ~ Opened(g, "hosts") /\ ~ Opened(h, "hosts") /\ ReadOK(g, E2)
        /\ g.at # "env" /\ g.at # "hosts" /\ h.at # "hosts"
    BY <1>0, <1>1, <1>8, <2>1 DEF EnvOf, HostsOf, Opened, ReadOK
  <2>3. LoginOK(h, H, E, I) => LoginOK(g, H2, E2, I)
    BY <1>0, <1>1, <2>1, <2>2 DEF LoginOK
  <2>4. OrphanOK(h, H, E) => OrphanOK(g, H2, E2)
    BY <1>0, <1>1, <2>1, <2>2 DEF OrphanOK
  <2> QED BY <1>2, <1>3, <1>4, <2>3, <2>4
<1> QED BY <1>6, <1>7, <1>8

LEMMA WritesEnv ==
  ASSUME Console!ConstantsOK, NEW H, NEW E \in SUBSET Keys, NEW I, NEW h, Handled(h), h.at = "open", h.todo # <<>>,
         Head(h.todo).file = "env"
  PROVE  /\ LoginOK(h, H, E, I) => LoginOK(Fin(h), H, h.secrets, I)
         /\ OrphanOK(h, H, E) => OrphanOK(Fin(h), H, h.secrets)
<1> DEFINE g == Fin(h)
           q == Head(h.todo).key
           E2 == h.secrets
<1>1. /\ g.todo = Tail(h.todo) /\ g.at \in {"idle", "next", "run"} /\ (g.sel = {} \/ g.sel = h.sel)
      /\ Handled(g)
  BY FinFacts
<1>2. /\ q \in Keys /\ (Head(h.todo) = Console!DropSecret(q) \/ Head(h.todo) = Console!SetSecret(q))
      /\ q \in h.secrets <=> Head(h.todo).on
      /\ Head(h.todo).on <=> Head(h.todo) = Console!SetSecret(q)
  BY Split, EffectFacts, EffectFields DEF Handled
<1>3. /\ \A e : In(e, g.todo) => In(e, h.todo) /\ g.cfg = h.cfg
      /\ In(Console!WriteHosts, g.todo) <=> In(Console!WriteHosts, h.todo)
      /\ h.at # "hosts" /\ h.sel \subseteq Keys
  BY <1>1, Split
<1>4. \A k \in Keys : k # q => /\ In(Console!DropSecret(k), h.todo) => In(Console!DropSecret(k), g.todo)
                               /\ In(Console!SetSecret(k), h.todo) => In(Console!SetSecret(k), g.todo)
  <2>1. \A k \in Keys : k # q => Head(h.todo) # Console!DropSecret(k) /\ Head(h.todo) # Console!SetSecret(k)
    BY <1>2, EffectFields
  <2> QED BY <1>1, <2>1, Split
<1>5. h.secrets \subseteq Keys
  BY HandlerFields DEF Handled
<1>6. h.sel # {} => Head(h.todo).on
  BY <1>2, Split DEF Handled
<1> HIDE DEF g
<1>7. EnvOf(h, E) = h.secrets /\ EnvOf(g, E2) = h.secrets /\ ~ Opened(h, "hosts") /\ ~ Opened(g, "hosts") /\ ReadOK(g, E2)
  BY <1>1 DEF EnvOf, Opened, ReadOK
<1>8. ASSUME LoginOK(h, H, E, I) PROVE LoginOK(g, H, E2, I)
  <2>1. (\A k \in I : H[k] # "none") /\ I \subseteq E2
    BY <1>7, <1>8 DEF LoginOK
  <2>2. \A k \in h.sel : k \in E2 \/ In(Console!SetSecret(k), h.todo)
    BY <1>3, <1>7, <1>8 DEF LoginOK
  <2>3. \A k \in Keys : In(Console!DropSecret(k), h.todo) => h.cfg[k] = "none" /\ (In(Console!WriteHosts, h.todo) \/ H[k] = "none")
    BY <1>8 DEF LoginOK
  <2>4. \A k \in g.sel : k \in E2 \/ In(Console!SetSecret(k), g.todo)
    BY <1>1, <1>2, <1>3, <1>4, <1>6, <2>2
  <2>5. \A k \in Keys : In(Console!DropSecret(k), g.todo) => g.cfg[k] = "none" /\ (In(Console!WriteHosts, g.todo) \/ H[k] = "none")
    BY <1>3, <2>3
  <2> QED BY <1>7, <2>1, <2>4, <2>5 DEF LoginOK
<1>9. ASSUME OrphanOK(h, H, E) PROVE OrphanOK(g, H, E2)
  <2>1. \A k \in E2 : HostsOf(h, H)[k] # "none" \/ In(Console!DropSecret(k), h.todo)
    BY <1>7, <1>9 DEF OrphanOK
  <2>2. \A k \in Keys : In(Console!SetSecret(k), h.todo) => HostsOf(h, H)[k] # "none"
    BY <1>9 DEF OrphanOK
  <2>3. HostsOf(g, H) = HostsOf(h, H) /\ g.at # "env"
    BY <1>1, <1>3 DEF HostsOf
  <2>4. \A k \in E2 : HostsOf(h, H)[k] # "none" \/ In(Console!DropSecret(k), g.todo)
    <3> SUFFICES ASSUME NEW k \in E2, In(Console!DropSecret(k), h.todo)
                 PROVE  HostsOf(h, H)[k] # "none" \/ In(Console!DropSecret(k), g.todo)
      BY <2>1
    <3>1. CASE k = q
      BY <1>2, <2>2, <3>1, Split
    <3>2. CASE k # q
      BY <1>4, <1>5, <3>2
    <3> QED BY <3>1, <3>2
  <2> QED BY <1>3, <1>7, <2>2, <2>3, <2>4 DEF OrphanOK
<1> QED BY <1>8, <1>9 DEF g

LEMMA WritesHosts ==
  ASSUME Console!ConstantsOK, NEW H, NEW E \in SUBSET Keys, NEW I \in SUBSET Keys, NEW h, Handled(h), h.at = "open",
         h.todo # <<>>, Head(h.todo).file = "hosts",
         NEW I2 \in SUBSET (I \cup h.sel), \A k \in I2 : h.cfg[k] # "none"
  PROVE  /\ LoginOK(h, H, E, I) => LoginOK(Fin(h), h.cfg, E, I2)
         /\ OrphanOK(h, H, E) => OrphanOK(Fin(h), h.cfg, E)
<1> DEFINE g == Fin(h)
<1>1. /\ g.todo = Tail(h.todo) /\ g.at \in {"idle", "next", "run"} /\ (g.sel = {} \/ g.sel = h.sel)
      /\ Handled(g)
  BY FinFacts
<1>2. Head(h.todo) = Console!WriteHosts /\ In(Console!WriteHosts, h.todo)
  BY Split, EffectFacts
<1>3. \A k \in Keys : ~ In(Console!SetSecret(k), h.todo)
  <2>1. h.todo \in Seq(Effects) /\ Ordered(h.todo)
    BY HandlerFields DEF Handled
  <2> QED BY <1>2, <2>1, HeadTail
<1>4. /\ \A e : In(e, g.todo) => In(e, h.todo) /\ g.cfg = h.cfg
      /\ \A k \in Keys : In(Console!DropSecret(k), h.todo) => In(Console!DropSecret(k), g.todo)
      /\ h.at # "hosts" /\ h.sel \subseteq Keys
  BY <1>1, <1>2, EffectFields, Split
<1> HIDE DEF g
<1>5. EnvOf(h, E) = E /\ EnvOf(g, E) = E /\ ~ Opened(g, "hosts") /\ ReadOK(g, E) /\ HostsOf(h, H) = h.cfg /\ HostsOf(g, h.cfg) = h.cfg
  BY <1>1, <1>2, <1>4, EffectFields DEF EnvOf, Opened, ReadOK, HostsOf
<1>6. ASSUME LoginOK(h, H, E, I) PROVE LoginOK(g, h.cfg, E, I2)
  <2>1. I \subseteq E /\ h.sel \subseteq E
    BY <1>3, <1>4, <1>5, <1>6 DEF LoginOK
  <2>2. \A k \in Keys : In(Console!DropSecret(k), g.todo) => g.cfg[k] = "none" /\ h.cfg[k] = "none"
    BY <1>4, <1>6 DEF LoginOK
  <2>3. (\A k \in I2 : h.cfg[k] # "none") /\ I2 \subseteq E /\ g.sel \subseteq E
    BY <1>1, <2>1
  <2> QED BY <1>5, <2>2, <2>3 DEF LoginOK
<1>7. ASSUME OrphanOK(h, H, E) PROVE OrphanOK(g, h.cfg, E)
  <2>1. \A k \in E : h.cfg[k] # "none" \/ In(Console!DropSecret(k), g.todo)
    BY <1>4, <1>5, <1>7 DEF OrphanOK
  <2> QED BY <1>1, <1>3, <1>4, <1>5, <2>1 DEF OrphanOK
<1> QED BY <1>6, <1>7 DEF g

-----------------------------------------------------------------------------
(* What a step of a thread does to the others                              *)

LEMMA ThreadSteps ==
  ASSUME Console!ConstantsOK, NEW x, ThreadsOK(x), NEW t \in Console!Threads, NEW g,
         t \in Pages => Paged(g), t \in Workers => Background(g)
  PROVE  ThreadsOK([x EXCEPT ![t] = g])
<1> DEFINE y == [x EXCEPT ![t] = g]
<1>1. DOMAIN x = Console!Threads /\ DOMAIN y = Console!Threads
  BY DEF ThreadsOK
<1>2. y[t] = g /\ \A u \in Console!Threads : u # t => y[u] = x[u]
  BY <1>1 DEF ThreadsOK
<1> HIDE DEF y
<1> QED BY <1>1, <1>2 DEF ThreadsOK, Console!Threads, y

LEMMA RequestSteps ==
  ASSUME Console!ConstantsOK, NEW x, ThreadsOK(x), NEW t \in Pages, NEW g
  PROVE  LET y == [x EXCEPT ![t] = g] IN
         /\ PageAlone(x, t) => PageAlone(y, t) /\ \A u \in Pages : PageAlone(y, u) => y[u] = g
         /\ x[t] # Console!Idle /\ (\E u \in Pages : PageAlone(x, u)) => PageAlone(x, t)
<1> DEFINE y == [x EXCEPT ![t] = g]
<1>1. DOMAIN x = Console!Threads /\ t \in Console!Threads
  BY DEF ThreadsOK, Console!Threads
<1>2. y[t] = g /\ \A u \in Pages : u # t => y[u] = x[u]
  BY <1>1 DEF Console!Threads
<1> HIDE DEF y
<1>3. PageAlone(x, t) => PageAlone(y, t)
  BY <1>2 DEF PageAlone
<1>4. ASSUME PageAlone(x, t), NEW u \in Pages, PageAlone(y, u) PROVE y[u] = g
  <2>1. CASE u = t
    BY <1>2, <2>1
  <2>2. CASE u # t
    BY <1>2, <1>4, <2>2 DEF PageAlone
  <2> QED BY <2>1, <2>2
<1>5. x[t] # Console!Idle /\ (\E u \in Pages : PageAlone(x, u)) => PageAlone(x, t)
  BY DEF PageAlone
<1> QED BY <1>3, <1>4, <1>5 DEF y

LEMMA WorkerSteps ==
  ASSUME Console!ConstantsOK, NEW x, ThreadsOK(x), NEW t \in Workers, NEW g
  PROVE  LET y == [x EXCEPT ![t] = g] IN
         \A u \in Pages : y[u] = x[u] /\ (PageAlone(y, u) <=> PageAlone(x, u))
<1>1. DOMAIN x = Console!Threads /\ \A u \in Pages : u # t /\ u \in Console!Threads
  BY DEF ThreadsOK, Console!Threads, Console!ConstantsOK
<1> DEFINE y == [x EXCEPT ![t] = g]
<1>2. \A u \in Pages : y[u] = x[u]
  BY <1>1
<1> HIDE DEF y
<1> QED BY <1>2 DEF PageAlone, y

TurnInv == TurnsInv /\ PageLoginInv /\ OrphanInv

LEMMA RequestMoves ==
  ASSUME Console!ConstantsOK, ConsoleInv, NEW t \in Pages, page[t] # Console!Idle, NEW g, page' = [page EXCEPT ![t] = g],
         UNCHANGED <<restarts, overwritten, cut>>,
         LoginOK(page[t], hosts, env, imported) => LoginOK(g, hosts', env', imported'),
         OrphanOK(page[t], hosts, env) => OrphanOK(g, hosts', env')
  PROVE  TurnInv'
<1>1. ThreadsOK(page)
  BY DEF ConsoleInv, PageTypeInv
<1>2. ~ overwritten => PageAlone(page, t) /\ PageAlone(page', t) /\ \A u \in Pages : PageAlone(page', u) => page'[u] = g
  BY <1>1, RequestSteps DEF ConsoleInv, TurnsInv
<1>3. TurnsInv'
  BY <1>2 DEF TurnsInv, PageAlone
<1>4. PageLoginInv'
  <2> SUFFICES ASSUME ~ overwritten, ~ cut, NEW u \in Pages, PageAlone(page', u)
               PROVE  LoginOK(page'[u], hosts', env', imported')
    BY DEF PageLoginInv, PageAlone, LoginOK, EnvOf, Opened, ReadOK
  <2>1. LoginOK(page[t], hosts, env, imported) /\ page'[u] = g
    BY <1>2 DEF ConsoleInv, PageLoginInv
  <2> QED BY <2>1
<1>5. OrphanInv'
  <2> SUFFICES ASSUME ~ overwritten, restarts = 0, NEW u \in Pages, PageAlone(page', u)
               PROVE  OrphanOK(page'[u], hosts', env')
    BY DEF OrphanInv, PageAlone, OrphanOK, EnvOf, HostsOf, Opened, ReadOK
  <2>1. OrphanOK(page[t], hosts, env) /\ page'[u] = g
    BY <1>2 DEF ConsoleInv, OrphanInv
  <2> QED BY <2>1
<1> QED BY <1>3, <1>4, <1>5 DEF TurnInv

LEMMA WorkerMoves ==
  ASSUME Console!ConstantsOK, ConsoleInv, NEW t \in Workers, NEW g, page' = [page EXCEPT ![t] = g],
         UNCHANGED <<hosts, env, imported, restarts, overwritten, cut>>
  PROVE  TurnInv'
<1>1. ThreadsOK(page)
  BY DEF ConsoleInv, PageTypeInv
<1>2. \A u \in Pages : page'[u] = page[u] /\ (PageAlone(page', u) <=> PageAlone(page, u))
  BY <1>1, WorkerSteps
<1>3. TurnsInv'
  BY <1>2 DEF ConsoleInv, TurnsInv
<1>4. PageLoginInv'
  BY <1>2 DEF ConsoleInv, PageLoginInv
<1>5. OrphanInv'
  BY <1>2 DEF ConsoleInv, OrphanInv
<1> QED BY <1>3, <1>4, <1>5 DEF TurnInv

LEMMA RequestBegins ==
  ASSUME Console!ConstantsOK, ConsoleInv, NEW t, NEW g, Console!Begin(t, g), UNCHANGED server, Paged(g),
         LoginOK(Console!Idle, hosts, env, imported) => LoginOK(g, hosts, env, imported),
         OrphanOK(Console!Idle, hosts, env) => OrphanOK(g, hosts, env)
  PROVE  ConsoleInv'
<1>1. /\ t \in Pages /\ page[t] = Console!Idle /\ pages < MaxPages /\ pages' = pages + 1
      /\ page' = [page EXCEPT ![t] = g]
      /\ overwritten' = (overwritten \/ \E u \in Pages : page[u] # Console!Idle)
      /\ UNCHANGED <<hosts, env, staging, job, imported, restarts, cut, server>>
  BY DEF Console!Begin, Console!files
<1>2. t \in Console!Threads /\ t \notin Workers
  BY <1>1 DEF Console!Threads, Console!ConstantsOK
<1>3. ThreadsOK(page) /\ ThreadsOK(page')
  BY <1>1, <1>2, ThreadSteps DEF ConsoleInv, PageTypeInv
<1>4. PageTypeInv'
  <2>1. pages' \in 0 .. MaxPages
    BY <1>1 DEF ConsoleInv, PageTypeInv, Console!ConstantsOK
  <2>2. overwritten' \in BOOLEAN
    BY <1>1 DEF ConsoleInv, PageTypeInv
  <2> QED BY <1>1, <1>3, <2>1, <2>2 DEF ConsoleInv, PageTypeInv, PageFilesOK
<1>5. ~ overwritten' => /\ ~ overwritten /\ PageAlone(page, t) /\ PageAlone(page', t)
                       /\ \A u \in Pages : PageAlone(page', u) => page'[u] = g
  <2>1. ~ overwritten' => ~ overwritten /\ PageAlone(page, t)
    BY <1>1 DEF PageAlone
  <2> QED BY <1>1, <1>3, <2>1, RequestSteps
<1>6. TurnsInv'
  BY <1>1, <1>5 DEF TurnsInv, PageAlone
<1>7. PageLoginInv'
  <2> SUFFICES ASSUME ~ overwritten', ~ cut', NEW u \in Pages, PageAlone(page', u)
               PROVE  LoginOK(page'[u], hosts', env', imported')
    BY DEF PageLoginInv, PageAlone, LoginOK, EnvOf, Opened, ReadOK
  <2>1. LoginOK(Console!Idle, hosts, env, imported) /\ page'[u] = g
    BY <1>1, <1>5 DEF ConsoleInv, PageLoginInv
  <2> QED BY <1>1, <2>1
<1>8. OrphanInv'
  <2> SUFFICES ASSUME ~ overwritten', restarts' = 0, NEW u \in Pages, PageAlone(page', u)
               PROVE  OrphanOK(page'[u], hosts', env')
    BY DEF OrphanInv, PageAlone, OrphanOK, EnvOf, HostsOf, Opened, ReadOK
  <2>1. OrphanOK(Console!Idle, hosts, env) /\ page'[u] = g
    BY <1>1, <1>5 DEF ConsoleInv, OrphanInv
  <2> QED BY <1>1, <2>1
<1> QED BY <1>4, <1>6, <1>7, <1>8 DEF ConsoleInv

-----------------------------------------------------------------------------
(* Requests begin                                                          *)

LEMMA OneSet ==
  ASSUME NEW k \in Keys
  PROVE  <<Console!SetSecret(k)>> \in Seq(Sets) /\ \A e : In(e, <<Console!SetSecret(k)>>) <=> e = Console!SetSecret(k)
<1>1. Console!SetSecret(k) \in Sets
  BY DEF Sets
<1>2. <<Console!SetSecret(k)>> \in Seq(Sets)
  BY <1>1
<1>3. Len(<<Console!SetSecret(k)>>) = 1 /\ <<Console!SetSecret(k)>>[1] = Console!SetSecret(k) /\ 1 .. 1 = {1}
  OBVIOUS
<1> QED BY <1>2, <1>3 DEF In

LEMMA OneAndOne ==
  ASSUME NEW S, NEW a \in S, NEW b \in S
  PROVE  <<a>> \o <<b>> = <<a, b>> /\ <<>> \o <<b>> = <<b>>
<1> DEFINE w == <<a>> \o <<b>>
           v == <<a, b>>
<1>1. w \in Seq(S) /\ Len(w) = 2 /\ w[1] = a /\ w[2] = b
  OBVIOUS
<1>2. v \in Seq(S) /\ Len(v) = 2 /\ v[1] = a /\ v[2] = b
  OBVIOUS
<1>3. \A s, t \in Seq(S) : Len(s) = Len(t) /\ (\A i \in 1 .. Len(s) : s[i] = t[i]) => s = t
  OBVIOUS
<1>4. 1 .. 2 = {1, 2}
  OBVIOUS
<1> HIDE DEF w, v
<1>5. w = v
  BY <1>1, <1>2, <1>3, <1>4
<1>6. <<>> \o <<b>> = <<b>>
  OBVIOUS
<1> QED BY <1>5, <1>6 DEF w, v

LEMMA BeginPlain ==
  ASSUME Console!ConstantsOK, ConsoleInv, NEW t, NEW op \in PageOps, op # "discover",
         NEW rows \in Seq(Addrs), Len(rows) <= MaxRows, NEW e \in Effects, e.file \notin {"env", "hosts"},
         Console!Begin(t, Console!Writing(op, Console!NoHosts, rows, <<e>>)), UNCHANGED server
  PROVE  ConsoleInv'
<1> DEFINE todo == <<e>>
           g == Console!Writing(op, Console!NoHosts, rows, todo)
<1>1. /\ todo \in Seq(Effects) /\ todo # <<>> /\ Ordered(todo)
      /\ \A x : In(x, todo) <=> x = e
  BY EffectFields, ShortTodo
<1>2. g = Console!Handler(op, "next", Console!NoHosts, rows, {}, todo)
  BY DEF Console!Writing
<1> HIDE DEF todo
<1>3. Paged(g) /\ g.todo = todo /\ g.sel = {} /\ g.at = "next"
  <2>1. {} \in SUBSET Keys /\ Console!NoHosts \in Configs
    BY IdleFacts
  <2>2. In(Console!StartThread, todo) => \A x \in Effects : In(x, todo) => x = Console!StartThread
    BY <1>1
  <2> HIDE DEF g
  <2> QED BY <1>1, <1>2, <2>1, <2>2, NewHandler
<1> HIDE DEF g
<1>4. /\ LoginOK(Console!Idle, hosts, env, imported) => LoginOK(g, hosts, env, imported)
      /\ OrphanOK(Console!Idle, hosts, env) => OrphanOK(g, hosts, env)
  <2>1. g.at \in {"next", "hosts"} /\ (g.at = "hosts" \/ g.sel = {})
    BY <1>3
  <2>2. \A x \in Effects : In(x, g.todo) => x.file \notin {"env", "hosts"}
    BY <1>1, <1>3
  <2> QED BY <2>1, <2>2, BeginsPlain
<1>5. Console!Begin(t, g)
  BY DEF g, todo
<1> QED BY <1>3, <1>4, <1>5, RequestBegins

LEMMA NewWriting ==
  ASSUME Console!ConstantsOK, NEW op \in PageOps, NEW cfg \in Configs, NEW rows \in Seq(Addrs), Len(rows) <= MaxRows,
         NEW todo \in Seq(Effects), todo # <<>>, Ordered(todo), op # "discover", ~ In(Console!StartThread, todo)
  PROVE  LET g == Console!Writing(op, cfg, rows, todo) IN
         Paged(g) /\ g.todo = todo /\ g.sel = {} /\ g.at = "next" /\ g.cfg = cfg
<1> DEFINE K == {}
           g == Console!Writing(op, cfg, rows, todo)
<1>1. K \in SUBSET Keys /\ (K # {} => \A k \in Keys : ~ In(Console!DropSecret(k), todo))
  OBVIOUS
<1>2. In(Console!StartThread, todo) => \A e \in Effects : In(e, todo) => e = Console!StartThread
  OBVIOUS
<1>3. g = Console!Handler(op, "next", cfg, rows, K, todo)
  BY DEF Console!Writing
<1> HIDE DEF K, g
<1>4. Paged(g) /\ g.todo = todo /\ g.sel = K /\ g.at = "next" /\ g.cfg = cfg
  BY <1>1, <1>2, <1>3, NewHandler
<1> QED BY <1>4 DEF g, K

LEMMA BeginSave ==
  ASSUME Console!ConstantsOK, ConsoleInv, NEW t, NEW k \in Keys, NEW a \in Addrs, NEW password \in BOOLEAN,
         Console!SaveHost(t, k, a, password)
  PROVE  ConsoleInv'
<1> DEFINE s == IF password THEN <<Console!SetSecret(k)>> ELSE <<>>
           cfg == [hosts EXCEPT ![k] = a]
           r == <<Console!WriteHosts>>
           none == <<>>
           todo == s \o r
           g == Console!Writing("save", cfg, none, todo)
<1>1. hosts \in Configs /\ env \in SUBSET Keys /\ imported \in SUBSET Keys
  BY DEF ConsoleInv, PageTypeInv, PageFilesOK
<1>2. s \in Seq(Sets) /\ \A e : In(e, s) => e = Console!SetSecret(k)
  BY OneSet, EmptyTodo
<1>3. /\ r \in Seq(Effects) /\ r # <<>> /\ Ordered(r)
      /\ \A e : In(e, r) <=> e = Console!WriteHosts
  BY EffectFields, ShortTodo
<1>3a. none \in Seq(Addrs) /\ Len(none) = 0
  BY EmptyTodo
<1> HIDE DEF s, r, none
<1>4. /\ todo \in Seq(Effects) /\ todo # <<>> /\ Ordered(todo)
      /\ \A e : In(e, todo) <=> In(e, s) \/ e = Console!WriteHosts
  <2>1. \A q \in Keys : ~ In(Console!SetSecret(q), r)
    BY <1>3, EffectFields
  <2> QED BY <1>2, <1>3, <2>1, LongTodo
<1> HIDE DEF todo
<1>5. cfg \in Configs
  BY <1>1 DEF Configs
<1>6. g = Console!Handler("save", "next", cfg, none, {}, todo)
  BY DEF Console!Writing
<1>7. ~ In(Console!StartThread, todo)
  BY <1>2, <1>4, EffectFields
<1> HIDE DEF cfg
<1>8. Paged(g) /\ g.todo = todo /\ g.sel = {} /\ g.at = "next" /\ g.cfg = cfg
  <2>1. "save" \in PageOps /\ "save" # "discover" /\ MaxRows \in Nat /\ {} \in SUBSET Keys
    BY DEF PageOps, Console!ConstantsOK
  <2>2. Len(none) <= MaxRows /\ none \in Seq(Addrs)
    BY <1>3a, <2>1
  <2> HIDE DEF g
  <2> DEFINE op == "save"
             h == Console!Writing(op, cfg, none, todo)
  <2>3. op \in PageOps /\ op # "discover" /\ h = g
    BY <2>1 DEF g
  <2> HIDE DEF op
  <2>4. Paged(h) /\ h.todo = todo /\ h.sel = {} /\ h.at = "next" /\ h.cfg = cfg
    BY <1>4, <1>5, <1>7, <2>2, <2>3, NewWriting
  <2> QED BY <2>3, <2>4
<1> HIDE DEF g
<1>9. \A q \in Keys : ~ In(Console!DropSecret(q), g.todo) /\ (In(Console!SetSecret(q), g.todo) => q = k)
  BY <1>2, <1>4, <1>8, EffectFields
<1>10. In(Console!WriteHosts, g.todo)
  BY <1>4, <1>8
<1>11. /\ LoginOK(Console!Idle, hosts, env, imported) => LoginOK(g, hosts, env, imported)
       /\ OrphanOK(Console!Idle, hosts, env) => OrphanOK(g, hosts, env)
  BY <1>1, <1>8, <1>9, <1>10, BeginsSave DEF cfg
<1>12. Console!Begin(t, g) /\ UNCHANGED server
  BY DEF Console!SaveHost, g, s, r, none, cfg, todo
<1> QED BY <1>8, <1>11, <1>12, RequestBegins

LEMMA BeginDelete ==
  ASSUME Console!ConstantsOK, ConsoleInv, NEW t, NEW k \in Keys, Console!Delete(t, k)
  PROVE  ConsoleInv'
<1> DEFINE todo == (IF hosts[k] # "none" THEN <<Console!WriteHosts>> ELSE <<>>) \o <<Console!DropSecret(k)>>
           cfg == [hosts EXCEPT ![k] = "none"]
           none == <<>>
           g == Console!Writing("delete", cfg, none, todo)
<1>1. hosts \in Configs /\ env \in SUBSET Keys /\ imported \in SUBSET Keys
  BY DEF ConsoleInv, PageTypeInv, PageFilesOK
<1>2. todo = IF hosts[k] # "none" THEN <<Console!WriteHosts, Console!DropSecret(k)>> ELSE <<Console!DropSecret(k)>>
  <2>1. Console!WriteHosts \in Effects /\ Console!DropSecret(k) \in Effects
    BY EffectFields
  <2>2. /\ <<Console!WriteHosts>> \o <<Console!DropSecret(k)>> = <<Console!WriteHosts, Console!DropSecret(k)>>
        /\ <<>> \o <<Console!DropSecret(k)>> = <<Console!DropSecret(k)>>
    BY <2>1, OneAndOne
  <2> QED BY <2>2
<1>2a. none \in Seq(Addrs) /\ Len(none) = 0
  BY EmptyTodo
<1> HIDE DEF todo, none
<1>3. /\ todo \in Seq(Effects) /\ todo # <<>> /\ Ordered(todo)
      /\ \A e : In(e, todo) <=> e = Console!DropSecret(k) \/ (hosts[k] # "none" /\ e = Console!WriteHosts)
  <2>1. /\ Console!WriteHosts \in Effects /\ Console!DropSecret(k) \in Effects /\ Console!Touch \in Effects
        /\ Console!WriteHosts.file # "env" /\ Console!DropSecret(k).file # "hosts" /\ ~ Console!DropSecret(k).on
        /\ Console!Touch.file \notin {"env", "hosts"}
    BY EffectFields
  <2>2. /\ <<Console!DropSecret(k)>> \in Seq(Effects) /\ <<Console!DropSecret(k)>> # <<>> /\ Ordered(<<Console!DropSecret(k)>>)
        /\ \A e : In(e, <<Console!DropSecret(k)>>) <=> e = Console!DropSecret(k)
        /\ <<Console!WriteHosts, Console!DropSecret(k)>> \in Seq(Effects) /\ <<Console!WriteHosts, Console!DropSecret(k)>> # <<>>
        /\ Ordered(<<Console!WriteHosts, Console!DropSecret(k)>>)
        /\ \A e : In(e, <<Console!WriteHosts, Console!DropSecret(k)>>) <=> e = Console!WriteHosts \/ e = Console!DropSecret(k)
    BY <2>1, ShortTodo
  <2>3. CASE hosts[k] # "none"
    <3>1. todo = <<Console!WriteHosts, Console!DropSecret(k)>>
      BY <1>2, <2>3
    <3> QED BY <2>2, <2>3, <3>1, Zenon
  <2>4. CASE ~ (hosts[k] # "none")
    <3>1. todo = <<Console!DropSecret(k)>>
      BY <1>2, <2>4
    <3> QED BY <2>2, <2>4, <3>1, Zenon
  <2> QED BY <2>3, <2>4
<1>4. cfg \in Configs
  BY <1>1 DEF Configs
<1>5. g = Console!Handler("delete", "next", cfg, none, {}, todo)
  BY DEF Console!Writing
<1>6. ~ In(Console!StartThread, todo)
  BY <1>3, EffectFields
<1> HIDE DEF cfg
<1>7. Paged(g) /\ g.todo = todo /\ g.sel = {} /\ g.at = "next" /\ g.cfg = cfg
  <2>1. "delete" \in PageOps /\ "delete" # "discover" /\ MaxRows \in Nat /\ {} \in SUBSET Keys
    BY DEF PageOps, Console!ConstantsOK
  <2>2. Len(none) <= MaxRows /\ none \in Seq(Addrs)
    BY <1>2a, <2>1
  <2> HIDE DEF g
  <2> DEFINE op == "delete"
             h == Console!Writing(op, cfg, none, todo)
  <2>3. op \in PageOps /\ op # "discover" /\ h = g
    BY <2>1 DEF g
  <2> HIDE DEF op
  <2>4. Paged(h) /\ h.todo = todo /\ h.sel = {} /\ h.at = "next" /\ h.cfg = cfg
    BY <1>3, <1>4, <1>6, <2>2, <2>3, NewWriting
  <2> QED BY <2>3, <2>4
<1> HIDE DEF g
<1>8. \A q \in Keys : ~ In(Console!SetSecret(q), g.todo) /\ (In(Console!DropSecret(q), g.todo) <=> q = k)
  BY <1>3, <1>7, EffectFields
<1>9. In(Console!WriteHosts, g.todo) <=> hosts[k] # "none"
  BY <1>3, <1>7, EffectFields
<1>10. /\ LoginOK(Console!Idle, hosts, env, imported) => LoginOK(g, hosts, env, imported)
       /\ OrphanOK(Console!Idle, hosts, env) => OrphanOK(g, hosts, env)
  BY <1>1, <1>7, <1>8, <1>9, BeginsDelete DEF cfg
<1>11. Console!Begin(t, g) /\ UNCHANGED server
  BY DEF Console!Delete, g, todo, none, cfg
<1> QED BY <1>7, <1>10, <1>11, RequestBegins

LEMMA BeginWait ==
  ASSUME Console!ConstantsOK, ConsoleInv, NEW t, Console!Bulk(t) \/ \E sel \in SUBSET (1 .. MaxRows) : Console!Import(t, sel)
  PROVE  ConsoleInv'
<1>1. /\ hosts \in Configs /\ env \in SUBSET Keys /\ imported \in SUBSET Keys /\ staging \in Seq(Addrs)
      /\ Len(staging) <= MaxRows /\ MaxRows \in Nat
  BY DEF ConsoleInv, PageTypeInv, PageFilesOK, Console!ConstantsOK
<1>2. CASE Console!Bulk(t)
  <2> DEFINE none == <<>>
             g == Console!Handler("bulk", "env", hosts, none, {}, none)
  <2>1. /\ none \in Seq(Addrs) /\ none \in Seq(Effects) /\ Len(none) = 0 /\ Ordered(none)
        /\ \A e : ~ In(e, none)
    BY EmptyTodo
  <2>2. Console!Begin(t, g) /\ UNCHANGED server
    BY <1>2 DEF Console!Bulk
  <2>3. g.todo = <<>>
    BY DEF Console!Handler
  <2> HIDE DEF none
  <2>4. /\ g \in PageHandlers /\ g.at = "env" /\ g.todo = none /\ g.rows = none /\ g.sel = {} /\ g.op = "bulk"
        /\ g.cfg = hosts
    BY <1>1, <2>1 DEF Console!Handler, PageHandlers, PageOps
  <2> HIDE DEF g
  <2>5. Handled(g)
    BY <1>1, <2>1, <2>3, <2>4 DEF Handled
  <2>6. Paged(g)
    BY <2>4, <2>5 DEF Paged
  <2>7. /\ LoginOK(Console!Idle, hosts, env, imported) => LoginOK(g, hosts, env, imported)
        /\ OrphanOK(Console!Idle, hosts, env) => OrphanOK(g, hosts, env)
    BY <2>3, <2>4, BeginsBulk
  <2> QED BY <2>2, <2>6, <2>7, RequestBegins
<1>3. ASSUME NEW sel \in SUBSET (1 .. MaxRows), Console!Import(t, sel) PROVE ConsoleInv'
  <2> DEFINE none == <<>>
             g == Console!Handler("import", "hosts", Console!NoHosts, staging, sel, none)
  <2>1. /\ none \in Seq(Addrs) /\ none \in Seq(Effects) /\ Len(none) = 0 /\ Ordered(none)
        /\ \A e : ~ In(e, none)
    BY EmptyTodo
  <2>2. Console!Begin(t, g) /\ UNCHANGED server
    BY <1>3 DEF Console!Import
  <2>3. g.todo = <<>>
    BY DEF Console!Handler
  <2> HIDE DEF none
  <2>4. sel \in SUBSET (Nat \cup Keys) /\ Console!NoHosts \in Configs
    BY <1>1, IdleFacts
  <2>5. /\ g \in PageHandlers /\ g.at = "hosts" /\ g.todo = none /\ g.rows = staging /\ g.op = "import"
    BY <1>1, <2>1, <2>4 DEF Console!Handler, PageHandlers, PageOps
  <2> HIDE DEF g
  <2>6. Handled(g)
    BY <1>1, <2>1, <2>3, <2>5 DEF Handled
  <2>7. Paged(g)
    BY <2>5, <2>6 DEF Paged
  <2>8. /\ LoginOK(Console!Idle, hosts, env, imported) => LoginOK(g, hosts, env, imported)
        /\ OrphanOK(Console!Idle, hosts, env) => OrphanOK(g, hosts, env)
    <3>1. g.at \in {"next", "hosts"} /\ (g.at = "hosts" \/ g.sel = {})
      BY <2>5
    <3>2. \A e \in Effects : In(e, g.todo) => e.file \notin {"env", "hosts"}
      BY <2>1, <2>5
    <3> QED BY <3>1, <3>2, BeginsPlain
  <2> QED BY <2>2, <2>7, <2>8, RequestBegins
<1> QED BY <1>2, <1>3

LEMMA RemoveAtType ==
  ASSUME NEW S, NEW s \in Seq(S), NEW i \in 1 .. Len(s)
  PROVE  Console!RemoveAt(s, i) \in Seq(S)
<1>1. SubSeq(s, 1, i - 1) \in Seq(S) /\ SubSeq(s, i + 1, Len(s)) \in Seq(S)
  OBVIOUS
<1>2. \A a, b \in Seq(S) : a \o b \in Seq(S)
  OBVIOUS
<1> QED BY <1>1, <1>2 DEF Console!RemoveAt

LEMMA BeginStage ==
  ASSUME Console!ConstantsOK, ConsoleInv, NEW t, NEW op \in PageOps, op # "discover", NEW rows \in Seq(Addrs),
         Console!Stage(t, op, rows)
  PROVE  ConsoleInv'
<1>1. Console!WriteStaging \in Effects /\ Console!WriteStaging.file \notin {"env", "hosts"}
  BY EffectFields
<1> QED BY <1>1, BeginPlain DEF Console!Stage

LEMMA RequestInv ==
  ASSUME Console!ConstantsOK, ConsoleInv, NEW t \in Pages, Console!Request(t)
  PROVE  ConsoleInv'
<1>1. staging \in Seq(Addrs) /\ \A rows \in Lists : rows \in Seq(Addrs)
  BY DEF ConsoleInv, PageTypeInv, PageFilesOK, Console!ConstantsOK
<1>2. \A a, b \in Seq(Addrs) : a \o b \in Seq(Addrs)
  OBVIOUS
<1>3. {"upload", "edit", "add", "remove", "clear", "reload", "run", "render"} \subseteq PageOps \ {"discover"}
  BY DEF PageOps
<1>4. <<>> \in Seq(Addrs) /\ Len(<<>>) = 0 /\ MaxRows \in Nat /\ 0 <= MaxRows
  BY EmptyTodo DEF Console!ConstantsOK
<1>5. ASSUME NEW rows \in Lists, NEW merge \in BOOLEAN, Console!Upload(t, rows, merge) PROVE ConsoleInv'
  <2>1. rows \in Seq(Addrs) /\ Console!Merged(staging \o rows) \in Seq(Addrs)
    BY <1>1, <1>2, MergedType
  <2> QED BY <1>3, <1>5, <2>1, BeginStage DEF Console!Upload
<1>6. ASSUME NEW rows \in Lists, Console!StagingSave(t, rows) PROVE ConsoleInv'
  BY <1>1, <1>3, <1>6, BeginStage DEF Console!StagingSave
<1>7. ASSUME NEW a \in Addrs, Console!StagingAdd(t, a) PROVE ConsoleInv'
  <2>1. Append(staging, a) \in Seq(Addrs)
    BY <1>1, AppendType
  <2> QED BY <1>3, <1>7, <2>1, BeginStage DEF Console!StagingAdd
<1>8. ASSUME NEW i, Console!StagingRemove(t, i) PROVE ConsoleInv'
  <2>1. i \in 1 .. Len(staging) /\ Console!Stage(t, "remove", Console!RemoveAt(staging, i))
    BY <1>1, <1>8 DEF Console!StagingRemove
  <2> QED BY <1>1, <1>3, <2>1, RemoveAtType, BeginStage
<1>9. CASE Console!Clear(t)
  BY <1>3, <1>4, <1>9, BeginStage DEF Console!Clear
<1>10. CASE Console!Reload(t)
  <2>1. Console!Touch \in Effects /\ Console!Touch.file \notin {"env", "hosts"}
    BY EffectFields
  <2> QED BY <1>3, <1>4, <1>10, <2>1, BeginPlain DEF Console!Reload
<1>11. CASE Console!DiscoveryRun(t)
  <2>1. Console!StartThread \in Effects /\ Console!StartThread.file \notin {"env", "hosts"}
    BY EffectFields
  <2> QED BY <1>3, <1>4, <1>11, <2>1, BeginPlain DEF Console!DiscoveryRun
<1>12. CASE Console!Render(t)
  <2>1. Console!WriteJob("idle") \in Effects /\ Console!WriteJob("idle").file \notin {"env", "hosts"}
    BY EffectFields DEF Jobs
  <2> QED BY <1>3, <1>4, <1>12, <2>1, BeginPlain DEF Console!Render
<1> QED BY <1>5, <1>6, <1>7, <1>8, <1>9, <1>10, <1>11, <1>12, BeginSave, BeginDelete, BeginWait
  DEF Console!Request

-----------------------------------------------------------------------------
(* Threads go on                                                           *)

\* What PageTypeInv says when files, server and imported keep their types.
LEMMA StepTypes ==
  ASSUME Console!ConstantsOK, ConsoleInv, ThreadsOK(page'), PageFilesOK', server' \in Servers, imported' \subseteq Keys,
         UNCHANGED <<pages, restarts, overwritten, cut>>
  PROVE  PageTypeInv'
BY DEF ConsoleInv, PageTypeInv

\* A request or a discovery goes on to g and changes nothing else.
LEMMA QuietStep ==
  ASSUME Console!ConstantsOK, ConsoleInv, NEW t \in Console!Threads, page[t] # Console!Idle,
         NEW g, t \in Pages => Paged(g), t \in Workers => Background(g),
         page' = [page EXCEPT ![t] = g], server' \in Servers,
         UNCHANGED <<Console!files, imported, pages, restarts, overwritten, cut>>,
         t \in Pages =>
           /\ LoginOK(page[t], hosts, env, imported) => LoginOK(g, hosts, env, imported)
           /\ OrphanOK(page[t], hosts, env) => OrphanOK(g, hosts, env)
  PROVE  ConsoleInv'
<1>1. /\ hosts' = hosts /\ env' = env /\ staging' = staging /\ job' = job /\ imported' = imported
      /\ UNCHANGED <<pages, restarts, overwritten, cut>>
  BY DEF Console!files
<1>2. ThreadsOK(page')
  BY ThreadSteps DEF ConsoleInv, PageTypeInv
<1>3. PageFilesOK' /\ imported' \subseteq Keys
  BY <1>1 DEF ConsoleInv, PageTypeInv, PageFilesOK
<1>4. PageTypeInv'
  BY <1>1, <1>2, <1>3, StepTypes
<1>5. CASE t \in Pages
  BY <1>1, <1>5, RequestMoves, <1>4 DEF ConsoleInv, TurnInv
<1>6. CASE t \in Workers
  BY <1>1, <1>6, WorkerMoves, <1>4 DEF ConsoleInv, TurnInv
<1> QED BY <1>5, <1>6 DEF Console!Threads

LEMMA ThreadFacts ==
  ASSUME Console!ConstantsOK, ConsoleInv, NEW t \in Console!Threads
  PROVE  /\ Handled(page[t]) /\ page[t] \in PageHandlers
         /\ t \in Pages => Paged(page[t])
         /\ t \in Workers => Background(page[t])
         /\ page[t].at # "idle" => page[t] # Console!Idle
         /\ page[t].todo # <<>> => page[t] # Console!Idle
         /\ t \in Pages <=> t \notin Workers
         /\ Fin(page[t]) = Console!Finished(t)
         /\ page[t].todo # <<>> /\ t \in Workers => Head(page[t].todo).file \in {"staging", "job"}
<1>1. /\ t \in Pages => Paged(page[t])
      /\ t \in Workers => Background(page[t])
      /\ t \in Pages <=> t \notin Workers
  BY DEF ConsoleInv, PageTypeInv, ThreadsOK, Console!Threads, Console!ConstantsOK
<1>2. Handled(page[t])
  BY <1>1 DEF Paged, Background
<1>3. page[t] \in PageHandlers /\ page[t].todo \in Seq(Effects)
  BY <1>2, HandlerFields DEF Handled
<1>4. ASSUME page[t].todo # <<>>, t \in Workers PROVE Head(page[t].todo).file \in {"staging", "job"}
  BY <1>1, <1>2, <1>4, Split DEF Background
<1> QED BY <1>1, <1>2, <1>3, <1>4, IdleFacts DEF Fin, Console!Finished

\* SetToSeq is a sequence of the elements of the set.
LEMMA SecretsSeq ==
  ASSUME Console!ConstantsOK, NEW K \in SUBSET Keys
  PROVE  Console!SecretsOf(K) \in Seq(Sets) /\ \A k \in Keys : In(Console!SetSecret(k), Console!SecretsOf(K)) => k \in K
<1> DEFINE S == {Console!SetSecret(k) : k \in K}
           n == Cardinality(S)
           Ok(f) == f \in [1 .. n -> S] /\ Console!IsInjective(f)
<1>1. IsFiniteSet(K)
  BY SameSizes, FS_Subset DEF Console!ConstantsOK
<1>2. IsFiniteSet(S)
  <2> DEFINE to == [k \in K |-> Console!SetSecret(k)]
  <2>1. to \in Surjection(K, S)
    BY DEF Surjection
  <2> QED BY <1>1, <2>1, FS_Surjection
<1>3. n \in Nat /\ \E f : ExistsBijection(1 .. n, S)
  BY <1>2, FS_CardinalityType
<1>4. PICK f : f \in Bijection(1 .. n, S)
  BY <1>3 DEF ExistsBijection
<1>5. Ok(f)
  BY <1>4 DEF Bijection, Injection, IsInjective, Console!IsInjective
<1> DEFINE s == Console!SecretsOf(K)
<1>6. s \in [1 .. n -> S]
  <2>1. s = CHOOSE g \in [1 .. n -> S] : Console!IsInjective(g)
    BY SameSizes DEF Console!SecretsOf, Console!SetToSeq
  <2> QED BY <1>5, <2>1
<1> HIDE DEF s, n, S
<1>7. S \subseteq Sets /\ \A k \in Keys : Console!SetSecret(k) \in S => k \in K
  BY EffectFields DEF S, Sets
<1>8. s \in Seq(Sets) /\ Len(s) = n /\ \A i \in 1 .. n : s[i] \in S
  BY <1>3, <1>6, <1>7
<1> QED BY <1>7, <1>8 DEF In, s

LEMMA Associative ==
  ASSUME NEW S, NEW a \in Seq(S), NEW b \in Seq(S), NEW c \in Seq(S)
  PROVE  (a \o b) \o c = a \o (b \o c) /\ a \o <<>> = a
<1> DEFINE w == (a \o b) \o c
           v == a \o (b \o c)
           n == Len(a) + Len(b) + Len(c)
<1>1. Len(a) \in Nat /\ Len(b) \in Nat /\ Len(c) \in Nat
  OBVIOUS
<1>2. /\ a \o b \in Seq(S) /\ Len(a \o b) = Len(a) + Len(b)
      /\ b \o c \in Seq(S) /\ Len(b \o c) = Len(b) + Len(c)
  OBVIOUS
<1>3. w \in Seq(S) /\ Len(w) = n /\ v \in Seq(S) /\ Len(v) = n
  BY <1>1, <1>2
<1>4. \A i \in 1 .. n : w[i] = v[i]
  BY <1>1, <1>2
<1>5. \A s, t \in Seq(S) : Len(s) = Len(t) /\ (\A i \in 1 .. Len(s) : s[i] = t[i]) => s = t
  BY SMTT(30)
<1>6. w = v
  <2> HIDE DEF w, v
  <2> QED BY <1>3, <1>4, <1>5
<1> QED BY <1>6

LEMMA BulkStep ==
  ASSUME Console!ConstantsOK, ConsoleInv, NEW t \in Console!Threads, Console!BulkTargets(t)
  PROVE  ConsoleInv'
<1>1. PICK scope \in {"none", "missing", "all"}, username \in BOOLEAN :
        LET named == {k \in Keys : page[t].cfg[k] # "none"}
            K == CASE scope = "none" -> {}
                   [] scope = "missing" -> named \ env
                   [] scope = "all" -> named
        IN page' = [page EXCEPT ![t] =
                     IF K = {} /\ scope # "none" THEN Console!Idle
                     ELSE Console!Writing("bulk", page[t].cfg, <<>>,
                            Console!SecretsOf(K) \o (IF username THEN <<Console!WriteHosts>> ELSE <<>>) \o <<Console!Touch>>)]
  BY DEF Console!BulkTargets
<1> DEFINE h == page[t]
           named == {k \in Keys : h.cfg[k] # "none"}
           K == CASE scope = "none" -> {}
                  [] scope = "missing" -> named \ env
                  [] scope = "all" -> named
           none == <<>>
           todo == Console!SecretsOf(K) \o (IF username THEN <<Console!WriteHosts>> ELSE none) \o <<Console!Touch>>
           g == IF K = {} /\ scope # "none" THEN Console!Idle ELSE Console!Writing("bulk", h.cfg, none, todo)
<1>2. /\ page' = [page EXCEPT ![t] = g] /\ h.at = "env"
      /\ UNCHANGED <<Console!files, server, imported, pages, restarts, overwritten, cut>>
  BY <1>1 DEF Console!BulkTargets
<1>3. K \in SUBSET Keys /\ K \subseteq named
  OBVIOUS
<1>4. none \in Seq(Addrs) /\ none \in Seq(Effects) /\ Len(none) = 0 /\ MaxRows \in Nat
  BY EmptyTodo DEF Console!ConstantsOK
<1> HIDE DEF K
<1>5. t \in Pages /\ Paged(h) /\ Handled(h) /\ h \in PageHandlers /\ h.todo = <<>> /\ h # Console!Idle /\ h.cfg \in Configs
  BY <1>2, ThreadFacts, HandlerFields DEF Background, Handled
<1>6. Console!SecretsOf(K) \in Seq(Sets) /\ \A k \in Keys : In(Console!SetSecret(k), Console!SecretsOf(K)) => k \in K
  BY <1>3, SecretsSeq
<1> DEFINE r == IF username THEN <<Console!WriteHosts, Console!Touch>> ELSE <<Console!Touch>>
           s == Console!SecretsOf(K)
<1>7. todo = s \o r
  <2>1. Console!WriteHosts \in Effects /\ Console!Touch \in Effects /\ s \in Seq(Effects)
    <3>1. \A q : q \in Seq(Sets) => q \in Seq(Effects)
      BY EffectFields
    <3> QED BY <1>6, <3>1, EffectFields
  <2>2. <<Console!WriteHosts>> \in Seq(Effects) /\ <<Console!Touch>> \in Seq(Effects)
    BY <2>1
  <2>3. <<Console!WriteHosts>> \o <<Console!Touch>> = <<Console!WriteHosts, Console!Touch>>
    BY <2>1, OneAndOne
  <2> HIDE DEF s
  <2>4. (s \o <<Console!WriteHosts>>) \o <<Console!Touch>> = s \o <<Console!WriteHosts, Console!Touch>> /\ (s \o none) \o <<Console!Touch>> = s \o <<Console!Touch>>
    BY <2>1, <2>2, <2>3, Associative
  <2>5. todo = (s \o (IF username THEN <<Console!WriteHosts>> ELSE none)) \o <<Console!Touch>>
    BY DEF s
  <2> HIDE DEF todo, none
  <2>6. CASE username
    BY <2>4, <2>5, <2>6
  <2>7. CASE ~ username
    BY <2>4, <2>5, <2>7
  <2> QED BY <2>6, <2>7
<1>8. /\ r \in Seq(Effects) /\ r # <<>> /\ Ordered(r)
      /\ \A e : In(e, r) => e = Console!WriteHosts \/ e = Console!Touch
  <2>1. /\ Console!WriteHosts \in Effects /\ Console!Touch \in Effects
        /\ Console!WriteHosts.file # "env" /\ Console!Touch.file \notin {"env", "hosts"}
    BY EffectFields
  <2>2. /\ <<Console!Touch>> \in Seq(Effects) /\ <<Console!Touch>> # <<>> /\ Ordered(<<Console!Touch>>)
        /\ \A e : In(e, <<Console!Touch>>) <=> e = Console!Touch
        /\ <<Console!WriteHosts, Console!Touch>> \in Seq(Effects) /\ <<Console!WriteHosts, Console!Touch>> # <<>>
        /\ Ordered(<<Console!WriteHosts, Console!Touch>>)
        /\ \A e : In(e, <<Console!WriteHosts, Console!Touch>>) <=> e = Console!WriteHosts \/ e = Console!Touch
    BY <2>1, ShortTodo
  <2> QED BY <2>2
<1> HIDE DEF todo, s, r, none
<1>9. /\ todo \in Seq(Effects) /\ todo # <<>> /\ Ordered(todo)
      /\ \A k \in Keys : ~ In(Console!DropSecret(k), todo) /\ (In(Console!SetSecret(k), todo) => k \in K)
      /\ ~ In(Console!StartThread, todo)
  <2>1. \A k \in Keys : ~ In(Console!SetSecret(k), r)
    BY <1>8, EffectFields
  <2>2. s \in Seq(Sets)
    BY <1>6 DEF s
  <2>3. /\ todo \in Seq(Effects) /\ todo # <<>> /\ Ordered(todo)
        /\ \A e : In(e, todo) <=> In(e, s) \/ In(e, r)
        /\ \A e : In(e, s) => e \in Sets
    BY <1>7, <1>8, <2>1, <2>2, LongTodo
  <2>4. \A e \in Sets : \E k \in Keys : e = Console!SetSecret(k)
    BY DEF Sets
  <2>5. \A k \in Keys : In(Console!SetSecret(k), todo) => k \in K
    BY <1>6, <2>1, <2>3 DEF s
  <2>6. \A k \in Keys : ~ In(Console!DropSecret(k), todo)
    BY <1>8, <2>3, <2>4, EffectFields
  <2>7. ~ In(Console!StartThread, todo)
    BY <1>8, <2>3, <2>4, EffectFields
  <2> QED BY <2>3, <2>5, <2>6, <2>7
<1>10. CASE K = {} /\ scope # "none"
  <2>1. g = Console!Idle /\ Paged(Console!Idle)
    BY <1>10, IdleFacts
  <2>2. /\ LoginOK(h, hosts, env, imported) => LoginOK(Console!Idle, hosts, env, imported)
        /\ OrphanOK(h, hosts, env) => OrphanOK(Console!Idle, hosts, env)
    <3>1. env \in SUBSET Keys /\ \A e : ~ In(e, h.todo)
      BY <1>5, EmptyTodo DEF ConsoleInv, PageTypeInv, PageFilesOK
    <3> QED BY <1>2, <3>1, GivesUp
  <2>3. server' \in Servers
    BY <1>2 DEF ConsoleInv, PageTypeInv
  <2> HIDE DEF g
  <2> QED BY <1>2, <1>5, <2>1, <2>2, <2>3, QuietStep, ThreadFacts
<1>11. CASE ~ (K = {} /\ scope # "none")
  <2> DEFINE op == "bulk"
             cfg == h.cfg
             x == Console!Writing(op, cfg, none, todo)
  <2>1. g = x /\ op \in PageOps /\ op # "discover" /\ Len(none) <= MaxRows /\ cfg \in Configs
    BY <1>4, <1>5, <1>11 DEF PageOps
  <2> HIDE DEF op, cfg, g, h
  <2>2. Paged(x) /\ x.todo = todo /\ x.sel = {} /\ x.at = "next" /\ x.cfg = cfg
    <3>1. /\ op \in PageOps /\ op # "discover" /\ Len(none) <= MaxRows /\ cfg \in Configs /\ none \in Seq(Addrs)
          /\ todo \in Seq(Effects) /\ todo # <<>> /\ Ordered(todo) /\ ~ In(Console!StartThread, todo)
      BY <1>4, <1>9, <2>1
    <3> QED BY <3>1, NewWriting
  <2> HIDE DEF x
  <2>3. /\ LoginOK(h, hosts, env, imported) => LoginOK(x, hosts, env, imported)
        /\ OrphanOK(h, hosts, env) => OrphanOK(x, hosts, env)
    <3>1. \A k \in Keys : ~ In(Console!DropSecret(k), x.todo) /\ (In(Console!SetSecret(k), x.todo) => h.cfg[k] # "none")
      BY <1>3, <1>9, <2>2
    <3> QED BY <1>2, <1>5, <2>2, <3>1, ChoosesBulk DEF cfg
  <2>4. server' \in Servers
    BY <1>2 DEF ConsoleInv, PageTypeInv
  <2> QED BY <1>2, <1>5, <2>1, <2>2, <2>3, <2>4, QuietStep, ThreadFacts DEF h
<1> QED BY <1>10, <1>11

LEMMA ImportStep ==
  ASSUME Console!ConstantsOK, ConsoleInv, NEW t \in Console!Threads, Console!ImportHosts(t)
  PROVE  ConsoleInv'
<1> DEFINE h == page[t]
           m == Console!MergeSelected(hosts, h.rows, h.sel)
           rows == Console!Picked(h.rows, DOMAIN h.rows \ h.sel)
           sel == {effect.key : effect \in Console!ToSet(m.done)}
           r == <<Console!WriteHosts, Console!Touch, Console!WriteStaging>>
           s == m.done
           todo == s \o r
           op == "import"
           cfg == m.cfg
           g == Console!Handler(op, "next", cfg, rows, sel, todo)
<1>1. /\ page' = [page EXCEPT ![t] = g] /\ h.at = "hosts"
      /\ UNCHANGED <<Console!files, server, imported, pages, restarts, overwritten, cut>>
  BY DEF Console!ImportHosts, Console!Importing
<1>2. /\ t \in Pages /\ Paged(h) /\ Handled(h) /\ h \in PageHandlers /\ h.todo = <<>> /\ h # Console!Idle
      /\ h.rows \in Seq(Addrs) /\ Len(h.rows) <= MaxRows /\ hosts \in Configs /\ env \in SUBSET Keys
  BY <1>1, ThreadFacts, HandlerFields DEF Background, Handled, ConsoleInv, PageTypeInv, PageFilesOK
<1>3. m \in Merges(hosts)
  BY <1>2, MergeSelectedMerges
<1>4. rows \in Seq(Addrs) /\ Len(rows) <= MaxRows
  <2>1. rows \in Seq(Addrs) /\ Len(rows) <= Len(h.rows)
    BY <1>2, PickedType
  <2>2. Len(rows) \in Nat /\ Len(h.rows) \in Nat /\ MaxRows \in Nat
    BY <1>2, <2>1 DEF Console!ConstantsOK
  <2> QED BY <1>2, <2>1, <2>2
<1> HIDE DEF m, rows
<1>5. /\ cfg \in Configs /\ s \in Seq(Sets)
      /\ \A k \in Keys : hosts[k] # "none" => cfg[k] = hosts[k]
      /\ \A i \in 1 .. Len(s) : cfg[s[i].key] # "none"
  BY <1>3 DEF Merges
<1> HIDE DEF s, cfg
<1>6. /\ \A i \in 1 .. Len(s) : s[i] \in Sets /\ s[i].key \in Keys /\ s[i] = Console!SetSecret(s[i].key)
      /\ sel = {s[i].key : i \in 1 .. Len(s)}
  <2>1. \A i \in 1 .. Len(s) : s[i] \in Sets
    BY <1>5
  <2>2. \A e \in Sets : e.key \in Keys /\ e = Console!SetSecret(e.key)
    BY EffectFields DEF Sets
  <2>3. Console!ToSet(m.done) = {s[i] : i \in 1 .. Len(s)}
    BY <1>5 DEF Console!ToSet, s
  <2> HIDE DEF s
  <2>4. sel = {s[i].key : i \in 1 .. Len(s)}
    BY <2>3
  <2> QED BY <2>1, <2>2, <2>4
<1> HIDE DEF sel
<1>7. sel \in SUBSET Keys /\ \A k \in sel : In(Console!SetSecret(k), s)
  BY <1>6 DEF In
<1>8. \A k \in Keys : In(Console!SetSecret(k), s) => cfg[k] # "none"
  BY <1>5, EffectFields DEF In
<1>9. /\ r \in Seq(Effects) /\ r # <<>> /\ Ordered(r)
      /\ \A e : In(e, r) <=> e = Console!WriteHosts \/ e = Console!Touch \/ e = Console!WriteStaging
  <2>1. /\ Console!WriteHosts \in Effects /\ Console!Touch \in Effects /\ Console!WriteStaging \in Effects
        /\ Console!WriteHosts.file # "env" /\ Console!Touch.file \notin {"env", "hosts"}
        /\ Console!WriteStaging.file \notin {"env", "hosts"}
    BY EffectFields
  <2> QED BY <2>1, ShortTodo
<1> HIDE DEF r
<1>10. \A k \in Keys : ~ In(Console!SetSecret(k), r)
  BY <1>9, EffectFields
<1>11. /\ todo \in Seq(Effects) /\ todo # <<>> /\ Ordered(todo)
       /\ \A e : In(e, todo) <=> In(e, s) \/ In(e, r)
       /\ \A e : In(e, s) => e \in Sets
  BY <1>5, <1>9, <1>10, LongTodo
<1> HIDE DEF todo
<1>12. \A e \in Sets : \E k \in Keys : e = Console!SetSecret(k)
  BY DEF Sets
<1>13. /\ \A k \in Keys : ~ In(Console!DropSecret(k), todo) /\ (In(Console!SetSecret(k), todo) => cfg[k] # "none")
       /\ \A k \in sel : In(Console!SetSecret(k), todo)
       /\ ~ In(Console!StartThread, todo) /\ In(Console!WriteHosts, todo)
  <2>1. \A k \in Keys : ~ In(Console!DropSecret(k), todo)
    BY <1>9, <1>11, <1>12, EffectFields
  <2>2. \A k \in Keys : In(Console!SetSecret(k), todo) => cfg[k] # "none"
    BY <1>8, <1>10, <1>11
  <2>3. ~ In(Console!StartThread, todo)
    BY <1>9, <1>11, <1>12, EffectFields
  <2>4. In(Console!WriteHosts, todo)
    BY <1>9, <1>11
  <2> QED BY <1>7, <1>11, <2>1, <2>2, <2>3, <2>4
<1>14. Paged(g) /\ g.todo = todo /\ g.sel = sel /\ g.cfg = cfg /\ g.at = "next"
  <2>1. op \in PageOps /\ op # "discover"
    BY DEF PageOps
  <2> HIDE DEF op
  <2>2. In(Console!StartThread, todo) => \A e \in Effects : In(e, todo) => e = Console!StartThread
    BY <1>13
  <2>3. sel # {} => \A k \in Keys : ~ In(Console!DropSecret(k), todo)
    BY <1>13
  <2>4. cfg \in Configs /\ sel \in SUBSET Keys /\ todo \in Seq(Effects) /\ todo # <<>> /\ Ordered(todo)
    BY <1>5, <1>7, <1>11
  <2> QED BY <1>4, <2>1, <2>2, <2>3, <2>4, NewHandler
<1> HIDE DEF g
<1>15. /\ LoginOK(h, hosts, env, imported) => LoginOK(g, hosts, env, imported)
       /\ OrphanOK(h, hosts, env) => OrphanOK(g, hosts, env)
  <2> HIDE DEF h
  <2> QED BY <1>1, <1>2, <1>5, <1>13, <1>14, ChoosesImport
<1>16. server' \in Servers
  BY <1>1 DEF ConsoleInv, PageTypeInv
<1> QED BY <1>1, <1>2, <1>14, <1>15, <1>16, QuietStep, ThreadFacts

LEMMA ReadStep ==
  ASSUME Console!ConstantsOK, ConsoleInv, NEW t \in Console!Threads, Console!ReadEnv(t)
  PROVE  ConsoleInv'
<1> DEFINE h == page[t]
           new == IF Head(h.todo).on THEN env \cup {Head(h.todo).key} ELSE env \ {Head(h.todo).key}
           g == [h EXCEPT !.at = "read", !.secrets = new]
<1>1. /\ h.at = "next" /\ h.todo # <<>> /\ Head(h.todo).file = "env"
      /\ page' = [page EXCEPT ![t] = IF ~ Head(h.todo).on /\ Head(h.todo).key \notin env THEN Console!Finished(t) ELSE g]
      /\ UNCHANGED <<Console!files, server, imported, pages, restarts, overwritten, cut>>
  BY DEF Console!ReadEnv, Console!Has, Console!Current
<1>2. t \in Pages /\ Paged(h) /\ Handled(h) /\ h # Console!Idle /\ Console!Finished(t) = Fin(h)
  BY <1>1, ThreadFacts
<1>3. env \in SUBSET Keys /\ server' \in Servers
  BY <1>1 DEF ConsoleInv, PageTypeInv, PageFilesOK
<1>4. CASE ~ Head(h.todo).on /\ Head(h.todo).key \notin env
  <2>1. Paged(Fin(h)) /\ page' = [page EXCEPT ![t] = Fin(h)]
    BY <1>1, <1>2, <1>4, FinFacts
  <2>2. /\ LoginOK(h, hosts, env, imported) => LoginOK(Fin(h), hosts, env, imported)
        /\ OrphanOK(h, hosts, env) => OrphanOK(Fin(h), hosts, env)
    <3> HIDE DEF h
    <3> QED BY <1>1, <1>2, <1>3, <1>4, Skips
  <2> QED BY <1>1, <1>2, <1>3, <2>1, <2>2, QuietStep, ThreadFacts
<1>5. CASE ~ (~ Head(h.todo).on /\ Head(h.todo).key \notin env)
  <2>1. page' = [page EXCEPT ![t] = g]
    BY <1>1, <1>5
  <2>2. /\ Handled(g) /\ (Paged(h) => Paged(g))
        /\ LoginOK(h, hosts, env, imported) => LoginOK(g, hosts, env, imported)
        /\ OrphanOK(h, hosts, env) => OrphanOK(g, hosts, env)
    <3> HIDE DEF h
    <3> QED BY <1>1, <1>2, <1>3, Reads, ZenonT(30)
  <2> HIDE DEF g
  <2> QED BY <1>1, <1>2, <1>3, <2>1, <2>2, QuietStep, ThreadFacts
<1> QED BY <1>4, <1>5

LEMMA TouchStep ==
  ASSUME Console!ConstantsOK, ConsoleInv, NEW t \in Console!Threads, Console!TouchHosts(t)
  PROVE  ConsoleInv'
<1> DEFINE h == page[t]
<1>1. /\ h.at = "next" /\ h.todo # <<>> /\ Head(h.todo).file = "touch"
      /\ page' = [page EXCEPT ![t] = Console!Finished(t)] /\ Console!Touched
      /\ UNCHANGED <<Console!files, imported, pages, restarts, overwritten, cut>>
  BY DEF Console!TouchHosts, Console!Has, Console!Current
<1>2. t \in Pages /\ Paged(h) /\ Handled(h) /\ h # Console!Idle /\ Console!Finished(t) = Fin(h)
  BY <1>1, ThreadFacts
<1>3. env \in SUBSET Keys /\ server' \in Servers
  BY <1>1 DEF ConsoleInv, PageTypeInv, PageFilesOK, Console!Touched, Servers
<1>4. Paged(Fin(h)) /\ page' = [page EXCEPT ![t] = Fin(h)]
  BY <1>1, <1>2, FinFacts
<1>5. /\ LoginOK(h, hosts, env, imported) => LoginOK(Fin(h), hosts, env, imported)
      /\ OrphanOK(h, hosts, env) => OrphanOK(Fin(h), hosts, env)
  <2> HIDE DEF h
  <2> QED BY <1>1, <1>2, <1>3, FinishesPlain
<1> QED BY <1>1, <1>2, <1>3, <1>4, <1>5, QuietStep, ThreadFacts

LEMMA OpenStep ==
  ASSUME Console!ConstantsOK, ConsoleInv, NEW t \in Console!Threads, Console!Open(t)
  PROVE  ConsoleInv'
<1> DEFINE h == page[t]
           f == Head(h.todo).file
           g == [h EXCEPT !.at = "open"]
<1>1. /\ h.at = "read" \/ (h.at = "next" /\ h.todo # <<>> /\ f \in {"hosts", "staging", "job"})
      /\ hosts' = IF f = "hosts" THEN Console!NoHosts ELSE hosts
      /\ env' = IF f = "env" THEN {} ELSE env
      /\ staging' = IF f = "staging" THEN <<>> ELSE staging
      /\ job' = IF f = "job" THEN "idle" ELSE job
      /\ IF f = "hosts" THEN Console!Touched ELSE UNCHANGED server
      /\ UNCHANGED <<imported, pages, restarts, overwritten, cut>>
  BY DEF Console!Open, Console!Has, Console!Current
<1>2. /\ Handled(h) /\ h # Console!Idle /\ (t \in Pages => Paged(h)) /\ (t \in Workers => Background(h))
      /\ DOMAIN page = Console!Threads
  BY <1>1, ThreadFacts DEF ConsoleInv, PageTypeInv, ThreadsOK
<1>3. h.todo # <<>>
  BY <1>1, <1>2 DEF Handled
<1>4. page' = [page EXCEPT ![t] = g]
  <2>1. page' = [page EXCEPT ![t].at = "open"]
    BY DEF Console!Open
  <2> QED BY <2>1
<1>5. hosts \in Configs /\ env \in SUBSET Keys
  BY DEF ConsoleInv, PageTypeInv, PageFilesOK
<1>6. /\ Handled(g) /\ (Paged(h) => Paged(g)) /\ (Background(h) => Background(g))
      /\ LoginOK(h, hosts, env, imported) => LoginOK(g, hosts', env', imported)
      /\ OrphanOK(h, hosts, env) => OrphanOK(g, hosts', env')
  <2> DEFINE H2 == hosts'
             E2 == env'
  <2>1. Opening(h, hosts, env, g, H2, E2)
    BY <1>1, <1>2, <1>3 DEF Opening
  <2> HIDE DEF h, g, H2, E2
  <2>4. /\ Handled(g) /\ (Paged(h) => Paged(g)) /\ (Background(h) => Background(g))
        /\ LoginOK(h, hosts, env, imported) => LoginOK(g, H2, E2, imported)
        /\ OrphanOK(h, hosts, env) => OrphanOK(g, H2, E2)
    BY <1>5, <2>1, Opens
  <2> QED BY <2>4 DEF H2, E2
<1> HIDE DEF g
<1>7. ThreadsOK(page')
  BY <1>2, <1>4, <1>6, ThreadSteps DEF ConsoleInv, PageTypeInv
<1>8. PageFilesOK'
  <2>1. Console!NoHosts \in Configs /\ <<>> \in Seq(Addrs) /\ Len(<<>>) = 0 /\ MaxRows \in Nat /\ "idle" \in Jobs
    BY IdleFacts, EmptyTodo DEF Console!ConstantsOK, Jobs
  <2> QED BY <1>1, <2>1 DEF ConsoleInv, PageTypeInv, PageFilesOK
<1>9. server' \in Servers
  BY <1>1 DEF ConsoleInv, PageTypeInv, Console!Touched, Servers
<1>10. PageTypeInv'
  BY <1>1, <1>7, <1>8, <1>9, StepTypes DEF ConsoleInv, PageTypeInv
<1>11. CASE t \in Pages
  <2>1. TurnInv'
    BY <1>1, <1>2, <1>4, <1>6, <1>11, RequestMoves
  <2> QED BY <1>10, <2>1 DEF ConsoleInv, TurnInv
<1>12. CASE t \in Workers
  <2>1. f \in {"staging", "job"}
    BY <1>3, <1>12, ThreadFacts
  <2>2. UNCHANGED <<hosts, env>>
    BY <1>1, <2>1
  <2>3. TurnInv'
    BY <1>1, <1>4, <1>12, <2>2, WorkerMoves
  <2> QED BY <1>10, <2>3 DEF ConsoleInv, TurnInv
<1> QED BY <1>11, <1>12 DEF Console!Threads

LEMMA WriteStep ==
  ASSUME Console!ConstantsOK, ConsoleInv, NEW t \in Console!Threads, Console!Write(t)
  PROVE  ConsoleInv'
<1> DEFINE h == page[t]
           f == Head(h.todo).file
           g == Fin(h)
<1>1. /\ h.at = "open"
      /\ hosts' = IF f = "hosts" THEN h.cfg ELSE hosts
      /\ env' = IF f = "env" THEN h.secrets ELSE env
      /\ staging' = IF f = "staging" THEN h.rows ELSE staging
      /\ job' = IF f = "job" THEN Head(h.todo).key ELSE job
      /\ IF f = "hosts" THEN Console!Touched ELSE UNCHANGED server
      /\ imported' = IF f = "hosts" THEN {k \in imported \cup h.sel : h.cfg[k] # "none"} ELSE imported
      /\ UNCHANGED <<pages, restarts, overwritten, cut>>
  BY DEF Console!Write, Console!Current
<1>2. /\ Handled(h) /\ h # Console!Idle /\ (t \in Pages => Paged(h)) /\ (t \in Workers => Background(h))
      /\ h.todo # <<>> /\ Console!Finished(t) = g
  BY <1>1, ThreadFacts DEF Handled
<1>3. page' = [page EXCEPT ![t] = g]
  BY <1>2 DEF Console!Write
<1>4. hosts \in Configs /\ env \in SUBSET Keys /\ imported \in SUBSET Keys
  BY DEF ConsoleInv, PageTypeInv, PageFilesOK
<1>5. /\ h.cfg \in Configs /\ h.secrets \subseteq Keys /\ h.rows \in Seq(Addrs) /\ Len(h.rows) <= MaxRows
      /\ h.sel \subseteq Keys /\ (f = "job" => Head(h.todo).key \in Jobs)
  <2>1. h \in PageHandlers /\ h.at # "hosts" /\ Len(h.rows) <= MaxRows /\ h.sel \subseteq Keys
    BY <1>1, <1>2 DEF Handled
  <2>2. Head(h.todo) \in Effects
    BY <1>2, Split
  <2> HIDE DEF h
  <2> QED BY <2>1, <2>2, HandlerFields, EffectFacts
<1>6. Handled(g) /\ (Paged(h) => Paged(g)) /\ (Background(h) => Background(g))
  BY <1>2, FinFacts
<1>7. /\ LoginOK(h, hosts, env, imported) => LoginOK(g, hosts', env', imported')
      /\ OrphanOK(h, hosts, env) => OrphanOK(g, hosts', env')
  <2>1. CASE f = "env"
    <3>1. hosts' = hosts /\ env' = h.secrets /\ imported' = imported
      BY <1>1, <2>1
    <3> HIDE DEF h
    <3> QED BY <1>1, <1>2, <1>4, <2>1, <3>1, WritesEnv
  <2>2. CASE f = "hosts"
    <3>1. /\ hosts' = h.cfg /\ env' = env
          /\ imported' = {k \in imported \cup h.sel : h.cfg[k] # "none"}
      BY <1>1, <2>2
    <3>2. h.at = "open" /\ Head(h.todo).file = "hosts"
      BY <1>1, <2>2
    <3> DEFINE I2 == imported'
    <3>3. I2 \in SUBSET (imported \cup h.sel) /\ \A k \in I2 : h.cfg[k] # "none"
      BY <3>1
    <3> HIDE DEF h, I2
    <3>4. /\ LoginOK(h, hosts, env, imported) => LoginOK(Fin(h), h.cfg, env, I2)
          /\ OrphanOK(h, hosts, env) => OrphanOK(Fin(h), h.cfg, env)
      BY <1>2, <1>4, <3>2, <3>3, WritesHosts
    <3> QED BY <3>1, <3>4 DEF I2
  <2>3. CASE f \notin {"env", "hosts"}
    <3>1. hosts' = hosts /\ env' = env /\ imported' = imported
      BY <1>1, <2>3
    <3> HIDE DEF h
    <3> QED BY <1>1, <1>2, <1>4, <2>3, <3>1, FinishesPlain
  <2> QED BY <2>1, <2>2, <2>3
<1> HIDE DEF g
<1>8. ThreadsOK(page')
  BY <1>2, <1>3, <1>6, ThreadSteps DEF ConsoleInv, PageTypeInv
<1>9. PageFilesOK' /\ imported' \subseteq Keys
  BY <1>1, <1>5 DEF ConsoleInv, PageTypeInv, PageFilesOK
<1>10. server' \in Servers
  BY <1>1 DEF ConsoleInv, PageTypeInv, Console!Touched, Servers
<1>11. PageTypeInv'
  BY <1>1, <1>8, <1>9, <1>10, StepTypes
<1>12. CASE t \in Pages
  <2>1. TurnInv'
    BY <1>1, <1>2, <1>3, <1>7, <1>12, RequestMoves
  <2> QED BY <1>11, <2>1 DEF ConsoleInv, TurnInv
<1>13. CASE t \in Workers
  <2>1. f \in {"staging", "job"}
    BY <1>2, <1>13, ThreadFacts
  <2>2. UNCHANGED <<hosts, env, imported>>
    BY <1>1, <2>1
  <2>3. TurnInv'
    BY <1>1, <1>3, <1>13, <2>2, WorkerMoves
  <2> QED BY <1>11, <2>3 DEF ConsoleInv, TurnInv
<1> QED BY <1>12, <1>13 DEF Console!Threads

LEMMA WorkerStarts ==
  ASSUME Console!ConstantsOK, ConsoleInv, NEW t \in Console!Threads, NEW w \in Workers, Console!StartWorker(t, w)
  PROVE  ConsoleInv'
<1> DEFINE h == page[t]
           todo == <<Console!WriteJob("running")>>
           none == <<>>
           g == Console!Handler("discover", "next", Console!NoHosts, none, {}, todo)
           mid == [page EXCEPT ![t] = Console!Idle]
<1>1. /\ h.todo # <<>> /\ Head(h.todo) = Console!StartThread /\ page[w] = Console!Idle
      /\ page' = [page EXCEPT ![t] = Console!Idle, ![w] = g]
      /\ UNCHANGED <<Console!files, server, imported, pages, restarts, overwritten, cut>>
  BY DEF Console!StartWorker
<1>2. t \in Pages /\ h # Console!Idle /\ Paged(h) /\ Handled(h) /\ t # w /\ ThreadsOK(page)
  <2>1. Head(h.todo).file = "thread"
    BY <1>1, EffectFields
  <2> QED BY <1>1, <2>1, ThreadFacts DEF ConsoleInv, PageTypeInv
<1>3. page' = [mid EXCEPT ![w] = g]
  BY <1>1, <1>2 DEF ThreadsOK, Console!Threads
<1>4. /\ todo \in Seq(Effects) /\ todo # <<>> /\ Ordered(todo)
      /\ \A e : In(e, todo) <=> e = Console!WriteJob("running")
  <2>1. "running" \in Jobs
    BY DEF Jobs
  <2>2. Console!WriteJob("running") \in Effects /\ Console!WriteJob("running").file = "job"
    BY <2>1, EffectFields
  <2> QED BY <2>2, EffectFields, ShortTodo
<1>5. Background(g)
  <2>1. none \in Seq(Addrs) /\ Len(none) = 0 /\ MaxRows \in Nat /\ Console!NoHosts \in Configs
    BY EmptyTodo, IdleFacts DEF Console!ConstantsOK
  <2> HIDE DEF none, todo
  <2>2. /\ g \in PageHandlers /\ g.at = "next" /\ g.rows = none /\ g.sel = {} /\ g.todo = todo
    BY <1>4, <2>1 DEF Console!Handler, PageHandlers, PageOps
  <2> HIDE DEF g
  <2>3. ~ In(Console!StartThread, todo)
    BY <1>4, EffectFields
  <2>4. Handled(g)
    BY <1>4, <2>1, <2>2, <2>3 DEF Handled
  <2> QED BY <1>4, <2>2, <2>4, EffectFields DEF Background
<1> HIDE DEF g
<1>6. t \in Console!Threads /\ w \in Console!Threads /\ w \notin Pages /\ ThreadsOK(mid)
  <2>1. t \in Console!Threads /\ w \in Console!Threads /\ w \notin Pages /\ t \notin Workers
    BY <1>2 DEF Console!Threads, Console!ConstantsOK
  <2> QED BY <1>2, <2>1, IdleFacts, ThreadSteps
<1>7. ThreadsOK(page')
  <2> HIDE DEF mid
  <2> QED BY <1>3, <1>5, <1>6, ThreadSteps
<1>8. /\ \A u \in Pages : page'[u] = mid[u] /\ (PageAlone(page', u) <=> PageAlone(mid, u))
  <2> HIDE DEF mid
  <2> QED BY <1>3, <1>6, WorkerSteps
<1>9. ~ overwritten => PageAlone(page, t) /\ PageAlone(mid, t) /\ \A u \in Pages : PageAlone(mid, u) => mid[u] = Console!Idle
  BY <1>2, RequestSteps DEF ConsoleInv, TurnsInv
<1> HIDE DEF mid
<1>10. PageTypeInv'
  <2>1. PageFilesOK' /\ server' \in Servers /\ imported' \subseteq Keys
    BY <1>1 DEF ConsoleInv, PageTypeInv, PageFilesOK, Console!files
  <2> QED BY <1>1, <1>7, <2>1, StepTypes
<1>11. TurnsInv'
  BY <1>1, <1>2, <1>8, <1>9 DEF TurnsInv
<1>12. /\ LoginOK(h, hosts, env, imported) => LoginOK(Console!Idle, hosts, env, imported)
       /\ OrphanOK(h, hosts, env) => OrphanOK(Console!Idle, hosts, env)
  <2>1. h.at # "open"
    BY <1>1, <1>2, EffectFields DEF Handled
  <2>2. env \in SUBSET Keys
    BY DEF ConsoleInv, PageTypeInv, PageFilesOK
  <2>3. \A e \in Effects : In(e, h.todo) => e.file \notin {"env", "hosts"}
    <3>1. In(Console!StartThread, h.todo)
      BY <1>1, <1>2, Split
    <3> QED BY <1>2, <3>1, EffectFields DEF Handled
  <2> HIDE DEF h
  <2> QED BY <2>1, <2>2, <2>3, GivesUp
<1>13. PageLoginInv'
  <2> SUFFICES ASSUME ~ overwritten', ~ cut', NEW u \in Pages, PageAlone(page', u)
               PROVE  LoginOK(page'[u], hosts', env', imported')
    BY DEF PageLoginInv, PageAlone, LoginOK, EnvOf, Opened, ReadOK
  <2>1. LoginOK(h, hosts, env, imported) /\ page'[u] = Console!Idle
    BY <1>1, <1>2, <1>8, <1>9 DEF ConsoleInv, PageLoginInv
  <2> QED BY <1>1, <1>12, <2>1 DEF Console!files
<1>14. OrphanInv'
  <2> SUFFICES ASSUME ~ overwritten', restarts' = 0, NEW u \in Pages, PageAlone(page', u)
               PROVE  OrphanOK(page'[u], hosts', env')
    BY DEF OrphanInv, PageAlone, OrphanOK, EnvOf, HostsOf, Opened, ReadOK
  <2>1. OrphanOK(h, hosts, env) /\ page'[u] = Console!Idle
    BY <1>1, <1>2, <1>8, <1>9 DEF ConsoleInv, OrphanInv
  <2> QED BY <1>1, <1>12, <2>1 DEF Console!files
<1> QED BY <1>10, <1>11, <1>13, <1>14 DEF ConsoleInv

LEMMA DiscoveredStep ==
  ASSUME Console!ConstantsOK, ConsoleInv, NEW w \in Console!Threads, NEW found \in Lists \cup {<<>>}, NEW merge \in BOOLEAN,
         Console!Discovered(w, found, merge)
  PROVE  ConsoleInv'
<1> DEFINE rows == IF merge THEN Console!Merged(staging \o found) ELSE found
           todo == IF found = <<>> THEN <<Console!WriteJob("error")>> ELSE <<Console!WriteStaging, Console!WriteJob("done")>>
           op == "found"
           g == Console!Writing(op, Console!NoHosts, rows, todo)
<1>1. /\ page[w].at = "run" /\ Len(rows) <= MaxRows /\ page' = [page EXCEPT ![w] = g]
      /\ UNCHANGED <<Console!files, server, imported, pages, restarts, overwritten, cut>>
  BY DEF Console!Discovered
<1>2. w \in Workers /\ w \notin Pages /\ page[w] # Console!Idle
  BY <1>1, ThreadFacts DEF Paged
<1>3. rows \in Seq(Addrs)
  <2>1. staging \in Seq(Addrs) /\ found \in Seq(Addrs)
    BY EmptyTodo DEF ConsoleInv, PageTypeInv, PageFilesOK, Console!ConstantsOK
  <2>2. \A a, b \in Seq(Addrs) : a \o b \in Seq(Addrs)
    OBVIOUS
  <2> QED BY <2>1, <2>2, MergedType
<1> HIDE DEF rows
<1>4. /\ todo \in Seq(Effects) /\ todo # <<>> /\ Ordered(todo)
      /\ \A e : In(e, todo) => e = Console!WriteStaging \/ e = Console!WriteJob("error") \/ e = Console!WriteJob("done")
  <2>1. "error" \in Jobs /\ "done" \in Jobs
    BY DEF Jobs
  <2>2. /\ Console!WriteJob("error") \in Effects /\ Console!WriteJob("error").file = "job"
        /\ Console!WriteJob("done") \in Effects /\ Console!WriteJob("done").file = "job"
        /\ Console!WriteStaging \in Effects /\ Console!WriteStaging.file = "staging"
    BY <2>1, EffectFields
  <2>3. CASE found = <<>>
    <3>1. todo = <<Console!WriteJob("error")>>
      BY <2>3
    <3> HIDE DEF todo
    <3>2. /\ <<Console!WriteJob("error")>> \in Seq(Effects) /\ <<Console!WriteJob("error")>> # <<>> /\ Ordered(<<Console!WriteJob("error")>>)
          /\ \A e : In(e, <<Console!WriteJob("error")>>) <=> e = Console!WriteJob("error")
      BY <2>2, ShortTodo
    <3> QED BY <3>1, <3>2
  <2>4. CASE found # <<>>
    <3>1. todo = <<Console!WriteStaging, Console!WriteJob("done")>>
      BY <2>4
    <3> HIDE DEF todo
    <3>2. /\ <<Console!WriteStaging, Console!WriteJob("done")>> \in Seq(Effects) /\ <<Console!WriteStaging, Console!WriteJob("done")>> # <<>>
          /\ Ordered(<<Console!WriteStaging, Console!WriteJob("done")>>)
          /\ \A e : In(e, <<Console!WriteStaging, Console!WriteJob("done")>>) <=> e = Console!WriteStaging \/ e = Console!WriteJob("done")
      BY <2>2, ShortTodo
    <3> QED BY <3>1, <3>2
  <2> QED BY <2>3, <2>4
<1> HIDE DEF todo
<1>5. \A e : In(e, todo) => e.file \in {"staging", "job"} /\ e # Console!StartThread
  BY <1>4, EffectFields
<1>6. Paged(g) /\ g.todo = todo /\ g.at = "next"
  <2>1. op \in PageOps /\ op # "discover" /\ Console!NoHosts \in Configs
    BY IdleFacts DEF PageOps
  <2>2. todo \in Seq(Effects) /\ todo # <<>> /\ Ordered(todo) /\ ~ In(Console!StartThread, todo) /\ Len(rows) <= MaxRows
    BY <1>1, <1>4, <1>5
  <2> HIDE DEF op
  <2> QED BY <1>3, <2>1, <2>2, NewWriting
<1> HIDE DEF g
<1>7. Background(g)
  BY <1>5, <1>6 DEF Background, Paged
<1>8. server' \in Servers
  BY <1>1 DEF ConsoleInv, PageTypeInv
<1> QED BY <1>1, <1>2, <1>7, <1>8, QuietStep

LEMMA CrashStep ==
  ASSUME Console!ConstantsOK, ConsoleInv, Console!Crash
  PROVE  ConsoleInv'
<1>1. /\ restarts < MaxRestarts /\ restarts' = restarts + 1 /\ page' = [t \in Console!Threads |-> Console!Idle]
      /\ cut' = (cut \/ \E t \in Console!Threads : page[t].at = "open")
      /\ UNCHANGED <<hosts, env, staging, job, server, imported, pages, overwritten>>
  BY DEF Console!Crash, Console!files
<1>2. Pages \subseteq Console!Threads /\ Workers \subseteq Console!Threads /\ \A u \in Pages : page'[u] = Console!Idle
  BY <1>1 DEF Console!Threads
<1>3. ThreadsOK(page')
  BY <1>1, <1>2, IdleFacts DEF ThreadsOK
<1>4. restarts' \in 0 .. MaxRestarts /\ restarts' # 0 /\ cut' \in BOOLEAN
  BY <1>1 DEF ConsoleInv, PageTypeInv, Console!ConstantsOK
<1>5. PageTypeInv'
  BY <1>1, <1>3, <1>4 DEF ConsoleInv, PageTypeInv, PageFilesOK
<1>6. TurnsInv'
  BY <1>1, <1>2 DEF ConsoleInv, TurnsInv, PageAlone
<1>7. PageLoginInv'
  <2> SUFFICES ASSUME ~ overwritten', ~ cut', NEW u \in Pages
               PROVE  LoginOK(page'[u], hosts', env', imported')
    BY DEF PageLoginInv, PageAlone, LoginOK, EnvOf, Opened, ReadOK
  <2>1. PICK t \in Pages : PageAlone(page, t)
    BY <1>1 DEF ConsoleInv, TurnsInv
  <2>2. LoginOK(page[t], hosts, env, imported) /\ page[t].at # "open"
    BY <1>1, <1>2, <2>1 DEF ConsoleInv, PageLoginInv
  <2>3. (\A k \in imported : hosts[k] # "none") /\ imported \subseteq env
    BY <2>2 DEF LoginOK, EnvOf, Opened
  <2>4. LoginOK(Console!Idle, hosts, env, imported)
    BY <2>3, Login
  <2> QED BY <1>1, <1>2, <2>4
<1>8. OrphanInv'
  BY <1>4 DEF OrphanInv
<1> QED BY <1>5, <1>6, <1>7, <1>8 DEF ConsoleInv

LEMMA StillStep ==
  ASSUME Console!ConstantsOK, ConsoleInv, server' \in Servers,
         UNCHANGED <<Console!files, page, imported, pages, restarts, overwritten, cut>>
  PROVE  ConsoleInv'
<1>1. /\ hosts' = hosts /\ env' = env /\ staging' = staging /\ job' = job /\ page' = page
      /\ imported' = imported /\ UNCHANGED <<pages, restarts, overwritten, cut>>
  BY DEF Console!files
<1>2. PageTypeInv'
  BY <1>1 DEF ConsoleInv, PageTypeInv, PageFilesOK
<1>3. TurnsInv'
  BY <1>1 DEF ConsoleInv, TurnsInv
<1>4. PageLoginInv'
  BY <1>1 DEF ConsoleInv, PageLoginInv
<1>5. OrphanInv'
  BY <1>1 DEF ConsoleInv, OrphanInv
<1> QED BY <1>2, <1>3, <1>4, <1>5 DEF ConsoleInv

LEMMA ConsoleInit ==
  ASSUME Console!ConstantsOK, Console!Init
  PROVE  ConsoleInv
<1>1. hosts \in Configs
  <2>1. Console!NoHosts \in Configs
    BY IdleFacts
  <2>2. \A a \in Addrs : [Console!NoHosts EXCEPT ![FirstKey[a]] = a] \in Configs
    BY <2>1 DEF Configs, Console!ConstantsOK
  <2> QED BY <2>1, <2>2 DEF Console!Init
<1>2. PageFilesOK
  <2>1. env \subseteq Keys /\ job \in Jobs
    BY DEF Console!Init, Jobs
  <2>2. staging \in Seq(Addrs) /\ Len(staging) <= MaxRows
    <3>1. staging \in Lists \/ staging = <<>>
      BY DEF Console!Init
    <3>2. MaxRows \in Nat /\ \A rows \in Lists : rows \in Seq(Addrs) /\ Len(rows) <= MaxRows
      BY DEF Console!ConstantsOK
    <3>3. <<>> \in Seq(Addrs) /\ Len(<<>>) = 0
      BY EmptyTodo
    <3>4. CASE staging \in Lists
      BY <3>2, <3>4
    <3>5. CASE staging = <<>>
      BY <3>2, <3>3, <3>5
    <3> QED BY <3>1, <3>4, <3>5
  <2> QED BY <1>1, <2>1, <2>2 DEF PageFilesOK
<1>3. ThreadsOK(page) /\ \A t \in Pages : page[t] = Console!Idle
  BY IdleFacts DEF Console!Init, ThreadsOK, Console!Threads
<1>4. server \in Servers
  BY <1>1 DEF Console!Init, Servers
<1>5. PageTypeInv
  <2>1. /\ imported = {} /\ pages = 0 /\ restarts = 0 /\ overwritten = FALSE /\ cut = FALSE
        /\ MaxPages \in Nat /\ MaxRestarts \in Nat
    BY DEF Console!Init, Console!ConstantsOK
  <2>2. pages \in 0 .. MaxPages /\ restarts \in 0 .. MaxRestarts
    BY <2>1
  <2>3. overwritten \in BOOLEAN /\ cut \in BOOLEAN /\ imported \subseteq Keys
    BY <2>1
  <2> QED BY <1>2, <1>3, <1>4, <2>2, <2>3, Zenon DEF PageTypeInv
<1>6. TurnsInv
  BY <1>3 DEF TurnsInv, PageAlone, Console!ConstantsOK
<1>7. PageLoginInv
  BY <1>3, Login DEF PageLoginInv, Console!Init
<1>8. OrphanInv
  <2>1. env = {}
    BY DEF Console!Init
  <2>2. OrphanOK(Console!Idle, hosts, env)
    BY <2>1, Login
  <2> QED BY <1>3, <2>2 DEF OrphanInv
<1> QED BY <1>5, <1>6, <1>7, <1>8 DEF ConsoleInv

LEMMA ConsoleNext ==
  ASSUME Console!ConstantsOK, ConsoleInv, [Console!Next]_(Console!vars)
  PROVE  ConsoleInv'
<1>1. CASE UNCHANGED Console!vars
  <2>1. server' = server /\ UNCHANGED <<Console!files, page, imported, pages, restarts, overwritten, cut>>
    BY <1>1 DEF Console!vars
  <2>2. server' \in Servers
    BY <2>1 DEF ConsoleInv, PageTypeInv
  <2> QED BY <2>1, <2>2, StillStep
<1>2. ASSUME NEW t \in Pages, Console!Request(t) PROVE ConsoleInv'
  BY <1>2, RequestInv
<1>3. ASSUME NEW t \in Console!Threads, Console!Step(t) PROVE ConsoleInv'
  BY <1>3, BulkStep, ImportStep, ReadStep, OpenStep, WriteStep, TouchStep, WorkerStarts,
    DiscoveredStep DEF Console!Step
<1>4. CASE Console!Crash
  BY <1>4, CrashStep
<1>5. CASE Console!Serve
  <2>1. server' \in Servers
    <3>1. server \in Servers /\ hosts \in Configs
      BY DEF ConsoleInv, PageTypeInv, PageFilesOK
    <3>2. CASE Console!Stat
      BY <3>1, <3>2 DEF Console!Stat, Servers
    <3>3. CASE Console!Load /\ hosts = Console!NoHosts
      BY <3>1, <3>3 DEF Console!Load, Servers
    <3>4. CASE Console!Load /\ hosts # Console!NoHosts
      BY <3>1, <3>4 DEF Console!Load, Servers
    <3> QED BY <1>5, <3>2, <3>3, <3>4 DEF Console!Serve
  <2>2. UNCHANGED <<Console!files, page, imported, pages, restarts, overwritten, cut>>
    BY <1>5 DEF Console!Serve, Console!Stat, Console!Load
  <2> QED BY <2>1, <2>2, StillStep
<1> QED BY <1>1, <1>2, <1>3, <1>4, <1>5 DEF Console!Next

LEMMA ConsoleTypes ==
  ASSUME Console!ConstantsOK, ConsoleInv
  PROVE  Console!TypeOK
<1>1. \A t \in Console!Threads : page[t] \in PageHandlers
  BY ThreadFacts
<1>2. /\ PageFilesOK /\ server \in Servers /\ imported \subseteq Keys
      /\ pages \in 0 .. MaxPages /\ restarts \in 0 .. MaxRestarts
  BY DEF ConsoleInv, PageTypeInv
<1>3. \A t \in Console!Threads :
        /\ page[t].at \in {"idle", "env", "hosts", "run", "next", "read", "open"}
        /\ page[t].cfg \in [Keys -> Addrs \cup {"none"}]
        /\ page[t].rows \in Seq(Addrs) /\ page[t].secrets \subseteq Keys
  BY <1>1, HandlerFields DEF Configs
<1> QED BY <1>2, <1>3 DEF Console!TypeOK, PageFilesOK, Servers, Configs, Jobs

LEMMA ConsoleLogin ==
  ASSUME Console!ConstantsOK, ConsoleInv
  PROVE  Console!ImportedHasLogin
<1> SUFFICES ASSUME ~ overwritten, ~ cut, Console!Resting PROVE imported \subseteq env
  BY DEF Console!ImportedHasLogin
<1>1. PICK t \in Pages : PageAlone(page, t)
  BY DEF ConsoleInv, TurnsInv
<1>2. LoginOK(page[t], hosts, env, imported) /\ page[t].at # "open"
  BY <1>1 DEF ConsoleInv, PageLoginInv, Console!Resting, Console!Threads
<1> QED BY <1>2 DEF LoginOK, EnvOf, Opened

LEMMA ConsoleOrphans ==
  ASSUME Console!ConstantsOK, ConsoleInv
  PROVE  Console!NoOrphanSecrets
<1> SUFFICES ASSUME ~ overwritten, restarts = 0, \A t \in Pages : page[t] = Console!Idle
             PROVE  \A k \in env : hosts[k] # "none"
  BY DEF Console!NoOrphanSecrets
<1>1. PICK t \in Pages : PageAlone(page, t)
  BY DEF ConsoleInv, TurnsInv
<1>2. OrphanOK(Console!Idle, hosts, env)
  BY <1>1 DEF ConsoleInv, OrphanInv
<1> QED BY <1>2, Login

LEMMA ConsoleFresh ==
  ASSUME Console!ConstantsOK, ConsoleInv, Console!ServerFresh, [Console!Next]_(Console!vars)
  PROVE  Console!ServerFresh'
<1>1. server \in Servers
  BY DEF ConsoleInv, PageTypeInv
<1>2. ASSUME UNCHANGED <<hosts, server>> PROVE Console!ServerFresh'
  BY <1>2 DEF Console!ServerFresh
<1>3. ASSUME Console!Touched PROVE Console!ServerFresh'
  BY <1>1, <1>3 DEF Console!ServerFresh, Console!Touched, Servers
<1>4. CASE UNCHANGED Console!vars
  BY <1>2, <1>4 DEF Console!vars, Console!files
<1>5. ASSUME NEW t \in Pages, Console!Request(t) PROVE Console!ServerFresh'
  <2>1. UNCHANGED <<hosts, server>>
    BY <1>5 DEF Console!Request, Console!SaveHost, Console!Delete, Console!Bulk, Console!Reload,
      Console!Clear, Console!DiscoveryRun, Console!Render, Console!Upload, Console!StagingSave,
      Console!StagingAdd, Console!StagingRemove, Console!Import, Console!Stage, Console!Begin, Console!files
  <2> QED BY <1>2, <2>1
<1>6. ASSUME NEW t \in Console!Threads, Console!Step(t) PROVE Console!ServerFresh'
  <2>1. CASE Console!BulkTargets(t) \/ Console!ImportHosts(t) \/ Console!ReadEnv(t)
    BY <1>2, <2>1 DEF Console!BulkTargets, Console!ImportHosts, Console!ReadEnv, Console!files
  <2>2. CASE Console!Open(t)
    BY <1>2, <1>3, <2>2 DEF Console!Open
  <2>3. CASE Console!Write(t)
    BY <1>2, <1>3, <2>3 DEF Console!Write
  <2>4. CASE Console!TouchHosts(t)
    BY <1>3, <2>4 DEF Console!TouchHosts
  <2>5. ASSUME NEW w \in Workers, Console!StartWorker(t, w) PROVE Console!ServerFresh'
    BY <1>2, <2>5 DEF Console!StartWorker, Console!files
  <2>6. ASSUME NEW found \in Lists \cup {<<>>}, NEW merge \in BOOLEAN, Console!Discovered(t, found, merge)
        PROVE  Console!ServerFresh'
    BY <1>2, <2>6 DEF Console!Discovered, Console!files
  <2> QED BY <1>6, <2>1, <2>2, <2>3, <2>4, <2>5, <2>6 DEF Console!Step
<1>7. CASE Console!Crash
  BY <1>2, <1>7 DEF Console!Crash, Console!files
<1>8. CASE Console!Serve
  <2>1. hosts' = hosts
    BY <1>8 DEF Console!Serve, Console!Stat, Console!Load, Console!files
  <2>2. CASE Console!Stat
    <3>1. server'.fresh = server.fresh /\ server'.view = server.view
      BY <1>1, <2>2 DEF Console!Stat, Servers
    <3> QED BY <2>1, <3>1 DEF Console!ServerFresh
  <2>3. CASE Console!Load /\ hosts = Console!NoHosts
    <3>1. server'.fresh = server.fresh /\ server'.view = server.view
      BY <1>1, <2>3 DEF Console!Load, Servers
    <3> QED BY <2>1, <3>1 DEF Console!ServerFresh
  <2>4. CASE Console!Load /\ hosts # Console!NoHosts
    <3>1. server'.view = hosts
      BY <2>4 DEF Console!Load
    <3> QED BY <2>1, <3>1 DEF Console!ServerFresh
  <2> QED BY <1>8, <2>2, <2>3, <2>4 DEF Console!Serve
<1> QED BY <1>4, <1>5, <1>6, <1>7, <1>8 DEF Console!Next

LEMMA OnlyImports ==
  ASSUME Console!ConstantsOK, ConsoleInv, [Console!Next]_(Console!vars), NEW t \in Pages, page[t].at = "hosts", page'[t].at = "next"
  PROVE  Console!ImportHosts(t)
<1>1. t \in Console!Threads /\ page[t].todo = <<>> /\ page[t] # Console!Idle /\ DOMAIN page = Console!Threads
  BY ThreadFacts DEF Console!Threads, Handled, ConsoleInv, PageTypeInv, ThreadsOK
<1>2. ASSUME NEW u, NEW g, page' = [page EXCEPT ![u] = g], u # t PROVE FALSE
  BY <1>1, <1>2
<1>3. CASE UNCHANGED Console!vars
  BY <1>3 DEF Console!vars
<1>4. ASSUME NEW u \in Pages, Console!Request(u) PROVE FALSE
  <2>1. /\ page[u] = Console!Idle
        /\ \E g : page' = [page EXCEPT ![u] = g]
    BY <1>4 DEF Console!Request, Console!SaveHost, Console!Delete, Console!Bulk, Console!Reload,
      Console!Clear, Console!DiscoveryRun, Console!Render, Console!Upload, Console!StagingSave,
      Console!StagingAdd, Console!StagingRemove, Console!Import, Console!Stage, Console!Begin
  <2> QED BY <1>1, <1>2, <2>1
<1>5. ASSUME NEW u \in Console!Threads, Console!Step(u) PROVE Console!ImportHosts(t)
  <2>1. CASE Console!BulkTargets(u)
    <3>1. /\ page[u].at = "env"
          /\ \E g : page' = [page EXCEPT ![u] = g]
      BY <2>1 DEF Console!BulkTargets
    <3> QED BY <1>2, <3>1
  <2>2. CASE Console!ImportHosts(u)
    <3>1. \E g : page' = [page EXCEPT ![u] = g]
      BY <2>2 DEF Console!ImportHosts, Console!Importing
    <3> QED BY <1>2, <2>2, <3>1
  <2>3. CASE Console!ReadEnv(u)
    <3>1. /\ page[u].at = "next"
          /\ \E g : page' = [page EXCEPT ![u] = g]
      BY <2>3 DEF Console!ReadEnv
    <3> QED BY <1>2, <3>1
  <2>4. CASE Console!Open(u)
    <3>1. /\ page[u].at \in {"read", "next"}
          /\ page' = [page EXCEPT ![u].at = "open"]
      BY <2>4 DEF Console!Open
    <3> QED BY <1>1, <3>1
  <2>5. CASE Console!Write(u)
    <3>1. /\ page[u].at = "open"
          /\ \E g : page' = [page EXCEPT ![u] = g]
      BY <2>5 DEF Console!Write
    <3> QED BY <1>2, <3>1
  <2>6. CASE Console!TouchHosts(u)
    <3>1. /\ page[u].at = "next"
          /\ \E g : page' = [page EXCEPT ![u] = g]
      BY <2>6 DEF Console!TouchHosts
    <3> QED BY <1>2, <3>1
  <2>7. ASSUME NEW w \in Workers, Console!StartWorker(u, w) PROVE FALSE
    <3>1. /\ page[u].todo # <<>> /\ page[w] = Console!Idle
          /\ \E g : page' = [page EXCEPT ![u] = Console!Idle, ![w] = g]
      BY <2>7 DEF Console!StartWorker
    <3>2. u # t /\ w # t
      BY <1>1, <3>1
    <3>3. page'[t] = page[t]
      BY <1>1, <3>1, <3>2
    <3> QED BY <3>3
  <2>8. ASSUME NEW found \in Lists \cup {<<>>}, NEW merge \in BOOLEAN, Console!Discovered(u, found, merge) PROVE FALSE
    <3>1. /\ page[u].at = "run"
          /\ \E g : page' = [page EXCEPT ![u] = g]
      BY <2>8 DEF Console!Discovered
    <3> QED BY <1>2, <3>1
  <2> QED BY <1>5, <2>1, <2>2, <2>3, <2>4, <2>5, <2>6, <2>7, <2>8 DEF Console!Step
<1>6. CASE Console!Crash
  <2>1. page'[t] = Console!Idle
    BY <1>1, <1>6 DEF Console!Crash
  <2> QED BY <2>1, IdleFacts
<1>7. CASE Console!Serve
  BY <1>7 DEF Console!Serve, Console!Stat, Console!Load
<1> QED BY <1>3, <1>4, <1>5, <1>6, <1>7 DEF Console!Next

LEMMA ConsoleMerges ==
  ASSUME Console!ConstantsOK, ConsoleInv, [Console!Next]_(Console!vars)
  PROVE  \A t \in Pages : page[t].at = "hosts" /\ page'[t].at = "next" =>
           /\ \A k \in Keys : hosts[k] # "none" => page'[t].cfg[k] = hosts[k]
           /\ \A a \in Addrs : Console!Cardinality(Console!KeysOf(hosts, a)) <= 1
                                 => Console!Cardinality(Console!KeysOf(page'[t].cfg, a)) <= 1
<1> SUFFICES ASSUME NEW t \in Pages, page[t].at = "hosts", page'[t].at = "next"
             PROVE  /\ \A k \in Keys : hosts[k] # "none" => page'[t].cfg[k] = hosts[k]
                    /\ \A a \in Addrs : Console!Cardinality(Console!KeysOf(hosts, a)) <= 1
                                          => Console!Cardinality(Console!KeysOf(page'[t].cfg, a)) <= 1
  OBVIOUS
<1> DEFINE m == Console!MergeSelected(hosts, page[t].rows, page[t].sel)
<1>1. Console!ImportHosts(t)
  BY OnlyImports
<1>2. t \in Console!Threads /\ DOMAIN page = Console!Threads /\ page[t].rows \in Seq(Addrs) /\ hosts \in Configs
  BY ThreadFacts, HandlerFields DEF Console!Threads, ConsoleInv, PageTypeInv, ThreadsOK, PageFilesOK
<1>3. m \in Merges(hosts)
  BY <1>2, MergeSelectedMerges
<1>4. page'[t].cfg = m.cfg
  BY <1>1, <1>2 DEF Console!ImportHosts, Console!Importing, Console!Handler
<1> HIDE DEF m
<1>5. /\ \A k \in Keys : hosts[k] # "none" => m.cfg[k] = hosts[k]
      /\ \A a \in Addrs : AtMostOne(Console!KeysOf(hosts, a)) => AtMostOne(Console!KeysOf(m.cfg, a))
  BY <1>3 DEF Merges
<1>6. \A a \in Addrs : Console!KeysOf(hosts, a) \subseteq Keys /\ Console!KeysOf(m.cfg, a) \subseteq Keys
  BY DEF Console!KeysOf
<1>7. \A a \in Addrs : Console!Cardinality(Console!KeysOf(hosts, a)) <= 1
                        => Console!Cardinality(Console!KeysOf(m.cfg, a)) <= 1
  BY <1>5, <1>6, FewKeys, SameSizes
<1> QED BY <1>4, <1>5, <1>7

LEMMA ConsoleAlways == Console!Spec => [](ConsoleInv /\ ServerFresh)
<1>1. Console!Init => ConsoleInv /\ ServerFresh
  <2>1. Console!Init => ConsoleInv
    BY ConsoleInit, ConsoleConstants
  <2>2. Console!Init => ServerFresh
    BY DEF Console!Init, Console!ServerFresh, ServerFresh
  <2> QED BY <2>1, <2>2
<1>2. ConsoleInv /\ ServerFresh /\ [Console!Next]_(Console!vars) => (ConsoleInv /\ ServerFresh)'
  BY ConsoleNext, ConsoleFresh, ConsoleConstants DEF ServerFresh
<1> QED BY <1>1, <1>2, PTL DEF Console!Spec

\* Whatever pages are asked for, however their reads, openings and writes of
\* the shared files interleave and wherever the GUI is killed: the files, the
\* handlers and the hosts that the server holds keep their types (webgui.py,
\* _current_hosts).
THEOREM ConsoleTyped == Console!Spec => []Console!TypeOK
<1>1. ConsoleInv => Console!TypeOK
  BY ConsoleTypes, ConsoleConstants
<1> QED BY <1>1, ConsoleAlways, PTL

\* As long as requests do not overlap and none is cut short in the middle of a
\* write, every host that a discovery import added can be logged in to: its
\* secret is in .env before its entry is in hosts.yaml, whatever a restart
\* leaves undone (import_hosts).
THEOREM LoginsKept == Console!Spec => []ImportedHasLogin
<1>1. ConsoleInv => ImportedHasLogin
  BY ConsoleLogin, ConsoleConstants DEF ImportedHasLogin
<1> QED BY <1>1, ConsoleAlways, PTL

\* As long as requests come one after the other and none is cut short, .env
\* holds no secret of a host that hosts.yaml no longer has (delete_host).
THEOREM OrphansGone == Console!Spec => []NoOrphanSecrets
<1>1. ConsoleInv => NoOrphanSecrets
  BY ConsoleOrphans, ConsoleConstants DEF NoOrphanSecrets
<1> QED BY <1>1, ConsoleAlways, PTL

\* Hosts that the MCP server takes for current are those of hosts.yaml, although
\* a page may rewrite the file between the look at its time and the read
\* (_current_hosts).
THEOREM ServedFresh == Console!Spec => []ServerFresh
BY ConsoleAlways, PTL

\* An import, of however many devices with whatever hostnames, changes no entry
\* there is and adds no second one for an address (merge_selected_into_hosts).
THEOREM ImportsMerge == Console!Spec => ImportMerges
<1>1. ConsoleInv /\ [Console!Next]_(Console!vars) =>
        [\A t \in Pages : page[t].at = "hosts" /\ page'[t].at = "next" =>
           /\ \A k \in Keys : hosts[k] # "none" => page'[t].cfg[k] = hosts[k]
           /\ \A a \in Addrs : Console!Cardinality(Console!KeysOf(hosts, a)) <= 1
                 => Console!Cardinality(Console!KeysOf(page'[t].cfg, a)) <= 1]_(Console!vars)
  BY ConsoleMerges, ConsoleConstants
<1> QED BY <1>1, ConsoleAlways, PTL DEF ImportMerges, Console!ImportMerges, Console!Spec

\* The types of all that the portal's programs share: the policy, the host
\* pages, the decisions from Webex and the tools.
THEOREM TypesCorrect ==
  ASSUME ConstantsOK
  PROVE  Spec /\ Console!Spec /\ Webex!Spec /\ Tools!Spec => []TypesOK
<1>1. TypeOK /\ Console!TypeOK /\ Webex!TypeOK /\ Tools!TypeOK => TypesOK
  BY DEF TypesOK
<1> QED BY <1>1, TypeCorrect, ConsoleTyped, WebexTyped, ToolsTyped, PTL
=============================================================================
