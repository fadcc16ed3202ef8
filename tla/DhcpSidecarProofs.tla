------------------------- MODULE DhcpSidecarProofs -------------------------
(***************************************************************************)
(* Proofs about DhcpSidecar, for any number of changes, include files,     *)
(* threads, timeouts, lost calls, reboots and edits:                       *)
(*                                                                         *)
(*   TypeCorrect          every variable keeps its type;                   *)
(*   UndoStaysExact       what undoes a written include is there, however  *)
(*                        requests overlap;                                *)
(*   ManifestStaysExact   the manifest is exact, if they do not;           *)
(*   OutcomesStay         neither do applied and rolled back changes       *)
(*                        disturb each other then.                         *)
(***************************************************************************)
EXTENDS DhcpSidecar, TLAPS

\* There is a change, so that there is a request to be about it.
Settings == ConstantsOK /\ Changes # {}

-----------------------------------------------------------------------------
(* Type correctness                                                        *)

LEMMA TargetType ==
  ASSUME Settings, NEW c \in Changes
  PROVE  Target[c].name \in Names /\ Target[c].content \in Contents
  BY DEF Settings, ConstantsOK

Steps == {"idle", "test", "backup", "meta", "write", "fill", "glob", "cut", "manifest",
          "live", "reload", "find", "restore", "put", "check", "ok", "error"}

LEMMA ReqType ==
  ASSUME NEW pc \in Steps, NEW op \in {"apply", "rollback"}, NEW c \in Changes,
         NEW n \in Names, NEW x \in Contents, NEW found \in BOOLEAN,
         NEW list \in SUBSET Names, NEW todo \in SUBSET Names,
         NEW undone \in {"none", "restored", "removed"}
  PROVE  Req(pc, op, c, n, x, found, list, todo, undone) \in Request
  BY DEF Req, Request, Steps

\* Of a thread that has ended only the answer matters.
LEMMA EndedType ==
  ASSUME Settings, NEW pc \in {"idle", "ok", "error"}
  PROVE  Ended(pc) \in Request /\ Ended(pc).pc = pc
  <1>1. PICK c \in Changes : TRUE
    BY DEF Settings
  <1>2. /\ (CHOOSE d \in Changes : TRUE) \in Changes
        /\ (CHOOSE n \in Names : TRUE) \in Names
        /\ (CHOOSE x \in Contents : TRUE) \in Contents
    BY <1>1, TargetType
  <1> DEFINE d == CHOOSE d \in Changes : TRUE
             n == CHOOSE n \in Names : TRUE
             x == CHOOSE x \in Contents : TRUE
  <1>3. Ended(pc) = Req(pc, "apply", d, n, x, FALSE, {}, {}, "none")
    BY DEF Ended
  <1>4. d \in Changes /\ n \in Names /\ x \in Contents
    BY <1>2
  <1> HIDE DEF d, n, x
  <1>5. Ended(pc) \in Request
    <2>1. /\ pc \in Steps /\ "apply" \in {"apply", "rollback"} /\ FALSE \in BOOLEAN
          /\ {} \in SUBSET Names /\ "none" \in {"none", "restored", "removed"}
      BY DEF Steps
    <2>2. Req(pc, "apply", d, n, x, FALSE, {}, {}, "none") \in Request
      BY <1>4, <2>1, ReqType
    <2> QED
      BY <1>3, <2>2
  <1> QED
    BY <1>3, <1>5 DEF Req

LEMMA RequestType ==
  ASSUME Settings, NEW c \in Changes, NEW n \in Names, NEW x \in Contents
  PROVE  ApplyReq(c, n, x) \in Request /\ RollbackReq(c) \in Request
  BY TargetType, ReqType DEF ApplyReq, RollbackReq, Steps

\* One thread goes to another request, or to another step of its own.
LEMMA Becomes ==
  ASSUME TypeOK, NEW t \in Threads, NEW r \in Request, thread' = [thread EXCEPT ![t] = r]
  PROVE  /\ thread' \in [Threads -> Request]
         /\ thread'[t] = r /\ \A u \in Threads \ {t} : thread'[u] = thread[u]
  BY DEF TypeOK

LEMMA GoesTo ==
  ASSUME TypeOK, NEW t \in Threads, NEW pc \in Steps, Goto(t, pc)
  PROVE  LET r == [thread[t] EXCEPT !.pc = pc] IN
         /\ r \in Request /\ thread' = [thread EXCEPT ![t] = r]
         /\ r.pc = pc /\ r.op = thread[t].op /\ r.id = thread[t].id
         /\ r.name = thread[t].name /\ r.content = thread[t].content
         /\ r.found = thread[t].found /\ r.list = thread[t].list
         /\ r.todo = thread[t].todo /\ r.undone = thread[t].undone
  <1>1. thread[t] \in Request
    BY DEF TypeOK
  <1>2. [thread[t] EXCEPT !.pc = pc] \in Request
    BY <1>1 DEF Request, Steps
  <1>3. thread' = [thread EXCEPT ![t] = [thread[t] EXCEPT !.pc = pc]]
    BY DEF Goto
  <1> QED
    BY <1>1, <1>2, <1>3 DEF Request

LEMMA Ends ==
  ASSUME Settings, TypeOK, NEW t \in Threads, NEW answer \in {"ok", "error"}, End(t, answer)
  PROVE  LET pc == IF \E c \in Changes : call[c] = t THEN answer ELSE "idle" IN
         /\ Ended(pc) \in Request /\ Ended(pc).pc = pc
         /\ thread' = [thread EXCEPT ![t] = Ended(pc)]
  BY EndedType DEF End

LEMMA EndsType ==
  ASSUME Settings, TypeOK, NEW t \in Threads, NEW answer \in {"ok", "error"}, End(t, answer)
  PROVE  thread' \in [Threads -> Request]
  BY Ends, Becomes

LEMMA GoesType ==
  ASSUME TypeOK, NEW t \in Threads, NEW pc \in Steps, Goto(t, pc)
  PROVE  thread' \in [Threads -> Request]
  <1>1. PICK r \in Request : thread' = [thread EXCEPT ![t] = r]
    BY GoesTo, ZenonT(30)
  <1> QED
    BY <1>1, Becomes

\* Starting dhcpd leaves it with what it has or with the files the manifest names.
LEMMA LoadType ==
  ASSUME TypeOK, Load
  PROVE  service' \in [up : BOOLEAN, conf : Tree]
  <1>1. Named \in Tree
    BY DEF TypeOK, Named, Tree, File
  <1>2. service.conf \in Tree
    BY DEF TypeOK
  <1> QED
    BY <1>1, <1>2 DEF Load

LEMMA FaultType == Settings /\ TypeOK /\ Fault => faults' \in 0 .. MaxFaults
  BY DEF TypeOK, Fault, Settings, ConstantsOK

LEMMA TypeInit == Settings /\ Init => TypeOK
  <1> SUFFICES ASSUME Settings, Init PROVE TypeOK
    OBVIOUS
  <1>1. files \in Tree
    BY DEF Init, Settings, ConstantsOK
  <1>2. backup \in [Changes -> Tree]
    BY DEF Init, Tree, File
  <1>3. thread \in [Threads -> Request]
    BY EndedType DEF Init
  <1>4. (manifest = Empty \/ manifest \subseteq Names) /\ service \in [up : BOOLEAN, conf : Tree]
    BY <1>1 DEF Init, Present
  <1>5. faults \in 0 .. MaxFaults /\ reboots \in 0 .. MaxReboots /\ edits \in 0 .. MaxEdits
    BY DEF Init, Settings, ConstantsOK
  <1> QED
    BY <1>1, <1>2, <1>3, <1>4, <1>5 DEF Init, TypeOK, File

LEMMA SendType ==
  ASSUME TypeOK, NEW c \in Changes, NEW t \in Threads, NEW req \in Request,
         NEW next \in {"apply", "undo", "back"}, Send(c, t, req, next)
  PROVE  /\ thread' \in [Threads -> Request]
         /\ call' \in [Changes -> Threads \union {NoThread}]
         /\ step' \in [Changes -> {"idle", "apply", "verify", "undo", "back", "confirm"}]
  BY DEF Send, TypeOK

LEMMA SettleType ==
  ASSUME TypeOK, NEW c \in Changes, NEW result \in {"applied", "failed", "rolled_back"},
         Settle(c, result)
  PROVE  /\ status' \in [Changes -> {"approved", "applying", "applied", "failed", "rolled_back"}]
         /\ step' \in [Changes -> {"idle", "apply", "verify", "undo", "back", "confirm"}]
  BY DEF Settle, TypeOK

LEMMA ReqFields ==
  ASSUME NEW pc, NEW op, NEW c, NEW n, NEW x, NEW found, NEW list, NEW todo, NEW undone
  PROVE  LET r == Req(pc, op, c, n, x, found, list, todo, undone) IN
         /\ r.pc = pc /\ r.op = op /\ r.id = c /\ r.name = n /\ r.content = x
         /\ r.found = found /\ r.list = list /\ r.todo = todo /\ r.undone = undone
  BY DEF Req

\* Cutting an include off to copy it back.
LEMMA PutBackFields ==
  ASSUME TypeOK, NEW t \in Threads, NEW n \in Names, NEW name \in Names,
         NEW rest \in SUBSET Names, PutBack(t, n, name, rest)
  PROVE  /\ files' = [files EXCEPT ![n] = Empty]
         /\ \E r \in Request :
              /\ thread' = [thread EXCEPT ![t] = r]
              /\ r.pc = "put" /\ r.op = thread[t].op /\ r.id = thread[t].id /\ r.name = name
              /\ r.content = thread[t].content /\ r.list = {n} /\ r.todo = rest
  <1>r. /\ thread[t].id \in Changes /\ thread[t].content \in Contents
        /\ thread[t].op \in {"apply", "rollback"} /\ thread[t].found \in BOOLEAN
    BY DEF TypeOK, Request
  <1> DEFINE r == Req("put", thread[t].op, thread[t].id, name, thread[t].content,
                      thread[t].found, {n}, rest, "restored")
  <1>1. files' = [files EXCEPT ![n] = Empty] /\ thread' = [thread EXCEPT ![t] = r]
    BY DEF PutBack
  <1>2. "put" \in Steps /\ {n} \in SUBSET Names
    BY DEF Steps
  <1>3. r \in Request
    BY <1>r, <1>2, ReqType
  <1>4. /\ r.pc = "put" /\ r.op = thread[t].op /\ r.id = thread[t].id /\ r.name = name
        /\ r.content = thread[t].content /\ r.list = {n} /\ r.todo = rest
    BY ReqFields
  <1> HIDE DEF r
  <1> QED
    BY <1>1, <1>3, <1>4

\* What Restore does with include n: it is cut off to be copied back, or
\* removed.
RestoreOne(t, n) ==
  /\ n \in thread[t].todo
  /\ \E r \in Request :
       /\ thread' = [thread EXCEPT ![t] = r]
       /\ \/ r.pc = "put" /\ r.list = {n} /\ files' = [files EXCEPT ![n] = Empty]
          \/ /\ meta[thread[t].id][n] # "existed" /\ files' = [files EXCEPT ![n] = Absent]
             /\ r.pc = Further(thread[t].todo \ {n})
       /\ r.op = thread[t].op /\ r.id = thread[t].id /\ r.content = thread[t].content
       /\ r.todo = thread[t].todo \ {n}
       /\ r.name \in {n, thread[t].name}

LEMMA RestoreFields ==
  ASSUME Settings, TypeOK, NEW t \in Threads, Restore(t)
  PROVE  \E n \in Names : RestoreOne(t, n)
  <1>r. /\ thread[t].id \in Changes /\ thread[t].name \in Names
        /\ thread[t].content \in Contents /\ thread[t].todo \subseteq Names
        /\ thread[t].op \in {"apply", "rollback"} /\ thread[t].found \in BOOLEAN
        /\ thread[t].undone \in {"none", "restored", "removed"}
    BY DEF TypeOK, Request
  <1> DEFINE Removed(n) ==
        Req(Further(thread[t].todo \ {n}), thread[t].op, thread[t].id, thread[t].name,
            thread[t].content, thread[t].found, {}, thread[t].todo \ {n},
            IF files[n] # Absent /\ thread[t].undone = "none" THEN "removed"
                                                            ELSE thread[t].undone)
      First(n) == IF thread[t].undone = "restored" THEN thread[t].name ELSE n
  <1>1. PICK n \in thread[t].todo :
          IF meta[thread[t].id][n] = "existed"
            THEN PutBack(t, n, First(n), thread[t].todo \ {n})
            ELSE /\ files' = [files EXCEPT ![n] = Absent]
                 /\ thread' = [thread EXCEPT ![t] = Removed(n)]
    BY DEF Restore
  <1>2. n \in Names /\ First(n) \in {n, thread[t].name} /\ First(n) \in Names
        /\ thread[t].todo \ {n} \in SUBSET Names
    BY <1>r
  <1>3. CASE meta[thread[t].id][n] = "existed"
    <2> DEFINE m == First(n)
               rest == thread[t].todo \ {n}
    <2>1. m \in Names /\ m \in {n, thread[t].name} /\ rest \in SUBSET Names
          /\ PutBack(t, n, m, rest) /\ rest = thread[t].todo \ {n}
      BY <1>1, <1>2, <1>3
    <2> HIDE DEF m, rest, First
    <2> QED
      BY <1>2, <2>1, PutBackFields DEF RestoreOne
  <1>4. CASE meta[thread[t].id][n] # "existed"
    <2> DEFINE next == Further(thread[t].todo \ {n})
               undone == IF files[n] # Absent /\ thread[t].undone = "none" THEN "removed"
                                                                    ELSE thread[t].undone
               r == Req(next, thread[t].op, thread[t].id, thread[t].name, thread[t].content,
                        thread[t].found, {}, thread[t].todo \ {n}, undone)
    <2>1. files' = [files EXCEPT ![n] = Absent] /\ thread' = [thread EXCEPT ![t] = r]
      BY <1>1, <1>4
    <2>2. next \in Steps /\ undone \in {"none", "restored", "removed"} /\ {} \in SUBSET Names
          /\ next = Further(thread[t].todo \ {n})
      BY <1>r DEF Steps, Further
    <2> HIDE DEF next, undone
    <2>3. r \in Request
      BY <1>r, <1>2, <2>2, ReqType
    <2>4. /\ r.pc = next /\ r.op = thread[t].op /\ r.id = thread[t].id
          /\ r.content = thread[t].content /\ r.todo = thread[t].todo \ {n}
          /\ r.name = thread[t].name
      BY ReqFields
    <2> HIDE DEF r
    <2> QED
      BY <1>2, <1>4, <2>1, <2>2, <2>3, <2>4 DEF RestoreOne
  <1> QED
    BY <1>3, <1>4

\* The copy of include n is put there.
PutOne(t, n) ==
  /\ n \in thread[t].list
  /\ files' = [files EXCEPT ![n] = backup[thread[t].id][n]]
  /\ IF thread[t].op = "apply" THEN End(t, "error") ELSE Goto(t, Further(thread[t].todo))

LEMMA PutFields ==
  ASSUME TypeOK, NEW t \in Threads, Put(t)
  PROVE  /\ \E n \in Names : PutOne(t, n)
         /\ Further(thread[t].todo) \in {"glob", "restore"}
         /\ Further(thread[t].todo) \in Steps
  <1>1. thread[t].list \subseteq Names
    BY DEF TypeOK, Request
  <1> QED
    BY <1>1 DEF Put, PutOne, Refuse, Further, Steps

\* A step of the sidecar.
LEMMA TypeServe ==
  ASSUME Settings, TypeOK, NEW t \in Threads, Serve(t)
  PROVE  TypeOK'
  <1>0. /\ thread[t] \in Request /\ files \in Tree
        /\ backup \in [Changes -> Tree] /\ service \in [up : BOOLEAN, conf : Tree]
    BY DEF TypeOK
  <1>r. /\ thread[t].id \in Changes /\ thread[t].name \in Names
        /\ thread[t].content \in Contents /\ thread[t].list \subseteq Names
        /\ thread[t].todo \subseteq Names /\ thread[t].op \in {"apply", "rollback"}
        /\ thread[t].undone \in {"none", "restored", "removed"}
        /\ thread[t].found \in BOOLEAN
    BY <1>0 DEF Request
  <1>s. \A pc \in {"backup", "write", "fill", "glob", "manifest", "live", "check", "reload", "restore"} :
          pc \in Steps
    BY DEF Steps
  <1>1. CASE Test(t)
    <2>1. thread' \in [Threads -> Request]
      BY <1>1, <1>s, GoesType, EndsType DEF Test, Refuse
    <2> QED
      BY <1>1, <2>1, FaultType DEF Test, TypeOK, disk, engine
  <1>2. CASE Backup(t)
    <2> DEFINE found == files[thread[t].name] # Absent
               r == [thread[t] EXCEPT !.pc = "meta", !.found = found]
    <2>1. r \in Request
      BY <1>0 DEF Request
    <2>2. thread' = [thread EXCEPT ![t] = r]
      BY <1>2 DEF Backup
    <2>3. thread' \in [Threads -> Request]
      BY <2>1, <2>2, Becomes
    <2>4. files[thread[t].name] \in File
      BY <1>0, <1>r DEF Tree
    <2>5. backup' \in [Changes -> Tree]
      BY <1>2, <1>0, <1>r, <2>4 DEF Backup, Tree
    <2> QED
      BY <1>2, <2>3, <2>5 DEF Backup, TypeOK, engine, bounds
  <1>3. CASE Meta(t)
    <2>1. thread' \in [Threads -> Request]
      BY <1>3, <1>s, GoesType DEF Meta
    <2>2. meta' \in [Changes -> [Names -> {"none", "existed", "new"}]]
      BY <1>3, <1>r DEF Meta, TypeOK
    <2> QED
      BY <1>3, <2>1, <2>2 DEF Meta, TypeOK, engine, bounds
  <1>4. CASE CutInclude(t) \/ Write(t)
    <2>1. thread' \in [Threads -> Request]
      BY <1>4, <1>s, GoesType DEF CutInclude, Write
    <2>2. files' \in Tree
      BY <1>4, <1>0, <1>r DEF CutInclude, Write, Tree, File
    <2> QED
      BY <1>4, <2>1, <2>2 DEF CutInclude, Write, TypeOK, engine, bounds
  <1>5. CASE Glob(t)
    <2> DEFINE r == [thread[t] EXCEPT !.pc = "cut", !.list = Present(files)]
    <2>1. r \in Request
      BY <1>0 DEF Request, Present
    <2>2. thread' = [thread EXCEPT ![t] = r]
      BY <1>5 DEF Glob
    <2>3. thread' \in [Threads -> Request]
      BY <2>1, <2>2, Becomes
    <2> QED
      BY <1>5, <2>3 DEF Glob, TypeOK, disk, engine, bounds
  <1>6. CASE CutManifest(t) \/ WriteManifest(t)
    <2>1. thread' \in [Threads -> Request]
      BY <1>6, <1>s, GoesType DEF CutManifest, WriteManifest
    <2>2. manifest' = Empty \/ manifest' \subseteq Names
      BY <1>6, <1>r DEF CutManifest, WriteManifest
    <2> QED
      BY <1>6, <2>1, <2>2 DEF CutManifest, WriteManifest, TypeOK, engine, bounds
  <1>7. CASE Live(t)
    <2> DEFINE n == thread[t].name
    <2>1. n \in Names /\ {} \in SUBSET Names
      BY <1>r
    <2>2. \/ Goto(t, "reload") /\ files' = files
          \/ PutBack(t, n, n, {})
          \/ End(t, "error") /\ (files' = files \/ files' = [files EXCEPT ![n] = Absent])
      BY <1>7 DEF Live, Refuse
    <2> HIDE DEF n
    <2>5. thread' \in [Threads -> Request]
      <3>1. CASE PutBack(t, n, n, {})
        <4>1. PICK r \in Request : thread' = [thread EXCEPT ![t] = r]
          BY <2>1, <3>1, PutBackFields
        <4> QED
          BY <4>1, Becomes
      <3> QED
        BY <1>s, <2>2, <3>1, GoesType, EndsType
    <2>3. files' \in Tree
      <3>1. CASE PutBack(t, n, n, {})
        BY <1>0, <2>1, <3>1, PutBackFields DEF Tree, File
      <3> QED
        BY <1>0, <2>1, <2>2, <3>1 DEF Tree, File
    <2>4. faults' \in 0 .. MaxFaults
      BY <1>7, FaultType DEF Live, TypeOK
    <2> QED
      BY <1>7, <2>5, <2>3, <2>4 DEF Live, TypeOK, engine
  <1>8. CASE Reload(t)
    <2>1. thread' \in [Threads -> Request]
      BY <1>8, EndsType DEF Reload, Refuse
    <2>2. service' \in [up : BOOLEAN, conf : Tree]
      BY <1>8, <1>0, LoadType DEF Reload
    <2>3. faults' \in 0 .. MaxFaults
      BY <1>8, FaultType DEF Reload, TypeOK
    <2> QED
      BY <1>8, <2>1, <2>2, <2>3 DEF Reload, TypeOK, disk, engine
  <1>9. CASE Find(t)
    <2> DEFINE todo == {n \in Names : meta[thread[t].id][n] # "none"}
               r == [thread[t] EXCEPT !.pc = "restore", !.todo = todo]
    <2>1. r \in Request
      BY <1>0 DEF Request
    <2>2. thread' = [thread EXCEPT ![t] = r] \/ End(t, "error")
      BY <1>9 DEF Find, Refuse
    <2>3. thread' \in [Threads -> Request]
      BY <2>1, <2>2, Becomes, EndsType
    <2> QED
      BY <1>9, <2>3 DEF Find, TypeOK, disk, engine, bounds
  <1>10. CASE Restore(t)
    <2>1. PICK n \in Names : RestoreOne(t, n)
      BY <1>10, RestoreFields
    <2>2. thread' \in [Threads -> Request]
      BY <2>1, Becomes DEF RestoreOne
    <2>3. Empty \in File /\ Absent \in File
      BY DEF File
    <2>4. files' \in Tree
      BY <1>0, <2>1, <2>3 DEF RestoreOne, Tree
    <2> QED
      BY <1>10, <2>2, <2>4 DEF Restore, TypeOK, engine, bounds
  <1>11. CASE Put(t)
    <2>1. PICK n \in Names : PutOne(t, n)
      BY <1>11, PutFields
    <2>2. thread' \in [Threads -> Request]
      BY <1>11, <2>1, PutFields, GoesType, EndsType DEF PutOne
    <2>3. backup[thread[t].id][n] \in File
      BY <1>0, <1>r DEF Tree
    <2>4. files' \in Tree
      BY <1>0, <2>1, <2>3 DEF PutOne, Tree
    <2> QED
      BY <1>11, <2>2, <2>4 DEF Put, TypeOK, engine, bounds
  <1>12. CASE Check(t)
    <2>1. thread' \in [Threads -> Request]
      BY <1>12, <1>s, GoesType, EndsType DEF Check, Refuse
    <2>2. faults' \in 0 .. MaxFaults
      BY <1>12, FaultType DEF Check, TypeOK
    <2> QED
      BY <1>12, <2>1, <2>2 DEF Check, TypeOK, disk, engine
  <1> QED
    BY <1>1, <1>2, <1>3, <1>4, <1>5, <1>6, <1>7, <1>8, <1>9, <1>10, <1>11, <1>12 DEF Serve

LEMMA TypeNext ==
  ASSUME Settings, TypeOK, [Next]_vars
  PROVE  TypeOK'
  <1>0. files \in Tree /\ \A c \in Changes : files[Target[c].name] \in File
    BY TargetType DEF TypeOK, Tree
  <1>1. ASSUME NEW t \in Threads, Serve(t) PROVE TypeOK'
    BY <1>1, TypeServe
  <1>2. ASSUME NEW c \in Changes, Apply(c) PROVE TypeOK'
    <2>1. ApplyReq(c, Target[c].name, Target[c].content) \in Request
      BY TargetType, RequestType
    <2>2. /\ thread' \in [Threads -> Request]
          /\ call' \in [Changes -> Threads \union {NoThread}]
          /\ step' \in [Changes -> {"idle", "apply", "verify", "undo", "back", "confirm"}]
      BY <1>2, <2>1, SendType DEF Apply
    <2>3. status' \in [Changes -> {"approved", "applying", "applied", "failed", "rolled_back"}]
      BY <1>2 DEF Apply, TypeOK
    <2>4. pre' \in [Changes -> File]
      BY <1>0, <1>2 DEF Apply, TypeOK
    <2> QED
      BY <1>2, <2>2, <2>3, <2>4 DEF Apply, TypeOK, disk, bounds
  <1>3. ASSUME NEW c \in Changes, RollBack(c) PROVE TypeOK'
    <2>1. RollbackReq(c) \in Request
      BY TargetType, RequestType
    <2>2. /\ thread' \in [Threads -> Request]
          /\ call' \in [Changes -> Threads \union {NoThread}]
          /\ step' \in [Changes -> {"idle", "apply", "verify", "undo", "back", "confirm"}]
      BY <1>3, <2>1, SendType DEF RollBack
    <2> QED
      BY <1>3, <2>2 DEF RollBack, TypeOK, disk, bounds
  <1>4. ASSUME NEW c \in Changes, Lose(c) PROVE TypeOK'
    <2>1. call[c] \in Threads
      BY <1>4 DEF Lose, TypeOK
    <2>2. thread[call[c]] \in Request
      BY <2>1 DEF TypeOK
    <2> DEFINE pc == IF thread[call[c]].pc \in {"ok", "error"} THEN "idle" ELSE thread[call[c]].pc
    <2>3. pc \in Steps
      BY <2>2 DEF Request, Steps
    <2>4. Goto(call[c], pc)
      BY <1>4, <2>1 DEF Lose, Goto, TypeOK
    <2> HIDE DEF pc
    <2>5. thread' \in [Threads -> Request]
      BY <2>1, <2>3, <2>4, GoesType
    <2> QED
      BY <1>4, <2>5, FaultType, SettleType DEF Lose, TypeOK, disk
  <1>5. ASSUME NEW c \in Changes, Unreached(c) PROVE TypeOK'
    <2>1. pre' \in [Changes -> File]
      BY <1>0, <1>5 DEF Unreached, TypeOK
    <2> QED
      BY <1>5, <2>1, FaultType, SettleType DEF Unreached, TypeOK, disk
  <1>6. ASSUME NEW c \in Changes, Answer(c) PROVE TypeOK'
    <2>1. call[c] \in Threads
      BY <1>6 DEF Answer, TypeOK
    <2>2. thread' \in [Threads -> Request]
      BY <1>6, <2>1, GoesType DEF Answer, Steps
    <2>3. /\ status' \in [Changes -> {"approved", "applying", "applied", "failed", "rolled_back"}]
          /\ step' \in [Changes -> {"idle", "apply", "verify", "undo", "back", "confirm"}]
      BY <1>6, SettleType DEF Answer, TypeOK
    <2> QED
      BY <1>6, <2>2, <2>3 DEF Answer, TypeOK, disk, bounds
  <1>7. ASSUME NEW c \in Changes, Verify(c) PROVE TypeOK'
    <2>1. RollbackReq(c) \in Request
      BY TargetType, RequestType
    <2>2. /\ thread' \in [Threads -> Request]
          /\ call' \in [Changes -> Threads \union {NoThread}]
          /\ step' \in [Changes -> {"idle", "apply", "verify", "undo", "back", "confirm"}]
          /\ status' \in [Changes -> {"approved", "applying", "applied", "failed", "rolled_back"}]
      BY <1>7, <2>1, SendType, SettleType DEF Verify, TypeOK
    <2>3. faults' \in 0 .. MaxFaults
      BY <1>7, FaultType DEF Verify, TypeOK
    <2> QED
      BY <1>7, <2>2, <2>3 DEF Verify, TypeOK, disk
  <1>8. ASSUME NEW c \in Changes, Confirm(c) PROVE TypeOK'
    BY <1>8, FaultType, SettleType DEF Confirm, TypeOK, disk
  <1>9. CASE Edit
    <2>1. PICK t \in Threads, c \in Changes, n \in Names, x \in Contents :
            thread' = [thread EXCEPT ![t] = ApplyReq(c, n, x)]
      BY <1>9 DEF Edit
    <2>2. thread' \in [Threads -> Request]
      BY <2>1, RequestType, Becomes
    <2> QED
      BY <1>9, <2>2 DEF Edit, TypeOK, disk, engine, Settings, ConstantsOK
  <1>10. CASE Reboot
    <2>1. thread' \in [Threads -> Request]
      BY <1>10, EndedType DEF Reboot
    <2> QED
      BY <1>10, <2>1, LoadType DEF Reboot, TypeOK, disk, engine, Settings, ConstantsOK
  <1>11. CASE UNCHANGED vars
    BY <1>11 DEF vars, disk, engine, bounds, TypeOK
  <1> QED
    BY <1>1, <1>2, <1>3, <1>4, <1>5, <1>6, <1>7, <1>8, <1>9, <1>10, <1>11 DEF Next, Engine

\* No answer, exception, timeout or reboot leaves a request, a copy or a
\* record in a state that nothing expects (dhcp_ops, change_engine).
THEOREM TypeCorrect == ASSUME Settings PROVE Spec => []TypeOK
  BY TypeInit, TypeNext, PTL DEF Spec

-----------------------------------------------------------------------------
(* Invariants                                                              *)

Active(r) == r.pc \notin {"idle", "ok", "error"}

\* An apply tests, copies and writes; a rollback finds, restores and checks.
OwnSteps(r) ==
  /\ r.pc \in {"test", "backup", "meta", "write", "fill", "live"} => r.op = "apply"
  /\ r.pc \in {"find", "restore", "check"} => r.op = "rollback"

\* The request whose answer the engine awaits for c.
Awaited(c, r) ==
  r.pc \in {"ok", "error"} \/ (Active(r) /\ r.id = c /\ (r.op = "apply" <=> step[c] = "apply"))

\* The engine awaits an answer exactly where it should, each change one of
\* its own.
CallsOK ==
  /\ \A t \in Threads : OwnSteps(thread[t])
  /\ \A c \in Changes :
       /\ call[c] = NoThread <=> step[c] \in {"idle", "verify", "confirm"}
       /\ step[c] \in {"apply", "verify", "undo"} => status[c] = "applying"
       /\ step[c] \in {"back", "confirm"} => status[c] \in {"applied", "failed"}
       /\ step[c] = "idle" => status[c] # "applying"
       /\ call[c] # NoThread => Awaited(c, thread[call[c]])
  /\ \A c, d \in Changes : call[c] = call[d] /\ call[c] # NoThread => c = d

Calls == TypeOK /\ CallsOK

\* No two changes are about the same include.
Distinct == \A c, d \in Changes : Target[c].name = Target[d].name => c = d

Name(c) == Target[c].name

\* A request is about the include and the content of its change.
Own(r) ==
  /\ r.name = Name(r.id) /\ r.content = Target[r.id].content
  /\ r.todo \subseteq {Name(r.id)}
  /\ r.pc = "put" => r.list = {Name(r.id)} /\ r.todo = {}
  /\ status[r.id] # "approved"

\* What would undo c is there; or c has not touched anything yet.
Exact(c) ==
  \/ meta[c][Name(c)] = "existed" /\ backup[c][Name(c)] = pre[c] /\ pre[c] # Absent
  \/ meta[c][Name(c)] = "new" /\ backup[c][Name(c)] = Absent /\ pre[c] = Absent
Fresh(c) == meta[c][Name(c)] = "none" /\ files[Name(c)] = pre[c]

CopiesOK(c) ==
  /\ \A m \in Names \ {Name(c)} : meta[c][m] = "none"
  /\ IF status[c] = "approved"
       THEN meta[c][Name(c)] = "none" /\ backup[c][Name(c)] = Absent
       ELSE Exact(c) \/ Fresh(c)

\* How far the request has got with it.
CopyingOK(r) ==
  LET c == r.id
      copy == backup[c][Name(c)]
  IN /\ r.pc \in {"test", "backup"} => Fresh(c) /\ copy = Absent
     /\ r.pc = "meta" => Fresh(c) /\ copy = pre[c] /\ r.found = (pre[c] # Absent)
     /\ r.pc \in {"write", "fill", "glob", "cut", "manifest", "live", "reload"} /\ r.op = "apply" =>
          Exact(c)
     /\ r.pc \in {"restore", "put"} => Exact(c)

UndoInv ==
  edits = 0 =>
    /\ \A t \in Threads : Active(thread[t]) => Own(thread[t]) /\ CopyingOK(thread[t])
    /\ \A t, u \in Threads :
         /\ Active(thread[t]) /\ thread[t].op = "apply"
         /\ Active(thread[u]) /\ thread[u].op = "apply"
         /\ thread[t].id = thread[u].id
         => t = u
    /\ \A c \in Changes : CopiesOK(c)

\* The manifest while it is, and while it is not, being made.
ListingOK(r) ==
  /\ r.pc \in {"cut", "manifest"} => r.list = Present(files)
  /\ r.pc \in {"backup", "meta", "write", "fill", "glob", "cut", "manifest", "live"} /\ r.op = "apply" =>
       Valid([files EXCEPT ![r.name] = r.content])
  /\ r.pc = "put" => r.op = "rollback"

\* The steps between the first write and the last.
Making == {"fill", "glob", "cut", "manifest", "restore", "put"}

ManifestInv ==
  /\ \A t \in Threads : ListingOK(thread[t])
  /\ reboots = 0 /\ (\A t \in Threads : thread[t].pc \notin Making) => manifest = Present(files)

\* The include is there and named, or the manifest is cut off.
InEffect(c) ==
  files[Name(c)] = Target[c].content /\ (manifest # Empty => Name(c) \in manifest)
Restored(c) == files[Name(c)] = pre[c]
Left(c)     == \A t \in Threads : Active(thread[t]) => thread[t].id # c

WritingOK(r) ==
  LET c == r.id IN
  IF r.op = "apply"
    THEN /\ r.pc \in {"glob", "cut", "manifest"} => files[Name(c)] = Target[c].content
         /\ r.pc \in {"live", "reload"} => InEffect(c)
    ELSE r.pc \in {"glob", "cut", "manifest", "check", "reload"} => Restored(c)

OutcomeOK(c) ==
  /\ (status[c] = "applied" /\ step[c] = "idle") \/ step[c] = "verify" => InEffect(c) /\ Left(c)
  /\ status[c] = "rolled_back" \/ step[c] = "confirm" => Restored(c) /\ Left(c)
  /\ call[c] # NoThread /\ thread[call[c]].pc = "ok" =>
       /\ step[c] = "apply" => InEffect(c)
       /\ step[c] = "back" => Restored(c)

OutcomeInv ==
  edits = 0 =>
    /\ \A t \in Threads : Active(thread[t]) => WritingOK(thread[t])
    /\ \A c \in Changes : OutcomeOK(c)

-----------------------------------------------------------------------------
(* Calls                                                                   *)

\* What every step of a request has in common.
Moves(t) ==
  /\ Active(thread[t])
  /\ \A u \in Threads \ {t} : thread'[u] = thread[u]
  /\ UNCHANGED <<engine, edits, reboots>>
  /\ OwnSteps(thread'[t])
  /\ IF Active(thread'[t])
       THEN thread'[t].id = thread[t].id /\ thread'[t].op = thread[t].op
       ELSE (\E c \in Changes : call[c] = t) => thread'[t].pc # "idle"

LEMMA MovesGoto ==
  ASSUME TypeOK, NEW t \in Threads, NEW pc \in Steps, Goto(t, pc), Active(thread[t]),
         UNCHANGED <<engine, edits, reboots>>, OwnSteps([thread[t] EXCEPT !.pc = pc]),
         pc \notin {"idle", "ok", "error"}
  PROVE  Moves(t)
  <1> DEFINE r == [thread[t] EXCEPT !.pc = pc]
  <1>1. /\ r \in Request /\ thread' = [thread EXCEPT ![t] = r]
        /\ r.pc = pc /\ r.op = thread[t].op /\ r.id = thread[t].id
    BY GoesTo
  <1> HIDE DEF r
  <1>2. thread'[t] = r /\ \A u \in Threads \ {t} : thread'[u] = thread[u]
    BY <1>1, Becomes
  <1> QED
    BY <1>1, <1>2 DEF Moves, Active, r

LEMMA MovesEnd ==
  ASSUME Settings, TypeOK, NEW t \in Threads, NEW answer \in {"ok", "error"}, End(t, answer),
         Active(thread[t]), UNCHANGED <<engine, edits, reboots>>
  PROVE  Moves(t)
  <1> DEFINE pc == IF \E c \in Changes : call[c] = t THEN answer ELSE "idle"
  <1>1. /\ Ended(pc) \in Request /\ Ended(pc).pc = pc
        /\ thread' = [thread EXCEPT ![t] = Ended(pc)]
    BY Ends
  <1>2. pc \in {"idle", "ok", "error"} /\ ((\E c \in Changes : call[c] = t) => pc # "idle")
    OBVIOUS
  <1> HIDE DEF pc
  <1>3. thread'[t] = Ended(pc) /\ \A u \in Threads \ {t} : thread'[u] = thread[u]
    BY <1>1, Becomes
  <1> QED
    BY <1>1, <1>2, <1>3 DEF Moves, Active, OwnSteps

LEMMA MovesOn ==
  ASSUME TypeOK, NEW t \in Threads, NEW r \in Request, thread' = [thread EXCEPT ![t] = r],
         Active(thread[t]), Active(r), OwnSteps(r), r.id = thread[t].id, r.op = thread[t].op,
         UNCHANGED <<engine, edits, reboots>>
  PROVE  Moves(t)
  <1>1. thread'[t] = r /\ \A u \in Threads \ {t} : thread'[u] = thread[u]
    BY Becomes
  <1> QED
    BY <1>1 DEF Moves

LEMMA ServeMoves ==
  ASSUME Settings, TypeOK, NEW t \in Threads, Serve(t), OwnSteps(thread[t])
  PROVE  Moves(t)
  <1>0. thread[t] \in Request
    BY DEF TypeOK
  <1>1. \A pc \in {"backup", "write", "fill", "glob", "manifest", "live", "check", "reload", "restore"} :
        pc \in Steps
    BY DEF Steps
  <1>2. ASSUME NEW pc \in Steps
        PROVE  LET r == [thread[t] EXCEPT !.pc = pc] IN r.pc = pc /\ r.op = thread[t].op
    BY <1>0 DEF Request
  <1>3. CASE Test(t)
    BY <1>3, <1>1, <1>2, MovesGoto, MovesEnd DEF Test, At, Active, Refuse, OwnSteps, disk
  <1>4. CASE Backup(t)
    <2> DEFINE r == [thread[t] EXCEPT !.pc = "meta", !.found = files[thread[t].name] # Absent]
    <2>1. /\ r \in Request /\ r.pc = "meta" /\ r.op = thread[t].op /\ r.id = thread[t].id
      BY <1>0 DEF Request
    <2>2. thread' = [thread EXCEPT ![t] = r]
      BY <1>4 DEF Backup
    <2> HIDE DEF r
    <2> QED
      BY <1>4, <2>1, <2>2, MovesOn DEF Backup, At, Active, OwnSteps, bounds
  <1>5. CASE Meta(t)
    BY <1>5, <1>1, <1>2, MovesGoto DEF Meta, At, Active, OwnSteps, bounds
  <1>6. CASE CutInclude(t) \/ Write(t)
    BY <1>6, <1>1, <1>2, MovesGoto DEF CutInclude, Write, At, Active, OwnSteps, bounds
  <1>7. CASE Glob(t)
    <2> DEFINE r == [thread[t] EXCEPT !.pc = "cut", !.list = Present(files)]
    <2>1. /\ r \in Request /\ r.pc = "cut" /\ r.op = thread[t].op /\ r.id = thread[t].id
      BY <1>0 DEF Request, Present
    <2>2. thread' = [thread EXCEPT ![t] = r]
      BY <1>7 DEF Glob
    <2> HIDE DEF r
    <2> QED
      BY <1>7, <2>1, <2>2, MovesOn DEF Glob, At, Active, OwnSteps, bounds
  <1>8. CASE CutManifest(t) \/ WriteManifest(t)
    <2>1. thread[t].op \in {"apply", "rollback"}
      BY <1>0 DEF Request
    <2> QED
      BY <1>8, <2>1, <1>1, <1>2, MovesGoto
      DEF CutManifest, WriteManifest, At, Active, OwnSteps, bounds
  <1>9. CASE Live(t)
    <2> DEFINE n == thread[t].name
    <2>0. /\ thread[t].pc = "live" /\ n \in Names /\ {} \in SUBSET Names
          /\ UNCHANGED <<engine, edits, reboots>>
      BY <1>9, <1>0 DEF Live, At, Request
    <2>1. Goto(t, "reload") \/ PutBack(t, n, n, {}) \/ End(t, "error")
      BY <1>9 DEF Live, Refuse
    <2> HIDE DEF n
    <2>2. CASE PutBack(t, n, n, {})
      <3>1. PICK r \in Request :
              /\ thread' = [thread EXCEPT ![t] = r]
              /\ r.pc = "put" /\ r.op = thread[t].op /\ r.id = thread[t].id
        BY <2>0, <2>2, PutBackFields
      <3> QED
        BY <2>0, <3>1, MovesOn DEF Active, OwnSteps
    <2> QED
      BY <2>0, <2>1, <2>2, <1>1, <1>2, MovesGoto, MovesEnd DEF Active, OwnSteps
  <1>10. CASE Reload(t)
    BY <1>10, MovesEnd DEF Reload, At, Active, Refuse
  <1>11. CASE Find(t)
    <2> DEFINE todo == {n \in Names : meta[thread[t].id][n] # "none"}
               r == [thread[t] EXCEPT !.pc = "restore", !.todo = todo]
    <2>1. /\ r \in Request /\ r.pc = "restore" /\ r.op = thread[t].op /\ r.id = thread[t].id
      BY <1>0 DEF Request
    <2>2. thread' = [thread EXCEPT ![t] = r] \/ End(t, "error")
      BY <1>11 DEF Find, Refuse
    <2> HIDE DEF r
    <2> QED
      BY <1>11, <2>1, <2>2, MovesOn, MovesEnd DEF Find, At, Active, OwnSteps, bounds
  <1>12. CASE Restore(t)
    <2>1. PICK n \in Names : RestoreOne(t, n)
      BY <1>12, RestoreFields
    <2>2. PICK r \in Request :
       /\ thread' = [thread EXCEPT ![t] = r]
       /\ r.pc \in {"put", "glob", "restore"}
       /\ r.op = thread[t].op /\ r.id = thread[t].id
      BY <2>1 DEF RestoreOne, Further
    <2> QED
      BY <1>12, <2>2, MovesOn DEF Restore, At, Active, OwnSteps, bounds
  <1>13. CASE Check(t)
    BY <1>13, <1>1, <1>2, MovesGoto, MovesEnd DEF Check, At, Active, Refuse, OwnSteps, disk
  <1>14. CASE Put(t)
    <2>1. PICK n \in Names : PutOne(t, n)
      BY <1>14, PutFields
    <2>2. /\ thread[t].pc = "put" /\ UNCHANGED <<engine, edits, reboots>>
          /\ thread[t].op \in {"apply", "rollback"}
      BY <1>14, <1>0 DEF Put, At, bounds, Request
    <2>3. CASE End(t, "error")
      BY <2>2, <2>3, MovesEnd DEF Active
    <2>4. CASE thread[t].op = "rollback" /\ Goto(t, Further(thread[t].todo))
      <3>1. PICK pc \in {"glob", "restore"} : pc = Further(thread[t].todo)
        BY <1>14, PutFields
      <3> QED
        BY <2>2, <2>4, <3>1, <1>1, <1>2, MovesGoto DEF Active, OwnSteps
    <2> QED
      BY <2>1, <2>2, <2>3, <2>4 DEF PutOne
  <1> QED
    BY <1>3, <1>4, <1>5, <1>6, <1>7, <1>8, <1>9, <1>10, <1>11, <1>12, <1>13, <1>14 DEF Serve

LEMMA RequestFields ==
  ASSUME NEW c \in Changes, NEW n, NEW x
  PROVE  /\ LET r == ApplyReq(c, n, x) IN
            /\ r.pc = "test" /\ r.op = "apply" /\ r.id = c /\ r.name = n /\ r.content = x
            /\ r.todo = {}
         /\ LET r == RollbackReq(c) IN
            /\ r.pc = "find" /\ r.op = "rollback" /\ r.id = c /\ r.name = Target[c].name
            /\ r.content = Target[c].content /\ r.todo = {}
  BY DEF ApplyReq, RollbackReq, Req

\* The engine sends a request to an idle thread, which nobody awaits.
LEMMA SendCalls ==
  ASSUME Settings, Calls, NEW c \in Changes, NEW t \in Threads, NEW req \in Request,
         NEW next \in {"apply", "undo", "back"}, Send(c, t, req, next),
         Active(req), OwnSteps(req), req.id = c, req.op = "apply" <=> next = "apply",
         next \in {"apply", "undo"} => status'[c] = "applying",
         next = "back" => status'[c] \in {"applied", "failed"},
         \A d \in Changes \ {c} : status'[d] = status[d]
  PROVE  CallsOK'
  <1>1. /\ call'[c] = t /\ step'[c] = next /\ thread'[t] = req
        /\ \A d \in Changes \ {c} : call'[d] = call[d] /\ step'[d] = step[d]
        /\ \A u \in Threads \ {t} : thread'[u] = thread[u]
    BY DEF Send, Calls, TypeOK
  <1>2. t # NoThread /\ \A d \in Changes : call[d] # t
    BY DEF Settings, ConstantsOK, Send, At, Calls, CallsOK, Awaited, Active
  <1>3. \A d \in Changes : call[d] # NoThread => call[d] \in Threads
    BY DEF Calls, TypeOK
  <1>4. \A u \in Threads : OwnSteps(thread'[u])
    BY <1>1 DEF Calls, CallsOK
  <1>5. ASSUME NEW d \in Changes
        PROVE  /\ call'[d] = NoThread <=> step'[d] \in {"idle", "verify", "confirm"}
               /\ step'[d] \in {"apply", "verify", "undo"} => status'[d] = "applying"
               /\ step'[d] \in {"back", "confirm"} => status'[d] \in {"applied", "failed"}
               /\ step'[d] = "idle" => status'[d] # "applying"
               /\ call'[d] # NoThread => Awaited(d, thread[call[d]])'
    <2>1. CASE d = c
      BY <1>1, <1>2, <2>1 DEF Awaited
    <2>2. CASE d # c
      BY <1>1, <1>2, <1>3, <2>2 DEF Calls, CallsOK, Awaited
    <2> QED
      BY <2>1, <2>2
  <1>6. \A d, e \in Changes : call'[d] = call'[e] /\ call'[d] # NoThread => d = e
    BY <1>1, <1>2 DEF Calls, CallsOK
  <1> QED
    BY <1>4, <1>5, <1>6 DEF CallsOK

\* The engine stops waiting for c, and its thread may change.
LEMMA SettleCalls ==
  ASSUME Settings, Calls, NEW c \in Changes, call'[c] = NoThread,
         step'[c] \in {"idle", "verify", "confirm"},
         step'[c] = "idle" => status'[c] # "applying",
         step'[c] = "verify" => status'[c] = "applying",
         step'[c] = "confirm" => status'[c] \in {"applied", "failed"},
         \A d \in Changes \ {c} :
           call'[d] = call[d] /\ step'[d] = step[d] /\ status'[d] = status[d],
         \A u \in Threads : OwnSteps(thread'[u]) /\ (u # call[c] => thread'[u] = thread[u])
  PROVE  CallsOK'
  <1>1. \A d \in Changes : call[d] # NoThread => call[d] \in Threads
    BY DEF Calls, TypeOK
  <1>2. ASSUME NEW d \in Changes
        PROVE  /\ call'[d] = NoThread <=> step'[d] \in {"idle", "verify", "confirm"}
               /\ step'[d] \in {"apply", "verify", "undo"} => status'[d] = "applying"
               /\ step'[d] \in {"back", "confirm"} => status'[d] \in {"applied", "failed"}
               /\ step'[d] = "idle" => status'[d] # "applying"
               /\ call'[d] # NoThread => Awaited(d, thread[call[d]])'
    <2>1. CASE d = c
      BY <2>1
    <2>2. CASE d # c
      <3>1. call[d] # NoThread => call[d] # call[c]
        BY <2>2 DEF Calls, CallsOK
      <3> QED
        BY <1>1, <2>2, <3>1 DEF Calls, CallsOK, Awaited
    <2> QED
      BY <2>1, <2>2
  <1>3. \A d, e \in Changes : call'[d] = call'[e] /\ call'[d] # NoThread => d = e
    BY DEF Calls, CallsOK
  <1> QED
    BY <1>2, <1>3 DEF CallsOK

LEMMA SettleFields ==
  ASSUME TypeOK, NEW c \in Changes, NEW result, Settle(c, result)
  PROVE  /\ status'[c] = result /\ step'[c] = "idle"
         /\ \A d \in Changes \ {c} : status'[d] = status[d] /\ step'[d] = step[d]
  BY DEF TypeOK, Settle

\* The thread of an answer that came, or of a call that was lost.
LEMMA DropFields ==
  ASSUME TypeOK, NEW t \in Threads, NEW pc \in Steps, Goto(t, pc), OwnSteps(thread[t]),
         pc = thread[t].pc \/ pc = "idle"
  PROVE  /\ OwnSteps(thread'[t]) /\ thread'[t].pc = pc
         /\ thread'[t].id = thread[t].id /\ thread'[t].op = thread[t].op
         /\ \A u \in Threads \ {t} : thread'[u] = thread[u]
  <1> DEFINE r == [thread[t] EXCEPT !.pc = pc]
  <1>1. /\ r \in Request /\ thread' = [thread EXCEPT ![t] = r]
        /\ r.pc = pc /\ r.op = thread[t].op /\ r.id = thread[t].id
    BY GoesTo
  <1> HIDE DEF r
  <1>2. thread'[t] = r /\ \A u \in Threads \ {t} : thread'[u] = thread[u]
    BY <1>1, Becomes
  <1> QED
    BY <1>1, <1>2 DEF OwnSteps

LEMMA LoseGoes ==
  ASSUME TypeOK, NEW c \in Changes, Lose(c)
  PROVE  /\ call[c] \in Threads /\ Settle(c, "failed")
         /\ \E pc \in Steps : /\ Goto(call[c], pc) /\ (pc = thread[call[c]].pc \/ pc = "idle")
                              /\ Active(thread[call[c]]) => pc = thread[call[c]].pc
  <1>1. call[c] \in Threads
    BY DEF Lose, TypeOK
  <1>2. thread[call[c]] \in Request
    BY <1>1 DEF TypeOK
  <1> DEFINE pc == IF thread[call[c]].pc \in {"ok", "error"} THEN "idle" ELSE thread[call[c]].pc
  <1>3. pc \in Steps
    BY <1>2 DEF Request, Steps
  <1>4. Goto(call[c], pc)
    BY <1>1 DEF Lose, Goto, TypeOK
  <1>5. (pc = thread[call[c]].pc \/ pc = "idle") /\ (Active(thread[call[c]]) => pc = thread[call[c]].pc)
    BY DEF Active
  <1> QED
    BY <1>1, <1>3, <1>4, <1>5 DEF Lose

LEMMA CallsInit == Settings /\ Init => CallsOK
  <1> SUFFICES ASSUME Settings, Init PROVE CallsOK
    OBVIOUS
  <1>1. \A t \in Threads : OwnSteps(thread[t])
    BY EndedType DEF Init, OwnSteps
  <1> QED
    BY <1>1 DEF Init, CallsOK

LEMMA CallsNext ==
  ASSUME Settings, Calls, [Next]_vars
  PROVE  CallsOK'
  <1>0. /\ TypeOK /\ \A t \in Threads : OwnSteps(thread[t])
        /\ \A d \in Changes : call[d] # NoThread => call[d] \in Threads
    BY DEF Calls, CallsOK, TypeOK
  <1>1. ASSUME NEW t \in Threads, Serve(t) PROVE CallsOK'
    <2>1. Moves(t)
      BY <1>0, <1>1, ServeMoves
    <2>2. \A u \in Threads : OwnSteps(thread'[u])
      BY <1>0, <2>1 DEF Moves
    <2>3. ASSUME NEW d \in Changes, call[d] # NoThread
          PROVE  Awaited(d, thread[call[d]])'
      <3>1. Awaited(d, thread[call[d]]) /\ call[d] \in Threads
        BY <1>0, <2>3 DEF Calls, CallsOK
      <3>2. CASE call[d] = t
        <4>1. thread'[t] \in Request
          BY <1>0, <1>1, TypeServe DEF TypeOK
        <4> QED
          BY <2>1, <3>1, <3>2, <4>1 DEF Moves, Awaited, Active, engine, Request
      <3>3. CASE call[d] # t
        BY <2>1, <3>1, <3>3 DEF Moves, Awaited, engine
      <3> QED
        BY <3>2, <3>3
    <2> QED
      BY <2>1, <2>2, <2>3 DEF Moves, Calls, CallsOK, engine
  <1>2. ASSUME NEW c \in Changes, Apply(c) PROVE CallsOK'
    <2>1. PICK t \in Threads :
            Send(c, t, ApplyReq(c, Target[c].name, Target[c].content), "apply")
      BY <1>2 DEF Apply
    <2>2. status'[c] = "applying" /\ \A d \in Changes \ {c} : status'[d] = status[d]
      BY <1>0, <1>2 DEF Apply, TypeOK
    <2> QED
      BY <2>1, <2>2, TargetType, RequestType, RequestFields, SendCalls DEF Active, OwnSteps
  <1>3. ASSUME NEW c \in Changes, RollBack(c) PROVE CallsOK'
    <2>1. PICK t \in Threads : Send(c, t, RollbackReq(c), "back")
      BY <1>3 DEF RollBack
    <2>2. RollbackReq(c) \in Request
      BY TargetType, RequestType
    <2> QED
      BY <1>3, <2>1, <2>2, RequestFields, SendCalls DEF Active, OwnSteps, RollBack
  <1>4. ASSUME NEW c \in Changes, Lose(c) PROVE CallsOK'
    <2>1. PICK pc \in Steps : Goto(call[c], pc) /\ (pc = thread[call[c]].pc \/ pc = "idle")
      BY <1>0, <1>4, LoseGoes
    <2>2. /\ call[c] \in Threads /\ Settle(c, "failed")
      BY <1>0, <1>4, LoseGoes
    <2>3. \A u \in Threads : OwnSteps(thread'[u]) /\ (u # call[c] => thread'[u] = thread[u])
      BY <1>0, <2>1, <2>2, DropFields
    <2>4. call'[c] = NoThread /\ \A d \in Changes \ {c} : call'[d] = call[d]
      BY <1>0, <1>4 DEF Lose, TypeOK
    <2> QED
      BY <1>0, <2>2, <2>3, <2>4, SettleFields, SettleCalls
  <1>5. ASSUME NEW c \in Changes, Unreached(c) PROVE CallsOK'
    <2>1. Settle(c, "failed") /\ thread' = thread /\ call' = call
          /\ step[c] \in {"idle", "verify"}
      BY <1>5 DEF Unreached
    <2>2. call[c] = NoThread
      BY <2>1 DEF Calls, CallsOK
    <2> QED
      BY <1>0, <2>1, <2>2, SettleFields, SettleCalls
  <1>6. ASSUME NEW c \in Changes, Answer(c) PROVE CallsOK'
    <2>1. call[c] \in Threads /\ call[c] # NoThread /\ Goto(call[c], "idle")
      BY <1>0, <1>6 DEF Answer
    <2>2. \A u \in Threads : OwnSteps(thread'[u]) /\ (u # call[c] => thread'[u] = thread[u])
      BY <1>0, <2>1, DropFields DEF Steps
    <2>3. call'[c] = NoThread /\ \A d \in Changes \ {c} : call'[d] = call[d]
      BY <1>0, <1>6 DEF Answer, TypeOK
    <2>4. CASE Settle(c, "failed")
      BY <1>0, <2>2, <2>3, <2>4, SettleFields, SettleCalls
    <2>5. CASE /\ step[c] # "undo" /\ UNCHANGED status
               /\ step' = [step EXCEPT ![c] = IF @ = "apply" THEN "verify" ELSE "confirm"]
      <3>1. /\ step[c] \in {"apply", "back"}
            /\ step[c] = "apply" => status[c] = "applying"
            /\ step[c] = "back" => status[c] \in {"applied", "failed"}
        BY <2>1, <2>5 DEF Calls, CallsOK, TypeOK
      <3>2. /\ step'[c] = IF step[c] = "apply" THEN "verify" ELSE "confirm"
            /\ \A d \in Changes \ {c} : step'[d] = step[d]
        BY <1>0, <2>5 DEF TypeOK
      <3> QED
        BY <2>2, <2>3, <2>5, <3>1, <3>2, SettleCalls
    <2> QED
      BY <1>6, <2>4, <2>5 DEF Answer
  <1>7. ASSUME NEW c \in Changes, Verify(c) PROVE CallsOK'
    <2>1. CASE Settle(c, "applied") /\ UNCHANGED <<thread, call>>
      <3>1. call[c] = NoThread
        BY <1>7 DEF Verify, Calls, CallsOK
      <3> QED
        BY <1>0, <2>1, <3>1, SettleFields, SettleCalls
    <2>2. ASSUME NEW t \in Threads, Send(c, t, RollbackReq(c), "undo"), UNCHANGED status
          PROVE  CallsOK'
      <3>1. RollbackReq(c) \in Request
        BY TargetType, RequestType
      <3>2. status[c] = "applying"
        BY <1>7 DEF Verify, Calls, CallsOK
      <3> QED
        BY <2>2, <3>1, <3>2, RequestFields, SendCalls DEF Active, OwnSteps
    <2> QED
      BY <1>7, <2>1, <2>2 DEF Verify
  <1>8. ASSUME NEW c \in Changes, Confirm(c) PROVE CallsOK'
    <2>1. PICK result \in {"rolled_back", "failed"} : Settle(c, result)
      BY <1>8 DEF Confirm
    <2>2. call[c] = NoThread /\ thread' = thread /\ call' = call
      BY <1>8 DEF Confirm, Calls, CallsOK
    <2> QED
      BY <1>0, <2>1, <2>2, SettleFields, SettleCalls
  <1>9. CASE Edit
    <2>1. PICK t \in Threads, c \in Changes, n \in Names, x \in Contents :
            At(t, "idle") /\ thread' = [thread EXCEPT ![t] = ApplyReq(c, n, x)]
      BY <1>9 DEF Edit
    <2>2. /\ thread'[t] = ApplyReq(c, n, x) /\ \A u \in Threads \ {t} : thread'[u] = thread[u]
      BY <1>0, <2>1, RequestType, Becomes
    <2>3. \A u \in Threads : OwnSteps(thread'[u])
      BY <1>0, <2>2, RequestFields DEF OwnSteps
    <2>4. \A d \in Changes : call[d] # t
      BY <2>1, <1>0 DEF At, Calls, CallsOK, Awaited, Active, Settings, ConstantsOK
    <2> QED
      BY <1>0, <1>9, <2>2, <2>3, <2>4 DEF Edit, engine, Calls, CallsOK, Awaited
  <1>10. CASE Reboot
    <2>1. \A t \in Threads : /\ thread'[t].pc \in {"idle", "error"}
                             /\ (\E c \in Changes : call[c] = t) => thread'[t].pc = "error"
      BY <1>10, EndedType DEF Reboot
    <2>2. \A t \in Threads : OwnSteps(thread'[t])
      BY <2>1 DEF OwnSteps
    <2>3. \A d \in Changes : call[d] # NoThread => Awaited(d, thread[call[d]])'
      BY <1>0, <1>10, <2>1 DEF Reboot, engine, Awaited
    <2> QED
      BY <1>10, <2>2, <2>3 DEF Reboot, engine, Calls, CallsOK
  <1>11. CASE UNCHANGED vars
    BY <1>11 DEF vars, engine, Calls, CallsOK, Awaited
  <1> QED
    BY <1>1, <1>2, <1>3, <1>4, <1>5, <1>6, <1>7, <1>8, <1>9, <1>10, <1>11 DEF Next, Engine

LEMMA CallsAlways == ASSUME Settings PROVE Spec => []Calls
  <1>1. Init => Calls
    BY TypeInit, CallsInit DEF Calls
  <1>2. Calls /\ [Next]_vars => Calls'
    BY TypeNext, CallsNext DEF Calls
  <1> QED
    BY <1>1, <1>2, PTL DEF Spec

-----------------------------------------------------------------------------
(* What undoes a change                                                    *)

\* Nothing that is about change d has changed.
Same(d) ==
  /\ files'[Name(d)] = files[Name(d)] /\ meta'[d] = meta[d] /\ backup'[d] = backup[d]
  /\ status'[d] = status[d] /\ pre'[d] = pre[d]

LEMMA SameCopies ==
  ASSUME NEW d \in Changes, Same(d)
  PROVE  /\ CopiesOK(d) => CopiesOK(d)'
         /\ Exact(d)' <=> Exact(d)
         /\ Fresh(d)' <=> Fresh(d)
  BY DEF Same, CopiesOK, Exact, Fresh, Name

\* A thread that does not move, on a change that is the same.
LEMMA SameCopying ==
  ASSUME NEW u \in Threads, thread'[u] = thread[u], NEW d \in Changes, thread[u].id = d,
         Same(d), CopyingOK(thread[u])
  PROVE  CopyingOK(thread[u])'
  <1>1. (Exact(d)' <=> Exact(d)) /\ (Fresh(d)' <=> Fresh(d))
    BY SameCopies
  <1> QED
    BY <1>1 DEF CopyingOK, Same, Name, Exact, Fresh

\* The conjuncts of UndoInv after a step of thread t.
LEMMA UndoFrame ==
  ASSUME Settings, TypeOK, UndoInv, edits = 0, NEW t \in Threads, Moves(t),
         Active(thread'[t]) => Own(thread'[t]) /\ CopyingOK(thread[t])',
         \A d \in Changes : CopiesOK(d)',
         \A u \in Threads \ {t} : Active(thread[u]) => CopyingOK(thread[u])'
  PROVE  UndoInv'
  <1>1. \A u \in Threads \ {t} : thread'[u] = thread[u]
    BY DEF Moves
  <1>2. status' = status
    BY DEF Moves, engine
  <1>3. ASSUME NEW u \in Threads, Active(thread'[u])
        PROVE  Own(thread[u])' /\ CopyingOK(thread[u])'
    BY <1>1, <1>2, <1>3 DEF UndoInv, Own, Name
  <1>4. ASSUME NEW u \in Threads, NEW v \in Threads,
               Active(thread'[u]), thread'[u].op = "apply",
               Active(thread'[v]), thread'[v].op = "apply", thread'[u].id = thread'[v].id
        PROVE  u = v
    BY <1>1, <1>4 DEF UndoInv, Moves
  <1> QED
    BY <1>3, <1>4 DEF UndoInv, Active

\* A step that writes no file, copy or note.
LEMMA UndoQuiet ==
  ASSUME Settings, TypeOK, UndoInv, edits = 0, NEW t \in Threads, Moves(t),
         UNCHANGED <<files, backup, meta>>,
         Active(thread'[t]) => Own(thread'[t]) /\ CopyingOK(thread[t])'
  PROVE  UndoInv'
  <1>1. \A d \in Changes : Same(d)
    BY DEF Moves, engine, Same
  <1>2. \A d \in Changes : CopiesOK(d)'
    BY <1>1, SameCopies DEF UndoInv
  <1>3. ASSUME NEW u \in Threads \ {t}, Active(thread[u]) PROVE CopyingOK(thread[u])'
    <2>1. thread[u].id \in Changes /\ thread'[u] = thread[u]
      BY DEF TypeOK, Request, Moves
    <2> QED
      BY <1>1, <1>3, <2>1, SameCopying DEF UndoInv
  <1> QED
    BY <1>2, <1>3, UndoFrame

\* A step that changes what is about one change, and not whether it can be
\* undone.
LEMMA UndoTouch ==
  ASSUME Settings, Distinct, TypeOK, UndoInv, edits = 0, NEW t \in Threads, Moves(t),
         NEW c \in Changes, \A d \in Changes \ {c} : Same(d),
         Active(thread'[t]) => Own(thread'[t]) /\ CopyingOK(thread[t])',
         CopiesOK(c)',
         \A u \in Threads \ {t} :
           Active(thread[u]) /\ thread[u].id = c => CopyingOK(thread[u])'
  PROVE  UndoInv'
  <1>1. ASSUME NEW d \in Changes PROVE CopiesOK(d)'
    <2>1. CASE d # c
      BY <2>1, SameCopies DEF UndoInv
    <2> QED
      BY <2>1
  <1>2. ASSUME NEW u \in Threads \ {t}, Active(thread[u]) PROVE CopyingOK(thread[u])'
    <2>1. thread[u].id \in Changes /\ thread'[u] = thread[u]
      BY DEF TypeOK, Request, Moves
    <2>2. CASE thread[u].id # c
      BY <1>2, <2>1, <2>2, SameCopying DEF UndoInv
    <2> QED
      BY <1>2, <2>2
  <1> QED
    BY <1>1, <1>2, UndoFrame

LEMMA GoesOn ==
  ASSUME TypeOK, NEW t \in Threads, NEW pc \in Steps, Goto(t, pc)
  PROVE  LET r == thread[t] s == thread'[t] IN
         /\ s.pc = pc /\ s.op = r.op /\ s.id = r.id /\ s.name = r.name
         /\ s.content = r.content /\ s.found = r.found /\ s.list = r.list /\ s.todo = r.todo
  <1> DEFINE r == [thread[t] EXCEPT !.pc = pc]
  <1>1. /\ r \in Request /\ thread' = [thread EXCEPT ![t] = r]
        /\ r.pc = pc /\ r.op = thread[t].op /\ r.id = thread[t].id
        /\ r.name = thread[t].name /\ r.content = thread[t].content
        /\ r.found = thread[t].found /\ r.list = thread[t].list
        /\ r.todo = thread[t].todo
    BY GoesTo
  <1> HIDE DEF r
  <1>2. thread'[t] = r
    BY <1>1, Becomes
  <1> QED
    BY <1>1, <1>2

LEMMA Gone ==
  ASSUME Settings, TypeOK, NEW t \in Threads, NEW answer \in {"ok", "error"}, End(t, answer)
  PROVE  /\ ~Active(thread'[t])
         /\ thread'[t].pc \in {"idle", answer}
  <1> DEFINE pc == IF \E c \in Changes : call[c] = t THEN answer ELSE "idle"
  <1>1. /\ Ended(pc) \in Request /\ Ended(pc).pc = pc
        /\ thread' = [thread EXCEPT ![t] = Ended(pc)]
    BY Ends
  <1>2. pc \in {"idle", answer}
    OBVIOUS
  <1> HIDE DEF pc
  <1>3. thread'[t] = Ended(pc)
    BY <1>1, Becomes
  <1> QED
    BY <1>1, <1>2, <1>3 DEF Active

LEMMA UndoServe ==
  ASSUME Settings, Distinct, Calls, UndoInv, edits = 0, NEW t \in Threads, Serve(t)
  PROVE  UndoInv'
  <1>m. TypeOK /\ OwnSteps(thread[t]) /\ Moves(t)
    BY ServeMoves DEF Calls, CallsOK
  <1>r. thread[t] \in Request
    BY <1>m DEF TypeOK
  <1>1. PICK c \in Changes : c = thread[t].id
    BY <1>m DEF TypeOK, Request
  <1>2. /\ Active(thread[t]) /\ Own(thread[t]) /\ CopyingOK(thread[t])
        /\ CopiesOK(c) /\ status[c] # "approved" /\ status' = status /\ pre' = pre
    BY <1>m, <1>1 DEF UndoInv, Moves, Own, engine
  <1>3. PICK n \in Names : n = Name(c) /\ n = thread[t].name
    BY <1>1, <1>2, TargetType DEF Own, Name
  <1>4. \A d \in Changes \ {c} : Name(d) \in Names /\ Name(d) # n
    BY <1>3, TargetType DEF Distinct, Name
  <1>5. files \in [Names -> File] /\ backup \in [Changes -> [Names -> File]]
    BY <1>m DEF TypeOK, Tree
  <1>6. meta \in [Changes -> [Names -> {"none", "existed", "new"}]]
    BY <1>m DEF TypeOK
  <1>7. \A pc \in {"backup", "write", "fill", "glob", "manifest", "live", "check", "reload", "restore"} :
        pc \in Steps
    BY DEF Steps
  <1>8. CASE Test(t)
    <2>1. CASE Goto(t, "backup")
      <3>1. /\ thread'[t].pc = "backup" /\ thread'[t].id = c /\ thread'[t].name = n
            /\ thread'[t].content = thread[t].content /\ thread'[t].todo = thread[t].todo
        BY <1>m, <1>1, <1>3, <1>7, <2>1, GoesOn
      <3>2. UNCHANGED <<files, backup, meta>>
        BY <1>8 DEF Test, disk
      <3>3. Same(c)
        BY <1>2, <3>2 DEF Same
      <3>4. Fresh(c)' /\ backup'[c][Name(c)] = Absent
        BY <1>1, <1>2, <1>8, <3>2, <3>3, SameCopies DEF Test, At, CopyingOK
      <3>5. Own(thread'[t]) /\ CopyingOK(thread[t])'
        BY <1>1, <1>2, <1>3, <3>1, <3>4 DEF Own, CopyingOK, Name
      <3> QED
        BY <1>m, <3>2, <3>5, UndoQuiet
    <2>2. CASE End(t, "error")
      BY <1>m, <1>8, <2>2, Gone, UndoQuiet DEF Test, disk
    <2> QED
      BY <1>8, <2>1, <2>2 DEF Test, Refuse
  <1>9. CASE Backup(t)
    <2> DEFINE found == files[thread[t].name] # Absent
               r == [thread[t] EXCEPT !.pc = "meta", !.found = found]
    <2>1. /\ r \in Request /\ r.pc = "meta" /\ r.id = c /\ r.name = n /\ r.found = found
          /\ r.content = thread[t].content /\ r.todo = thread[t].todo
      BY <1>r, <1>1, <1>3 DEF Request
    <2>2. thread' = [thread EXCEPT ![t] = r]
      BY <1>9 DEF Backup
    <2>3. thread'[t] = r
      BY <1>m, <2>1, <2>2, Becomes
    <2>4. Fresh(c) /\ backup[c][n] = Absent
      BY <1>1, <1>2, <1>3, <1>9 DEF Backup, At, CopyingOK
    <2>5. /\ backup'[c][n] = files[n] /\ \A d \in Changes \ {c} : backup'[d] = backup[d]
          /\ files' = files /\ meta' = meta
      BY <1>1, <1>3, <1>5, <1>9, <2>4 DEF Backup
    <2>6. files[n] = pre[c] /\ Fresh(c)'
      BY <1>2, <1>3, <2>4, <2>5 DEF Fresh
    <2>7. \A d \in Changes \ {c} : Same(d)
      BY <1>2, <2>5 DEF Same
    <2>8. CopiesOK(c)'
      BY <1>2, <2>5, <2>6 DEF CopiesOK, Name
    <2>9. Own(thread'[t]) /\ CopyingOK(thread[t])'
      <3>1. Own(r)
        BY <1>1, <1>2, <1>3, <2>1 DEF Own, Name
      <3>2. found = (pre[c] # Absent)
        BY <1>1, <1>3, <2>6
      <3>3. thread'[t].pc = "meta" /\ thread'[t].id = c /\ thread'[t].found = (pre[c] # Absent)
        BY <2>1, <2>3, <3>2
      <3>4. backup'[c][Name(c)] = pre[c] /\ Fresh(c)' /\ pre' = pre
        BY <1>1, <1>2, <1>3, <2>5, <2>6 DEF Name
      <3> QED
        BY <2>3, <3>1, <3>3, <3>4 DEF CopyingOK, Name
    <2>10. ASSUME NEW u \in Threads \ {t}, Active(thread[u]), thread[u].id = c
           PROVE  CopyingOK(thread[u])'
      <3>1. thread'[u] = thread[u] /\ CopyingOK(thread[u]) /\ thread[u].op # "apply"
            /\ OwnSteps(thread[u])
        BY <1>m, <1>1, <1>2, <1>9, <2>10 DEF UndoInv, Moves, Backup, At, OwnSteps, Calls, CallsOK
      <3>2. thread[u].pc \notin {"restore", "put"}
        BY <2>4, <2>10, <3>1 DEF CopyingOK, Exact, Fresh
      <3> QED
        BY <3>1, <3>2 DEF CopyingOK, OwnSteps
    <2> QED
      BY <1>m, <1>1, <1>2, <2>7, <2>8, <2>9, <2>10, UndoTouch
  <1>10. CASE Meta(t)
    <2>1. /\ thread'[t].pc = "write" /\ thread'[t].id = c /\ thread'[t].name = n
          /\ thread'[t].content = thread[t].content /\ thread'[t].todo = thread[t].todo
      BY <1>m, <1>1, <1>3, <1>7, <1>10, GoesOn DEF Meta
    <2>2. /\ Fresh(c) /\ backup[c][n] = pre[c] /\ thread[t].found = (pre[c] # Absent)
      BY <1>1, <1>2, <1>3, <1>10 DEF Meta, At, CopyingOK
    <2>3. /\ meta'[c][n] = IF pre[c] # Absent THEN "existed" ELSE "new"
          /\ \A m \in Names \ {n} : meta'[c][m] = meta[c][m]
          /\ \A d \in Changes \ {c} : meta'[d] = meta[d]
          /\ files' = files /\ backup' = backup
      BY <1>1, <1>3, <1>6, <1>10, <2>2 DEF Meta
    <2>4. Exact(c)'
      BY <1>2, <1>3, <2>2, <2>3 DEF Exact, Name
    <2>5. \A d \in Changes \ {c} : Same(d)
      BY <1>2, <2>3 DEF Same
    <2>6. CopiesOK(c)'
      BY <1>2, <1>3, <2>3, <2>4 DEF CopiesOK, Name
    <2>7. Own(thread'[t]) /\ CopyingOK(thread[t])'
      BY <1>1, <1>2, <1>3, <2>1, <2>4 DEF Own, CopyingOK, Name
    <2>8. ASSUME NEW u \in Threads \ {t}, Active(thread[u]), thread[u].id = c
          PROVE  CopyingOK(thread[u])'
      <3>1. thread'[u] = thread[u] /\ CopyingOK(thread[u]) /\ thread[u].op # "apply"
            /\ OwnSteps(thread[u])
        BY <1>m, <1>1, <1>2, <1>10, <2>8 DEF UndoInv, Moves, Meta, At, OwnSteps, Calls, CallsOK
      <3>2. thread[u].pc \notin {"restore", "put"}
        BY <2>2, <2>8, <3>1 DEF CopyingOK, Exact, Fresh
      <3> QED
        BY <3>1, <3>2 DEF CopyingOK, OwnSteps
    <2> QED
      BY <1>m, <1>1, <1>2, <2>5, <2>6, <2>7, <2>8, UndoTouch
  <1>w. ASSUME NEW x \in File, files' = [files EXCEPT ![n] = x], UNCHANGED <<backup, meta>>,
               Exact(c), OwnSteps(thread[t]),
               Active(thread'[t]) => Own(thread'[t]) /\ CopyingOK(thread[t])'
        PROVE  UndoInv'
    <2>1. \A d \in Changes \ {c} : Same(d)
      BY <1>2, <1>4, <1>5, <1>w DEF Same
    <2>2. Exact(c)'
      BY <1>2, <1>w DEF Exact
    <2>3. CopiesOK(c)'
      BY <1>2, <1>w, <2>2 DEF CopiesOK
    <2>4. ASSUME NEW u \in Threads \ {t}, Active(thread[u]), thread[u].id = c
          PROVE  CopyingOK(thread[u])'
      <3>1. thread'[u] = thread[u] /\ CopyingOK(thread[u])
        BY <1>m, <2>4 DEF UndoInv, Moves
      <3>2. thread[u].pc \notin {"test", "backup", "meta"}
        BY <1>w, <2>4, <3>1 DEF CopyingOK, Exact, Fresh
      <3> QED
        BY <2>2, <2>4, <3>1, <3>2 DEF CopyingOK
    <2> QED
      BY <1>m, <1>1, <1>2, <1>w, <2>1, <2>3, <2>4, UndoTouch
  <1>19. CASE CutInclude(t)
    <2>1. /\ thread'[t].pc = "fill" /\ thread'[t].id = c /\ thread'[t].name = n
          /\ thread'[t].content = thread[t].content /\ thread'[t].todo = thread[t].todo
      BY <1>m, <1>1, <1>3, <1>7, <1>19, GoesOn DEF CutInclude
    <2>2. Exact(c)
      BY <1>m, <1>1, <1>2, <1>19 DEF CutInclude, At, CopyingOK, OwnSteps
    <2>3. /\ files' = [files EXCEPT ![n] = Empty] /\ UNCHANGED <<backup, meta>>
          /\ Empty \in File
      BY <1>3, <1>19 DEF CutInclude, File
    <2>4. Exact(c)'
      BY <1>2, <2>2, <2>3 DEF Exact
    <2>5. Own(thread'[t]) /\ CopyingOK(thread[t])'
      BY <1>1, <1>2, <1>3, <2>1, <2>4 DEF Own, CopyingOK
    <2> QED
      BY <1>m, <1>w, <2>2, <2>3, <2>5
  <1>11. CASE Write(t)
    <2>1. /\ thread'[t].pc = "glob" /\ thread'[t].id = c /\ thread'[t].name = n
          /\ thread'[t].content = thread[t].content /\ thread'[t].todo = thread[t].todo
      BY <1>m, <1>1, <1>3, <1>7, <1>11, GoesOn DEF Write
    <2>2. Exact(c)
      BY <1>m, <1>1, <1>2, <1>11 DEF Write, At, CopyingOK, OwnSteps
    <2>3. /\ files' = [files EXCEPT ![n] = thread[t].content] /\ UNCHANGED <<backup, meta>>
          /\ thread[t].content \in File
      BY <1>m, <1>3, <1>11 DEF Write, TypeOK, Request, File
    <2>4. Exact(c)'
      BY <1>2, <2>2, <2>3 DEF Exact
    <2>5. Own(thread'[t]) /\ CopyingOK(thread[t])'
      BY <1>1, <1>2, <1>3, <2>1, <2>4 DEF Own, CopyingOK
    <2> QED
      BY <1>m, <1>w, <2>2, <2>3, <2>5
  <1>12. CASE Glob(t)
    <2> DEFINE r == [thread[t] EXCEPT !.pc = "cut", !.list = Present(files)]
    <2>1. /\ r \in Request /\ r.pc = "cut" /\ r.id = c /\ r.name = n /\ r.op = thread[t].op
          /\ r.content = thread[t].content /\ r.todo = thread[t].todo
      BY <1>r, <1>1, <1>3 DEF Request, Present
    <2>2. thread' = [thread EXCEPT ![t] = r]
      BY <1>12 DEF Glob
    <2>3. thread'[t] = r
      BY <1>m, <2>1, <2>2, Becomes
    <2>4. UNCHANGED <<files, backup, meta>>
      BY <1>12 DEF Glob, disk
    <2>5. thread[t].op = "apply" => Exact(c)'
      BY <1>1, <1>2, <1>12, <2>4 DEF Glob, At, CopyingOK, Exact
    <2>6. Own(thread'[t]) /\ CopyingOK(thread[t])'
      BY <1>1, <1>2, <1>3, <2>1, <2>3, <2>5 DEF Own, CopyingOK
    <2> QED
      BY <1>m, <2>4, <2>6, UndoQuiet
  <1>g. ASSUME NEW pc \in {"manifest", "live", "check", "reload"}, Goto(t, pc),
               UNCHANGED <<files, backup, meta>>,
               thread[t].pc \in {"cut", "manifest", "live", "check"}
        PROVE  UndoInv'
    <2>1. /\ thread'[t].pc = pc /\ thread'[t].id = c /\ thread'[t].name = n
          /\ thread'[t].op = thread[t].op
          /\ thread'[t].content = thread[t].content /\ thread'[t].todo = thread[t].todo
      BY <1>m, <1>1, <1>3, <1>7, <1>g, GoesOn
    <2>2. thread[t].op = "apply" => Exact(c)'
      BY <1>m, <1>1, <1>2, <1>g DEF CopyingOK, Exact, OwnSteps
    <2>3. Own(thread'[t]) /\ CopyingOK(thread[t])'
      BY <1>1, <1>2, <1>3, <2>1, <2>2 DEF Own, CopyingOK
    <2> QED
      BY <1>m, <1>g, <2>3, UndoQuiet
  <1>13. CASE CutManifest(t) \/ WriteManifest(t)
    <2>1. Goto(t, "manifest") \/ Goto(t, "live") \/ Goto(t, "check")
      BY <1>13 DEF CutManifest, WriteManifest
    <2> QED
      BY <1>13, <1>g, <2>1 DEF CutManifest, WriteManifest, At
  <1>p. ASSUME PutBack(t, n, n, {}), UNCHANGED <<backup, meta>>, Exact(c) PROVE UndoInv'
    <2>1. PICK r \in Request :
            /\ thread' = [thread EXCEPT ![t] = r]
            /\ r.pc = "put" /\ r.op = thread[t].op /\ r.id = thread[t].id /\ r.name = n
            /\ r.content = thread[t].content /\ r.list = {n} /\ r.todo = {}
      BY <1>m, <1>p, PutBackFields
    <2>2. files' = [files EXCEPT ![n] = Empty] /\ Empty \in File
      BY <1>m, <1>p, PutBackFields DEF File
    <2>3. thread'[t] = r
      BY <1>m, <2>1, Becomes
    <2>4. Exact(c)'
      BY <1>2, <1>p DEF Exact
    <2>5. Own(thread'[t]) /\ CopyingOK(thread[t])'
      BY <1>1, <1>2, <1>3, <2>1, <2>3, <2>4 DEF Own, CopyingOK
    <2> QED
      BY <1>m, <1>p, <1>w, <2>2, <2>5
  <1>14. CASE Live(t)
    <2>1. CASE Goto(t, "reload") /\ UNCHANGED files
      BY <1>14, <1>g, <2>1 DEF Live, At
    <2>2. CASE End(t, "error") /\ UNCHANGED files
      BY <1>m, <1>14, <2>2, Gone, UndoQuiet DEF Live
    <2>3. Exact(c) /\ UNCHANGED <<backup, meta>>
      BY <1>m, <1>1, <1>2, <1>14 DEF Live, At, CopyingOK, OwnSteps
    <2>4. CASE End(t, "error") /\ files' = [files EXCEPT ![n] = Absent]
      <3>1. Absent \in File
        BY DEF File
      <3> QED
        BY <1>m, <1>w, <2>3, <2>4, <3>1, Gone
    <2>5. CASE PutBack(t, n, n, {})
      BY <1>p, <2>3, <2>5
    <2> QED
      BY <1>3, <1>14, <2>1, <2>2, <2>4, <2>5 DEF Live, Refuse
  <1>15. CASE Reload(t)
    <2>1. PICK answer \in {"ok", "error"} : End(t, answer)
      BY <1>15 DEF Reload, Refuse
    <2> QED
      BY <1>m, <1>15, <2>1, Gone, UndoQuiet DEF Reload, disk
  <1>16. CASE Find(t)
    <2> DEFINE todo == {m \in Names : meta[thread[t].id][m] # "none"}
               r == [thread[t] EXCEPT !.pc = "restore", !.todo = todo]
    <2>1. UNCHANGED <<files, backup, meta>>
      BY <1>16 DEF Find, disk
    <2>2. CASE End(t, "error")
      BY <1>m, <2>1, <2>2, Gone, UndoQuiet
    <2>3. CASE todo # {} /\ thread' = [thread EXCEPT ![t] = r]
      <3>1. todo \subseteq {n} /\ meta[c][n] # "none"
        BY <1>1, <1>2, <1>3, <2>3 DEF CopiesOK
      <3>2. Exact(c)'
        BY <1>2, <1>3, <2>1, <3>1 DEF CopiesOK, Exact, Fresh
      <3>3. /\ r \in Request /\ r.pc = "restore" /\ r.id = c /\ r.name = n
            /\ r.op = thread[t].op /\ r.content = thread[t].content /\ r.todo = todo
        BY <1>r, <1>1, <1>3 DEF Request
      <3> HIDE DEF r, todo
      <3>4. thread'[t] = r
        BY <1>m, <2>3, <3>3, Becomes
      <3>5. Own(thread'[t]) /\ CopyingOK(thread[t])'
        BY <1>1, <1>2, <1>3, <3>1, <3>2, <3>3, <3>4 DEF Own, CopyingOK
      <3> QED
        BY <1>m, <2>1, <3>5, UndoQuiet
    <2> QED
      BY <1>16, <2>2, <2>3 DEF Find, Refuse
  <1>17. CASE Restore(t)
    <2>1. PICK m \in Names : RestoreOne(t, m)
      BY <1>m, <1>17, RestoreFields
    <2>2. m = n /\ thread[t].todo \ {m} = {}
      BY <1>1, <1>2, <1>3, <2>1 DEF RestoreOne, Own
    <2>3. PICK r \in Request :
            /\ thread' = [thread EXCEPT ![t] = r]
            /\ \/ r.pc = "put" /\ r.list = {n} /\ files' = [files EXCEPT ![n] = Empty]
               \/ r.pc = "glob" /\ files' = [files EXCEPT ![n] = Absent]
            /\ r.op = thread[t].op /\ r.id = c /\ r.content = thread[t].content
            /\ r.todo = {} /\ r.name = n
      BY <1>1, <1>3, <2>1, <2>2 DEF RestoreOne, Further
    <2>4. thread'[t] = r
      BY <1>m, <2>3, Becomes
    <2>5. Exact(c) /\ thread[t].op = "rollback"
      BY <1>m, <1>1, <1>2, <1>17 DEF Restore, At, CopyingOK, OwnSteps
    <2>6. PICK x \in File : files' = [files EXCEPT ![n] = x]
      BY <2>3 DEF File
    <2>7. UNCHANGED <<backup, meta>>
      BY <1>17 DEF Restore
    <2>9. Exact(c)'
      BY <1>2, <2>5, <2>7 DEF Exact
    <2>8. Own(thread'[t]) /\ CopyingOK(thread[t])'
      BY <1>1, <1>2, <1>3, <2>3, <2>4, <2>5, <2>9 DEF Own, CopyingOK
    <2> QED
      BY <1>m, <1>w, <2>5, <2>6, <2>7, <2>8
  <1>20. CASE Put(t)
    <2>1. PICK m \in Names : PutOne(t, m)
      BY <1>m, <1>20, PutFields
    <2>2. /\ m = n /\ Exact(c) /\ thread[t].todo = {} /\ UNCHANGED <<backup, meta>>
      BY <1>1, <1>2, <1>3, <1>20, <2>1 DEF Put, PutOne, At, Own, CopyingOK
    <2>3. PICK x \in File : files' = [files EXCEPT ![n] = x]
      <3>1. backup[c][n] \in File
        BY <1>5
      <3> QED
        BY <1>1, <2>1, <2>2, <3>1 DEF PutOne
    <2>4. CASE End(t, "error")
      BY <1>m, <1>w, <2>2, <2>3, <2>4, Gone
    <2>5. CASE thread[t].op # "apply" /\ Goto(t, "glob")
      <3>1. /\ thread'[t].pc = "glob" /\ thread'[t].id = c /\ thread'[t].name = n
            /\ thread'[t].op = thread[t].op
            /\ thread'[t].content = thread[t].content /\ thread'[t].todo = thread[t].todo
        BY <1>m, <1>1, <1>3, <1>7, <2>5, GoesOn
      <3>2. Own(thread'[t]) /\ CopyingOK(thread[t])'
        BY <1>1, <1>2, <1>3, <2>5, <3>1 DEF Own, CopyingOK
      <3> QED
        BY <1>m, <1>w, <2>2, <2>3, <3>2
    <2> QED
      BY <2>1, <2>2, <2>4, <2>5 DEF PutOne, Further
  <1>18. CASE Check(t)
    <2>1. CASE Goto(t, "reload")
      BY <1>18, <1>g, <2>1 DEF Check, At, disk
    <2>2. CASE End(t, "error")
      BY <1>m, <1>18, <2>2, Gone, UndoQuiet DEF Check, disk
    <2> QED
      BY <1>18, <2>1, <2>2 DEF Check, Refuse
  <1> QED
    BY <1>8, <1>9, <1>10, <1>11, <1>12, <1>13, <1>14, <1>15, <1>16, <1>17, <1>18,
       <1>19, <1>20 DEF Serve

\* A step of the engine: it changes the record of one change.
EngineStep(c) ==
  /\ UNCHANGED <<disk, edits>>
  /\ \A d \in Changes \ {c} : pre'[d] = pre[d] /\ status'[d] = status[d]
  /\ status'[c] # "approved"
  /\ pre'[c] = IF status[c] = "approved" THEN files[Name(c)] ELSE pre[c]

LEMMA EngineCopies ==
  ASSUME Settings, TypeOK, TypeOK', UndoInv, edits = 0, NEW c \in Changes, EngineStep(c)
  PROVE  /\ \A d \in Changes : CopiesOK(d)'
         /\ \A r \in Request : Own(r) /\ CopyingOK(r) => Own(r)' /\ CopyingOK(r)'
  <1>0. files' = files /\ backup' = backup /\ meta' = meta
    BY DEF EngineStep, disk
  <1>1. \A d \in Changes \ {c} : Same(d)
    BY <1>0 DEF EngineStep, Same
  <1>2. CASE status[c] = "approved"
    <2>1. CopiesOK(c)'
      BY <1>0, <1>2 DEF EngineStep, UndoInv, CopiesOK, Fresh, Name
    <2> QED
      <3>1. ASSUME NEW d \in Changes PROVE CopiesOK(d)'
        BY <1>1, <2>1, SameCopies DEF UndoInv
      <3>2. ASSUME NEW r \in Request, Own(r), CopyingOK(r) PROVE Own(r)' /\ CopyingOK(r)'
        <4>1. r.id \in Changes /\ r.id # c
          BY <1>2, <3>2 DEF Own, Request
        <4>2. Same(r.id) /\ (Exact(r.id)' <=> Exact(r.id)) /\ (Fresh(r.id)' <=> Fresh(r.id))
          BY <1>1, <4>1, SameCopies
        <4> QED
          BY <3>2, <4>2 DEF Own, CopyingOK, Same, Name
      <3> QED
        BY <3>1, <3>2
  <1>3. CASE status[c] # "approved"
    <2>1. pre' = pre
      <3>1. \A d \in Changes : pre'[d] = pre[d]
        BY <1>3 DEF EngineStep
      <3> QED
        BY <3>1 DEF TypeOK
    <2>2. \A d \in Changes : (Exact(d)' <=> Exact(d)) /\ (Fresh(d)' <=> Fresh(d))
      BY <1>0, <2>1 DEF Exact, Fresh
    <2>3. \A d \in Changes : (status'[d] = "approved") <=> (status[d] = "approved")
      BY <1>3 DEF EngineStep
    <2>4. ASSUME NEW d \in Changes PROVE CopiesOK(d)'
      BY <1>0, <2>2, <2>3 DEF UndoInv, CopiesOK
    <2>5. ASSUME NEW r \in Request, Own(r), CopyingOK(r) PROVE Own(r)' /\ CopyingOK(r)'
      BY <1>0, <2>1, <2>2, <2>3, <2>5 DEF Own, CopyingOK, Request, Name
    <2> QED
      BY <2>4, <2>5
  <1> QED
    BY <1>2, <1>3

\* No thread takes anything up.
LEMMA UndoSettle ==
  ASSUME Settings, TypeOK, TypeOK', UndoInv, edits = 0, NEW c \in Changes, EngineStep(c),
         \A u \in Threads : Active(thread'[u]) => thread'[u] = thread[u]
  PROVE  UndoInv'
  <1>1. ASSUME NEW u \in Threads, Active(thread'[u])
        PROVE  Own(thread[u])' /\ CopyingOK(thread[u])'
    <2>1. PICK r \in Request : r = thread[u] /\ r = thread'[u]
      BY <1>1 DEF TypeOK
    <2>2. Own(r)' /\ CopyingOK(r)'
      BY <1>1, <2>1, EngineCopies DEF UndoInv
    <2> QED
      BY <2>1, <2>2 DEF Own, CopyingOK
  <1>2. \A d \in Changes : CopiesOK(d)'
    BY EngineCopies
  <1> QED
    BY <1>1, <1>2 DEF UndoInv

\* An idle thread takes up a request about c.
LEMMA UndoSend ==
  ASSUME Settings, TypeOK, TypeOK', UndoInv, edits = 0, NEW c \in Changes, EngineStep(c),
         NEW t \in Threads, NEW req \in Request, NEW next, Send(c, t, req, next), req.id = c,
         Own(req)', CopyingOK(req)', req.op = "apply" => status[c] = "approved"
  PROVE  UndoInv'
  <1>1. thread'[t] = req /\ \A u \in Threads \ {t} : thread'[u] = thread[u]
    BY DEF Send, TypeOK
  <1>2. ASSUME NEW u \in Threads, Active(thread'[u])
        PROVE  Own(thread[u])' /\ CopyingOK(thread[u])'
    <2>1. CASE u = t
      BY <1>1, <2>1 DEF Own, CopyingOK
    <2>2. CASE u # t
      <3>1. PICK r \in Request : r = thread[u] /\ r = thread'[u]
        BY <1>1, <2>2 DEF TypeOK
      <3>2. Own(r)' /\ CopyingOK(r)'
        BY <1>2, <3>1, EngineCopies DEF UndoInv
      <3> QED
        BY <3>1, <3>2 DEF Own, CopyingOK
    <2> QED
      BY <2>1, <2>2
  <1>3. \A d \in Changes : CopiesOK(d)'
    BY EngineCopies
  <1>4. \A u \in Threads \ {t} :
          Active(thread'[u]) /\ thread'[u].op = "apply" /\ thread'[u].id = c => req.op # "apply"
    BY <1>1 DEF UndoInv, Own
  <1>5. ASSUME NEW u \in Threads, NEW v \in Threads,
               Active(thread'[u]), thread'[u].op = "apply",
               Active(thread'[v]), thread'[v].op = "apply", thread'[u].id = thread'[v].id
        PROVE  u = v
    BY <1>1, <1>4, <1>5 DEF UndoInv
  <1> QED
    BY <1>2, <1>3, <1>5 DEF UndoInv

LEMMA UndoInit == Settings /\ Init => UndoInv
  <1> SUFFICES ASSUME Settings, Init PROVE UndoInv
    OBVIOUS
  <1>1. \A t \in Threads : ~Active(thread[t])
    BY EndedType DEF Init, Active
  <1>2. \A c \in Changes : CopiesOK(c)
    BY TargetType DEF Init, CopiesOK, Name
  <1> QED
    BY <1>1, <1>2 DEF UndoInv

LEMMA UndoNext ==
  ASSUME Settings, Distinct, Calls, UndoInv, [Next]_vars
  PROVE  UndoInv'
  <1> SUFFICES ASSUME edits' = 0 PROVE UndoInv'
    BY DEF UndoInv
  <1>t. TypeOK /\ TypeOK'
    BY TypeNext DEF Calls
  <1>0. edits = 0 /\ ~Edit
    <2>1. edits \in Nat
      BY <1>t DEF TypeOK, Settings, ConstantsOK
    <2>2. edits' = edits \/ edits' = edits + 1
      BY DEF Next, Serve, Test, Backup, Meta, CutInclude, Write, Glob, CutManifest,
         WriteManifest, Live, Reload, Find, Restore, Put, Check, Apply, RollBack, Lose, Unreached, Engine, Answer, Verify, Confirm,
         Edit, Reboot, vars, bounds
    <2>3. Edit => edits' = edits + 1
      BY DEF Edit
    <2> QED
      BY <2>1, <2>2, <2>3
  <1>1. ASSUME NEW t \in Threads, Serve(t) PROVE UndoInv'
    BY <1>0, <1>1, UndoServe
  <1>2. ASSUME NEW c \in Changes, Apply(c) PROVE UndoInv'
    <2> DEFINE req == ApplyReq(c, Target[c].name, Target[c].content)
    <2>1. PICK t \in Threads : Send(c, t, req, "apply")
      BY <1>2 DEF Apply
    <2>2. EngineStep(c) /\ status[c] = "approved"
      BY <1>0, <1>2, <1>t DEF Apply, EngineStep, TypeOK, Name, bounds
    <2>3. /\ req \in Request /\ req.pc = "test" /\ req.op = "apply" /\ req.id = c
          /\ req.name = Name(c) /\ req.content = Target[c].content /\ req.todo = {}
      BY TargetType, RequestType, RequestFields DEF Name
    <2> HIDE DEF req
    <2>4. Own(req)'
      BY <2>2, <2>3 DEF Own, EngineStep, Name
    <2>5. CopyingOK(req)'
      <3>1. CopiesOK(c)
        BY <1>0 DEF UndoInv
      <3>2. Fresh(c)' /\ backup'[c][Name(c)] = Absent
        BY <2>2, <3>1 DEF EngineStep, CopiesOK, Fresh, Name, disk
      <3> QED
        BY <2>3, <3>2 DEF CopyingOK, Name
    <2> QED
      BY <1>0, <1>t, <2>1, <2>2, <2>3, <2>4, <2>5, UndoSend
  <1>s. ASSUME NEW c \in Changes, NEW t \in Threads, NEW next, Send(c, t, RollbackReq(c), next),
               EngineStep(c)
        PROVE  UndoInv'
    <2> DEFINE req == RollbackReq(c)
    <2>1. /\ req \in Request /\ req.pc = "find" /\ req.op = "rollback" /\ req.id = c
          /\ req.name = Name(c) /\ req.content = Target[c].content /\ req.todo = {}
      BY TargetType, RequestType, RequestFields DEF Name
    <2>2. Send(c, t, req, next)
      BY <1>s
    <2> HIDE DEF req
    <2>3. Own(req)' /\ CopyingOK(req)'
      BY <1>s, <2>1 DEF Own, CopyingOK, EngineStep, Name
    <2> QED
      BY <1>0, <1>t, <1>s, <2>1, <2>2, <2>3, UndoSend
  <1>3. ASSUME NEW c \in Changes, RollBack(c) PROVE UndoInv'
    <2>1. PICK t \in Threads : Send(c, t, RollbackReq(c), "back")
      BY <1>3 DEF RollBack
    <2>2. EngineStep(c)
      BY <1>3 DEF RollBack, EngineStep, bounds
    <2> QED
      BY <1>s, <2>1, <2>2
  <1>4. ASSUME NEW c \in Changes, Lose(c) PROVE UndoInv'
    <2>1. /\ call[c] \in Threads /\ Settle(c, "failed")
      BY <1>t, <1>4, LoseGoes
    <2>2. status[c] # "approved"
      BY <1>4 DEF Lose, Calls, CallsOK, TypeOK
    <2>3. EngineStep(c)
      BY <1>t, <1>4, <2>1, <2>2, SettleFields DEF Lose, EngineStep
    <2>4. ASSUME NEW u \in Threads, Active(thread'[u]) PROVE thread'[u] = thread[u]
      BY <1>t, <1>4, <2>1, <2>4 DEF Lose, TypeOK, Request, Active
    <2> QED
      BY <1>0, <1>t, <2>3, <2>4, UndoSettle
  <1>5. ASSUME NEW c \in Changes, Unreached(c) PROVE UndoInv'
    <2>1. Settle(c, "failed") /\ thread' = thread /\ UNCHANGED <<disk, edits>>
      BY <1>5 DEF Unreached
    <2>2. pre'[c] = IF status[c] = "approved" THEN files[Name(c)] ELSE pre[c]
      BY <1>t, <1>5 DEF Unreached, TypeOK, Calls, CallsOK, Name
    <2>3. \A d \in Changes \ {c} : pre'[d] = pre[d]
      BY <1>t, <1>5 DEF Unreached, TypeOK
    <2>4. EngineStep(c)
      BY <1>t, <2>1, <2>2, <2>3, SettleFields DEF EngineStep
    <2> QED
      BY <1>0, <1>t, <2>1, <2>4, UndoSettle
  <1>6. ASSUME NEW c \in Changes, Answer(c) PROVE UndoInv'
    <2>1. status[c] # "approved" /\ call[c] \in Threads /\ Goto(call[c], "idle")
      BY <1>t, <1>6, ZenonT(30) DEF Answer, Calls, CallsOK, TypeOK
    <2>2. Settle(c, "failed") \/ status' = status
      BY <1>6 DEF Answer
    <2>3. EngineStep(c)
      BY <1>t, <1>6, <2>1, <2>2, SettleFields DEF Answer, EngineStep, bounds
    <2>4. \A u \in Threads : IF u = call[c] THEN thread'[u].pc = "idle" ELSE thread'[u] = thread[u]
      BY <1>t, <2>1 DEF Goto, TypeOK, Request
    <2>5. ASSUME NEW u \in Threads, Active(thread'[u]) PROVE thread'[u] = thread[u]
      BY <2>4, <2>5 DEF Active
    <2> QED
      BY <1>0, <1>t, <2>3, <2>5, UndoSettle
  <1>7. ASSUME NEW c \in Changes, Verify(c) PROVE UndoInv'
    <2>1. status[c] # "approved"
      BY <1>7 DEF Verify, Calls, CallsOK
    <2>2. CASE Settle(c, "applied") /\ UNCHANGED thread
      <3>1. EngineStep(c)
        BY <1>t, <1>7, <2>1, <2>2, SettleFields DEF Verify, EngineStep
      <3> QED
        BY <1>0, <1>t, <2>2, <3>1, UndoSettle
    <2>3. ASSUME NEW t \in Threads, Send(c, t, RollbackReq(c), "undo"), UNCHANGED status
          PROVE  UndoInv'
      <3>1. EngineStep(c)
        BY <1>7, <2>1, <2>3 DEF Verify, EngineStep
      <3> QED
        BY <1>s, <2>3, <3>1
    <2> QED
      BY <1>7, <2>2, <2>3 DEF Verify
  <1>8. ASSUME NEW c \in Changes, Confirm(c) PROVE UndoInv'
    <2>1. PICK result \in {"rolled_back", "failed"} : Settle(c, result)
      BY <1>8 DEF Confirm
    <2>2. status[c] # "approved"
      BY <1>8 DEF Confirm, Calls, CallsOK
    <2>3. EngineStep(c) /\ thread' = thread
      BY <1>t, <1>8, <2>1, <2>2, SettleFields DEF Confirm, EngineStep
    <2> QED
      BY <1>0, <1>t, <2>3, UndoSettle
  <1>9. CASE Reboot
    <2>1. \A u \in Threads : ~Active(thread'[u])
      BY <1>9, EndedType DEF Reboot, Active
    <2>2. \A d \in Changes : Same(d)
      BY <1>9 DEF Reboot, disk, engine, Same
    <2>3. ASSUME NEW d \in Changes PROVE CopiesOK(d)'
      BY <1>0, <2>2, SameCopies DEF UndoInv
    <2> QED
      BY <2>1, <2>3 DEF UndoInv
  <1>10. CASE UNCHANGED vars
    <2>1. \A d \in Changes : Same(d)
      BY <1>10 DEF vars, disk, engine, Same
    <2>2. ASSUME NEW d \in Changes PROVE CopiesOK(d)'
      BY <1>0, <2>1, SameCopies DEF UndoInv
    <2>3. ASSUME NEW u \in Threads, Active(thread[u]) PROVE Own(thread[u])' /\ CopyingOK(thread[u])'
      BY <1>0, <1>10, <2>3 DEF vars, disk, engine, UndoInv, Own, CopyingOK, Exact, Fresh, Name
    <2> QED
      BY <1>0, <1>10, <2>2, <2>3 DEF vars, UndoInv
  <1> QED
    BY <1>0, <1>1, <1>2, <1>3, <1>4, <1>5, <1>6, <1>7, <1>8, <1>9, <1>10 DEF Next, Engine

LEMMA UndoAlways ==
  ASSUME Settings, Distinct PROVE Spec => []UndoInv
  <1>1. Calls /\ UndoInv /\ [Next]_vars => UndoInv'
    BY UndoNext
  <1> QED
    BY <1>1, UndoInit, CallsAlways, PTL DEF Spec

\* Whatever interleaves, is lost, times out or reboots: while nobody edits the
\* includes of the changes by hand, an include that a change has written can
\* be put back exactly, or is known not to have been there (dhcp_ops.apply_change).
THEOREM UndoStaysExact ==
  ASSUME Settings, Distinct PROVE Spec => [](edits = 0 => UndoIsExact)
  <1>1. TypeOK /\ UndoInv /\ edits = 0 => UndoIsExact
    BY DEF UndoInv, UndoIsExact, CopiesOK, Exact, Fresh, Name
  <1> QED
    BY <1>1, UndoAlways, TypeCorrect, PTL

-----------------------------------------------------------------------------
(* The manifest, when requests do not overlap                              *)

\* With thread t at work and all others idle, the invariant is about t.
LEMMA ManifestFrame ==
  ASSUME NEW t \in Threads, \A u \in Threads \ {t} : thread'[u].pc = "idle",
         ListingOK(thread[t])',
         reboots' = 0 /\ thread'[t].pc \notin Making => manifest' = Present(files)'
  PROVE  ManifestInv'
  <1>1. ASSUME NEW u \in Threads PROVE ListingOK(thread[u])'
    <2>1. CASE u = t
      BY <2>1
    <2>2. CASE u # t
      BY <2>2 DEF ListingOK
    <2> QED
      BY <2>1, <2>2
  <1> QED
    BY <1>1 DEF ManifestInv, Making

\* A step that writes neither files nor manifest, and does not leave the
\* steps between the two.
LEMMA ManifestQuiet ==
  ASSUME ManifestInv, NEW t \in Threads, \A u \in Threads \ {t} : thread'[u].pc = "idle",
         \A u \in Threads \ {t} : thread[u].pc = "idle", thread[t].pc \notin Making,
         UNCHANGED <<files, manifest, reboots>>, ListingOK(thread[t])'
  PROVE  ManifestInv'
  <1>1. reboots' = 0 => manifest' = Present(files)'
    <2>1. \A u \in Threads : thread[u].pc \notin Making
      BY DEF Making
    <2>2. Present(files)' = Present(files)
      BY DEF Present
    <2> QED
      BY <2>1, <2>2 DEF ManifestInv
  <1> QED
    BY <1>1, ManifestFrame

LEMMA ManifestServe ==
  ASSUME Settings, Calls, Serial, ManifestInv, NEW t \in Threads, Serve(t)
  PROVE  ManifestInv'
  <1>m. TypeOK /\ OwnSteps(thread[t]) /\ Moves(t)
    BY ServeMoves DEF Calls, CallsOK
  <1>r. /\ thread[t] \in Request /\ thread[t].name \in Names
        /\ thread[t].op \in {"apply", "rollback"} /\ files \in Tree
    BY <1>m DEF TypeOK, Request
  <1>i. /\ \A u \in Threads \ {t} : thread[u].pc = "idle" /\ thread'[u].pc = "idle"
        /\ reboots' = reboots
    BY <1>m DEF Moves, Active, Serial, At
  <1>l. ListingOK(thread[t])
    BY DEF ManifestInv
  <1>e. ASSUME ~Active(thread'[t]) PROVE ListingOK(thread[t])'
    BY <1>e DEF ListingOK, Active
  <1>s. \A pc \in {"backup", "write", "fill", "glob", "manifest", "live", "check", "reload", "restore"} :
          pc \in Steps
    BY DEF Steps
  <1>g. ASSUME NEW pc \in Steps, Goto(t, pc)
        PROVE  /\ thread'[t].pc = pc /\ thread'[t].op = thread[t].op
               /\ thread'[t].name = thread[t].name /\ thread'[t].content = thread[t].content
               /\ thread'[t].list = thread[t].list
    BY <1>m, <1>g, GoesOn
  <1>1. CASE Test(t)
    <2>0. UNCHANGED <<files, manifest>> /\ thread[t].pc \notin Making
      BY <1>1 DEF Test, At, disk, Making
    <2>1. CASE Passes(t) /\ Goto(t, "backup")
      <3>1. ListingOK(thread[t])'
        BY <1>g, <1>s, <2>0, <2>1 DEF ListingOK, Passes
      <3> QED
        BY <1>i, <2>0, <3>1, ManifestQuiet
    <2>2. CASE End(t, "error")
      BY <1>e, <1>i, <1>m, <2>0, <2>2, Gone, ManifestQuiet
    <2> QED
      BY <1>1, <2>1, <2>2 DEF Test, Refuse
  <1>2. CASE Backup(t)
    <2> DEFINE r == [thread[t] EXCEPT !.pc = "meta", !.found = files[thread[t].name] # Absent]
    <2>1. /\ r \in Request /\ r.pc = "meta" /\ r.op = thread[t].op
          /\ r.name = thread[t].name /\ r.content = thread[t].content
      BY <1>r DEF Request
    <2>2. thread' = [thread EXCEPT ![t] = r]
      BY <1>2 DEF Backup
    <2> HIDE DEF r
    <2>3. thread'[t] = r
      BY <1>m, <2>1, <2>2, Becomes
    <2>4. UNCHANGED <<files, manifest>> /\ thread[t].pc = "backup"
      BY <1>2 DEF Backup, At
    <2>5. ListingOK(thread[t])'
      BY <1>l, <2>1, <2>3, <2>4 DEF ListingOK
    <2> QED
      BY <1>i, <2>4, <2>5, ManifestQuiet DEF Making
  <1>3. CASE Meta(t)
    <2>1. UNCHANGED <<files, manifest>> /\ thread[t].pc = "meta" /\ Goto(t, "write")
      BY <1>3 DEF Meta, At
    <2>2. ListingOK(thread[t])'
      BY <1>l, <1>g, <1>s, <2>1 DEF ListingOK
    <2> QED
      BY <1>i, <2>1, <2>2, ManifestQuiet DEF Making
  <1>12. CASE CutInclude(t)
    <2>1. /\ files' = [files EXCEPT ![thread[t].name] = Empty]
          /\ thread[t].pc = "write" /\ Goto(t, "fill")
      BY <1>12 DEF CutInclude, At
    <2>2. [files' EXCEPT ![thread[t].name] = thread[t].content]
            = [files EXCEPT ![thread[t].name] = thread[t].content]
      BY <1>r, <2>1 DEF Tree
    <2>3. ListingOK(thread[t])'
      BY <1>l, <1>g, <1>s, <2>1, <2>2 DEF ListingOK
    <2>4. thread'[t].pc \in Making
      BY <1>g, <1>s, <2>1 DEF Making
    <2> QED
      BY <1>i, <2>3, <2>4, ManifestFrame
  <1>4. CASE Write(t)
    <2>1. /\ files' = [files EXCEPT ![thread[t].name] = thread[t].content]
          /\ thread[t].pc = "fill" /\ Goto(t, "glob")
      BY <1>4 DEF Write, At
    <2>2. [files' EXCEPT ![thread[t].name] = thread[t].content]
            = [files EXCEPT ![thread[t].name] = thread[t].content]
      BY <1>r, <2>1 DEF Tree
    <2>3. ListingOK(thread[t])'
      BY <1>l, <1>g, <1>s, <2>1, <2>2 DEF ListingOK
    <2>4. thread'[t].pc \in Making
      BY <1>g, <1>s, <2>1 DEF Making
    <2> QED
      BY <1>i, <2>3, <2>4, ManifestFrame
  <1>5. CASE Glob(t)
    <2> DEFINE r == [thread[t] EXCEPT !.pc = "cut", !.list = Present(files)]
    <2>1. /\ r \in Request /\ r.pc = "cut" /\ r.op = thread[t].op
          /\ r.name = thread[t].name /\ r.content = thread[t].content /\ r.list = Present(files)
      BY <1>r DEF Request, Present
    <2>2. thread' = [thread EXCEPT ![t] = r]
      BY <1>5 DEF Glob
    <2> HIDE DEF r
    <2>3. thread'[t] = r
      BY <1>m, <2>1, <2>2, Becomes
    <2>4. files' = files /\ thread[t].pc = "glob"
      BY <1>5 DEF Glob, At, disk
    <2>5. Present(files)' = Present(files)
      BY <2>4 DEF Present
    <2>6. ListingOK(thread[t])'
      BY <1>l, <2>1, <2>3, <2>4, <2>5 DEF ListingOK
    <2> QED
      BY <1>i, <2>1, <2>3, <2>6, ManifestFrame DEF Making
  <1>13. CASE CutManifest(t)
    <2>1. files' = files /\ thread[t].pc = "cut" /\ Goto(t, "manifest")
      BY <1>13 DEF CutManifest, At
    <2>2. Present(files)' = Present(files)
      BY <2>1 DEF Present
    <2>3. ListingOK(thread[t])'
      BY <1>l, <1>g, <1>s, <2>1, <2>2 DEF ListingOK
    <2>4. thread'[t].pc \in Making
      BY <1>g, <1>s, <2>1 DEF Making
    <2> QED
      BY <1>i, <2>3, <2>4, ManifestFrame
  <1>6. CASE WriteManifest(t)
    <2>1. /\ manifest' = thread[t].list /\ files' = files /\ thread[t].pc = "manifest"
          /\ Goto(t, IF thread[t].op = "apply" THEN "live" ELSE "check")
      BY <1>6 DEF WriteManifest, At
    <2>2. Present(files)' = Present(files)
      BY <2>1 DEF Present
    <2>3. ListingOK(thread[t])'
      BY <1>l, <1>g, <1>s, <2>1 DEF ListingOK
    <2>4. manifest' = Present(files)'
      BY <1>l, <2>1, <2>2 DEF ListingOK
    <2> QED
      BY <1>i, <2>3, <2>4, ManifestFrame
  <1>7. CASE Live(t)
    <2>0. thread[t].pc = "live" /\ thread[t].op = "apply"
      BY <1>7, <1>m DEF Live, At, OwnSteps
    <2>1. Passes(t)
      BY <1>l, <2>0 DEF ListingOK, Passes
    <2>2. UNCHANGED <<files, manifest>>
      BY <1>7, <2>1 DEF Live
    <2>3. CASE Goto(t, "reload")
      <3>1. ListingOK(thread[t])'
        BY <1>g, <1>s, <2>3 DEF ListingOK
      <3> QED
        BY <1>i, <2>0, <2>2, <3>1, ManifestQuiet DEF Making
    <2>4. CASE End(t, "error")
      BY <1>e, <1>i, <1>m, <2>0, <2>2, <2>4, Gone, ManifestQuiet DEF Making
    <2> QED
      BY <1>7, <2>1, <2>3, <2>4 DEF Live, Refuse
  <1>8. CASE Reload(t)
    <2>0. UNCHANGED <<files, manifest>> /\ thread[t].pc = "reload"
      BY <1>8 DEF Reload, At, disk
    <2>1. PICK answer \in {"ok", "error"} : End(t, answer)
      BY <1>8 DEF Reload, Refuse
    <2> QED
      BY <1>e, <1>i, <1>m, <2>0, <2>1, Gone, ManifestQuiet DEF Making
  <1>9. CASE Find(t)
    <2> DEFINE todo == {n \in Names : meta[thread[t].id][n] # "none"}
               r == [thread[t] EXCEPT !.pc = "restore", !.todo = todo]
    <2>0. UNCHANGED <<files, manifest>> /\ thread[t].pc = "find"
      BY <1>9 DEF Find, At, disk
    <2>1. /\ r \in Request /\ r.pc = "restore"
      BY <1>r DEF Request
    <2>2. thread' = [thread EXCEPT ![t] = r] \/ End(t, "error")
      BY <1>9 DEF Find, Refuse
    <2> HIDE DEF r
    <2>3. CASE thread' = [thread EXCEPT ![t] = r]
      <3>1. thread'[t] = r
        BY <1>m, <2>1, <2>3, Becomes
      <3>2. ListingOK(thread[t])'
        BY <2>1, <3>1 DEF ListingOK
      <3> QED
        BY <1>i, <2>0, <3>2, ManifestQuiet DEF Making
    <2>4. CASE End(t, "error")
      BY <1>e, <1>i, <1>m, <2>0, <2>4, Gone, ManifestQuiet DEF Making
    <2> QED
      BY <2>2, <2>3, <2>4
  <1>10. CASE Restore(t)
    <2>1. PICK n \in Names : RestoreOne(t, n)
      BY <1>m, <1>10, RestoreFields
    <2>2. PICK r \in Request :
            /\ thread' = [thread EXCEPT ![t] = r] /\ r.op = thread[t].op
            /\ r.pc \in {"put", "glob", "restore"}
      BY <2>1 DEF RestoreOne, Further
    <2>3. thread'[t] = r
      BY <1>m, <2>2, Becomes
    <2>4. thread[t].op = "rollback"
      BY <1>m, <1>10 DEF Restore, At, OwnSteps
    <2>5. ListingOK(thread[t])'
      BY <2>2, <2>3, <2>4 DEF ListingOK
    <2> QED
      BY <1>i, <2>2, <2>3, <2>5, ManifestFrame DEF Making
  <1>14. CASE Put(t)
    <2>0. thread[t].pc = "put" /\ thread[t].op = "rollback"
      BY <1>14, <1>l DEF Put, At, ListingOK
    <2>1. PICK pc \in {"glob", "restore"} : Goto(t, pc)
      BY <1>m, <1>14, <2>0, PutFields DEF PutOne
    <2>2. thread'[t].pc = pc /\ thread'[t].op = "rollback"
      BY <1>g, <1>s, <2>0, <2>1
    <2>3. ListingOK(thread[t])' /\ thread'[t].pc \in Making
      BY <2>2 DEF ListingOK, Making
    <2> QED
      BY <1>i, <2>3, ManifestFrame
  <1>11. CASE Check(t)
    <2>0. UNCHANGED <<files, manifest>> /\ thread[t].pc = "check"
      BY <1>11 DEF Check, At, disk
    <2>1. CASE Goto(t, "reload")
      <3>1. ListingOK(thread[t])'
        BY <1>g, <1>s, <2>1 DEF ListingOK
      <3> QED
        BY <1>i, <2>0, <3>1, ManifestQuiet DEF Making
    <2>2. CASE End(t, "error")
      BY <1>e, <1>i, <1>m, <2>0, <2>2, Gone, ManifestQuiet DEF Making
    <2> QED
      BY <1>11, <2>1, <2>2 DEF Check, Refuse
  <1> QED
    BY <1>1, <1>2, <1>3, <1>4, <1>5, <1>6, <1>7, <1>8, <1>9, <1>10, <1>11, <1>12,
       <1>13, <1>14 DEF Serve

\* A step of the engine or of a user: a thread stays, gets idle, or, all
\* others being idle, takes up a request.
Handed ==
  /\ \A u \in Threads : thread'[u].pc \in {"idle", "test", "find"} \/ thread'[u] = thread[u]
  /\ (\E u \in Threads : thread[u].pc \in Making) =>
       \E u \in Threads : thread'[u].pc \in Making

LEMMA ManifestHanded ==
  ASSUME ManifestInv, Handed, UNCHANGED <<files, manifest, reboots>>
  PROVE  ManifestInv'
  <1>1. Present(files)' = Present(files)
    BY DEF Present
  <1>2. ASSUME NEW u \in Threads PROVE ListingOK(thread[u])'
    BY <1>1 DEF Handed, ManifestInv, ListingOK
  <1> QED
    BY <1>1, <1>2 DEF Handed, ManifestInv, Making

LEMMA HandedSend ==
  ASSUME TypeOK, Serial', NEW t \in Threads, At(t, "idle"), NEW req \in Request,
         req.pc \in {"test", "find"}, thread' = [thread EXCEPT ![t] = req]
  PROVE  Handed /\ Quiet /\ thread'[t] = req /\ \A u \in Threads \ {t} : thread'[u] = thread[u]
  <1>1. thread'[t] = req /\ \A u \in Threads \ {t} : thread'[u] = thread[u]
    BY Becomes
  <1>2. \A u \in Threads : thread[u].pc = "idle"
    BY <1>1 DEF Serial, At
  <1> QED
    BY <1>1, <1>2 DEF Handed, Making, Quiet, At

LEMMA HandedDrop ==
  ASSUME TypeOK, NEW t \in Threads, Goto(t, "idle"), thread[t].pc \in {"ok", "error"}
  PROVE  Handed /\ thread'[t].pc = "idle" /\ \A u \in Threads \ {t} : thread'[u] = thread[u]
  <1>1. thread'[t].pc = "idle" /\ \A u \in Threads \ {t} : thread'[u] = thread[u]
    BY DEF Goto, TypeOK, Request
  <1> QED
    BY <1>1 DEF Handed, Making

\* After a lost call its thread goes on, or has no one to answer to.
LEMMA HandedLose ==
  ASSUME TypeOK, NEW c \in Changes, Lose(c)
  PROVE  /\ Handed
         /\ \A u \in Threads : thread'[u].pc = "idle" \/ thread'[u] = thread[u]
  <1>1. call[c] \in Threads /\ thread[call[c]] \in Request
    BY DEF Lose, TypeOK
  <1>2. CASE thread[call[c]].pc \in {"ok", "error"}
    <2>1. Goto(call[c], "idle")
      BY <1>1, <1>2 DEF Lose, Goto, TypeOK
    <2> QED
      BY <1>1, <1>2, <2>1, HandedDrop
  <1>3. CASE thread[call[c]].pc \notin {"ok", "error"}
    <2> DEFINE r == [thread[call[c]] EXCEPT !.pc = thread[call[c]].pc]
    <2>1. r = thread[call[c]]
      BY <1>1 DEF Request
    <2>2. thread' = [thread EXCEPT ![call[c]] = r]
      BY <1>1, <1>3 DEF Lose, TypeOK
    <2> HIDE DEF r
    <2>3. \A u \in Threads : thread'[u] = thread[u]
      BY <1>1, <2>1, <2>2 DEF TypeOK
    <2> QED
      BY <2>3 DEF Handed
  <1> QED
    BY <1>2, <1>3

LEMMA ManifestInit == Settings /\ Init => ManifestInv
  <1> SUFFICES ASSUME Settings, Init PROVE ManifestInv
    OBVIOUS
  <1>1. \A t \in Threads : thread[t].pc = "idle"
    BY EndedType DEF Init
  <1> QED
    BY <1>1 DEF Init, ManifestInv, ListingOK, Making

LEMMA ManifestNext ==
  ASSUME Settings, Calls, Serial, Serial', ManifestInv, [Next]_vars
  PROVE  ManifestInv'
  <1>t. TypeOK /\ Settings /\ \A c \in Changes : call[c] # NoThread => call[c] \in Threads
    BY DEF Calls, TypeOK
  <1>1. ASSUME NEW t \in Threads, Serve(t) PROVE ManifestInv'
    BY <1>1, ManifestServe
  <1>s. ASSUME NEW c \in Changes, NEW t \in Threads, NEW req \in Request, NEW next,
               req.pc \in {"test", "find"}, Send(c, t, req, next)
        PROVE  Handed
    BY <1>t, <1>s, HandedSend DEF Send
  <1>q. ASSUME NEW c \in Changes
        PROVE  /\ ApplyReq(c, Target[c].name, Target[c].content) \in Request
               /\ ApplyReq(c, Target[c].name, Target[c].content).pc = "test"
               /\ RollbackReq(c) \in Request /\ RollbackReq(c).pc = "find"
    BY TargetType, RequestType, RequestFields
  <1>u. UNCHANGED thread => Handed
    BY DEF Handed
  <1>2. ASSUME NEW c \in Changes, Apply(c) \/ RollBack(c) \/ Verify(c) PROVE ManifestInv'
    <2>1. Handed
      BY <1>2, <1>s, <1>q, <1>u DEF Apply, RollBack, Verify
    <2>2. UNCHANGED <<files, manifest, reboots>>
      BY <1>2 DEF Apply, RollBack, Verify, disk, bounds
    <2> QED
      BY <2>1, <2>2, ManifestHanded
  <1>3. ASSUME NEW c \in Changes, Lose(c) PROVE ManifestInv'
    <2>1. UNCHANGED <<files, manifest, reboots>>
      BY <1>3 DEF Lose, disk
    <2> QED
      BY <1>t, <1>3, <2>1, HandedLose, ManifestHanded
  <1>4. ASSUME NEW c \in Changes, Answer(c) PROVE ManifestInv'
    <2>1. Handed
      BY <1>t, <1>4, HandedDrop DEF Answer
    <2>2. UNCHANGED <<files, manifest, reboots>>
      BY <1>4 DEF Answer, disk, bounds
    <2> QED
      BY <2>1, <2>2, ManifestHanded
  <1>5. ASSUME NEW c \in Changes, Unreached(c) \/ Confirm(c) PROVE ManifestInv'
    <2>1. UNCHANGED <<files, manifest, reboots, thread>>
      BY <1>5 DEF Unreached, Confirm, disk
    <2> QED
      BY <1>u, <2>1, ManifestHanded
  <1>6. CASE Edit
    <2>1. PICK t \in Threads, c \in Changes, n \in Names, x \in Contents :
            At(t, "idle") /\ thread' = [thread EXCEPT ![t] = ApplyReq(c, n, x)]
      BY <1>6 DEF Edit
    <2>2. ApplyReq(c, n, x) \in Request /\ ApplyReq(c, n, x).pc = "test"
      BY RequestType, RequestFields
    <2>3. Handed
      BY <1>t, <2>1, <2>2, HandedSend
    <2> QED
      BY <1>6, <2>3, ManifestHanded DEF Edit, disk
  <1>7. CASE Reboot
    <2>1. \A t \in Threads : thread'[t].pc \in {"idle", "error"}
      BY <1>7, EndedType DEF Reboot
    <2>2. reboots' # 0
      BY <1>t, <1>7 DEF Reboot, TypeOK, Settings, ConstantsOK
    <2>3. \A t \in Threads : ListingOK(thread[t])'
      BY <2>1 DEF ListingOK
    <2> QED
      BY <2>2, <2>3 DEF ManifestInv
  <1>8. CASE UNCHANGED vars
    BY <1>u, <1>8, ManifestHanded DEF vars, disk, bounds
  <1> QED
    BY <1>1, <1>2, <1>3, <1>4, <1>5, <1>6, <1>7, <1>8 DEF Next, Engine

LEMMA ManifestAlways == ASSUME Settings PROVE Spec /\ []Serial => []ManifestInv
  <1>1. Calls /\ Serial /\ Serial' /\ ManifestInv /\ [Next]_vars => ManifestInv'
    BY ManifestNext
  <1> QED
    BY <1>1, ManifestInit, CallsAlways, PTL DEF Spec

\* With one request at a time in the sidecar, however many changes, lost
\* calls, timeouts and edits there are: when no request is under way the
\* manifest names exactly the includes that are there
\* (dhcp_ops.regenerate_includes_manifest).
THEOREM ManifestStaysExact == ASSUME Settings PROVE Spec /\ []Serial => []ManifestExact
  <1>1. ManifestInv => ManifestExact
    BY DEF ManifestInv, ManifestExact, Quiet, At, Making
  <1> QED
    BY <1>1, ManifestAlways, PTL

-----------------------------------------------------------------------------
(* What applied and rolled back changes leave, when requests do not overlap *)

\* Everything that the outcome of change d is read from, except its thread.
Untouched(d) ==
  /\ files'[Name(d)] = files[Name(d)]
  /\ (manifest # Empty => Name(d) \in manifest) /\ files[Name(d)] # Absent =>
       (manifest' # Empty => Name(d) \in manifest')
  /\ call'[d] = call[d] /\ step'[d] = step[d] /\ status'[d] = status[d] /\ pre'[d] = pre[d]

\* Its thread takes up nothing for it, and finds no answer either.
Undisturbed(d) ==
  \A u \in Threads :
    /\ Active(thread'[u]) /\ thread'[u].id = d => Active(thread[u]) /\ thread[u].id = d
    /\ thread'[u].pc = "ok" /\ call[d] = u => thread[u].pc = "ok"

LEMMA OutcomeSame ==
  ASSUME Settings, TypeOK, NEW d \in Changes, Untouched(d), Undisturbed(d), OutcomeOK(d)
  PROVE  OutcomeOK(d)'
  <1>1. Target[d].content # Absent
    BY TargetType DEF Settings, ConstantsOK
  <1>2. InEffect(d) => InEffect(d)'
    BY <1>1 DEF InEffect, Untouched, Name
  <1>3. Restored(d) => Restored(d)'
    BY DEF Restored, Untouched, Name
  <1>4. Left(d) => Left(d)'
    BY DEF Left, Undisturbed
  <1>5. call'[d] # NoThread /\ thread'[call'[d]].pc = "ok" =>
          call[d] # NoThread /\ thread[call[d]].pc = "ok"
    BY DEF Undisturbed, Untouched, TypeOK
  <1> QED
    BY <1>2, <1>3, <1>4, <1>5 DEF OutcomeOK, Untouched

LEMMA OutcomeServe ==
  ASSUME Settings, Distinct, Calls, Serial, UndoInv, ManifestInv, OutcomeInv, edits = 0,
         NEW t \in Threads, Serve(t)
  PROVE  OutcomeInv'
  <1>m. TypeOK /\ OwnSteps(thread[t]) /\ Moves(t)
    BY ServeMoves DEF Calls, CallsOK
  <1>r. /\ thread[t] \in Request /\ thread[t].list \subseteq Names
        /\ thread[t].op \in {"apply", "rollback"} /\ files \in Tree
    BY <1>m DEF TypeOK, Request
  <1>1. PICK c \in Changes : c = thread[t].id
    BY <1>m DEF TypeOK, Request
  <1>2. /\ Active(thread[t]) /\ Own(thread[t]) /\ CopyingOK(thread[t])
        /\ pre' = pre /\ status' = status /\ step' = step /\ call' = call
        /\ WritingOK(thread[t])
    BY <1>m, <1>1 DEF UndoInv, OutcomeInv, Moves, engine
  <1>n. PICK n \in Names : n = Name(c) /\ n = thread[t].name
    BY <1>1, <1>2, TargetType DEF Own, Name
  <1>c. Target[c].content \in Contents /\ Target[c].content # Absent
    BY TargetType DEF Settings, ConstantsOK
  <1>i. \A u \in Threads \ {t} : thread[u].pc = "idle" /\ thread'[u] = thread[u]
    BY <1>m DEF Moves, Active, Serial, At
  <1>l. ListingOK(thread[t])
    BY DEF ManifestInv
  <1>s. \A pc \in {"backup", "write", "fill", "glob", "manifest", "live", "check", "reload", "restore"} :
          pc \in Steps
    BY DEF Steps
  <1>g. ASSUME NEW pc \in Steps, Goto(t, pc)
        PROVE  /\ thread'[t].pc = pc /\ thread'[t].op = thread[t].op
               /\ thread'[t].id = c
    BY <1>m, <1>1, <1>g, GoesOn
  \* What is left to show of a step: that only the include of c is written,
  \* that the manifest keeps what is there, how far thread t has got, and
  \* with what it answers.
  <1>f. ASSUME \A m \in Names \ {n} : files'[m] = files[m],
               \A m \in Names \ {n} :
                 (manifest # Empty => m \in manifest) /\ files[m] # Absent =>
                   (manifest' # Empty => m \in manifest'),
               Active(thread'[t]) => WritingOK(thread[t])',
               thread'[t].pc = "ok" => /\ UNCHANGED <<files, manifest>>
                                       /\ thread[t].pc = "reload"
        PROVE  OutcomeInv'
    <2>1. ASSUME NEW u \in Threads, Active(thread'[u]) PROVE WritingOK(thread[u])'
      BY <1>f, <1>i, <2>1 DEF Active
    <2>2. ASSUME NEW d \in Changes \ {c} PROVE OutcomeOK(d)'
      <3>1. Name(d) \in Names \ {n}
        BY <1>n, TargetType DEF Name, Distinct
      <3>2. Untouched(d)
        BY <1>2, <1>f, <3>1 DEF Untouched
      <3>3. call[d] # t
        BY <1>1, <1>2 DEF Calls, CallsOK, Awaited, Active, Settings, ConstantsOK
      <3>4. Undisturbed(d)
        BY <1>1, <1>i, <1>m, <3>3 DEF Undisturbed, Moves
      <3> QED
        BY <1>m, <3>2, <3>4, OutcomeSame DEF OutcomeInv
    <2>3. OutcomeOK(c)'
      <3>1. ~Left(c)
        BY <1>1, <1>2 DEF Left
      <3>2. /\ ~(status[c] = "applied" /\ step[c] = "idle") /\ step[c] # "verify"
            /\ status[c] # "rolled_back" /\ step[c] # "confirm"
        BY <3>1 DEF OutcomeInv, OutcomeOK
      <3>3. ASSUME call[c] # NoThread, thread'[call[c]].pc = "ok"
            PROVE  /\ step[c] = "apply" => InEffect(c)'
                   /\ step[c] = "back" => Restored(c)'
        <4>1. call[c] = t
          BY <1>i, <1>m, <3>3 DEF TypeOK
        <4>2. thread[t].pc = "reload" /\ UNCHANGED <<files, manifest>>
          BY <1>f, <3>3, <4>1
        <4>3. thread[t].op = "apply" <=> step[c] = "apply"
          BY <4>1, <4>2, <3>3 DEF Calls, CallsOK, Awaited, Active
        <4>4. (step[c] = "apply" => InEffect(c)) /\ (step[c] = "back" => Restored(c))
          BY <1>1, <1>2, <4>2, <4>3 DEF WritingOK
        <4> QED
          BY <1>2, <4>2, <4>4 DEF InEffect, Restored, Name
      <3> QED
        BY <1>2, <3>2, <3>3 DEF OutcomeOK
    <2>4. \A d \in Changes : OutcomeOK(d)'
      BY <2>2, <2>3
    <2> QED
      BY <2>1, <2>4 DEF OutcomeInv
  <1>3. CASE Test(t)
    <2>1. UNCHANGED <<files, manifest>> /\ thread[t].op = "apply"
      BY <1>3, <1>m DEF Test, At, OwnSteps, disk
    <2>2. CASE Goto(t, "backup")
      BY <1>f, <1>g, <1>s, <2>1, <2>2 DEF WritingOK
    <2>3. CASE End(t, "error")
      BY <1>f, <1>m, <2>1, <2>3, Gone
    <2> QED
      BY <1>3, <2>2, <2>3 DEF Test, Refuse
  <1>4. CASE Backup(t)
    <2> DEFINE r == [thread[t] EXCEPT !.pc = "meta", !.found = files[thread[t].name] # Absent]
    <2>1. /\ r \in Request /\ r.pc = "meta" /\ r.op = thread[t].op
      BY <1>r DEF Request
    <2>2. thread' = [thread EXCEPT ![t] = r]
      BY <1>4 DEF Backup
    <2> HIDE DEF r
    <2>3. thread'[t] = r
      BY <1>m, <2>1, <2>2, Becomes
    <2>4. UNCHANGED <<files, manifest>> /\ thread[t].op = "apply"
      BY <1>4, <1>m DEF Backup, At, OwnSteps
    <2> QED
      BY <1>f, <2>1, <2>3, <2>4 DEF WritingOK
  <1>5. CASE Meta(t)
    <2>1. UNCHANGED <<files, manifest>> /\ Goto(t, "write") /\ thread[t].op = "apply"
      BY <1>5, <1>m DEF Meta, At, OwnSteps
    <2> QED
      BY <1>f, <1>g, <1>s, <2>1 DEF WritingOK
  <1>14. CASE CutInclude(t)
    <2>1. /\ files' = [files EXCEPT ![n] = Empty] /\ manifest' = manifest
          /\ Goto(t, "fill") /\ thread[t].op = "apply"
      BY <1>14, <1>m, <1>n DEF CutInclude, At, OwnSteps
    <2>2. \A m \in Names \ {n} : files'[m] = files[m]
      BY <1>r, <2>1 DEF Tree
    <2>3. WritingOK(thread[t])' /\ thread'[t].pc = "fill"
      BY <1>g, <1>s, <2>1 DEF WritingOK
    <2> QED
      BY <1>f, <2>1, <2>2, <2>3
  <1>6. CASE Write(t)
    <2>1. /\ files' = [files EXCEPT ![n] = Target[c].content] /\ manifest' = manifest
          /\ Goto(t, "glob") /\ thread[t].op = "apply"
      BY <1>6, <1>m, <1>1, <1>2, <1>n DEF Write, At, OwnSteps, Own
    <2>2. files'[n] = Target[c].content /\ \A m \in Names \ {n} : files'[m] = files[m]
      BY <1>r, <2>1 DEF Tree
    <2>3. WritingOK(thread[t])'
      BY <1>g, <1>s, <1>n, <2>1, <2>2 DEF WritingOK, Name
    <2> QED
      BY <1>f, <1>g, <1>s, <2>1, <2>2, <2>3
  <1>7. CASE Glob(t)
    <2> DEFINE r == [thread[t] EXCEPT !.pc = "cut", !.list = Present(files)]
    <2>1. /\ r \in Request /\ r.pc = "cut" /\ r.op = thread[t].op /\ r.id = c
      BY <1>1, <1>r DEF Request, Present
    <2>2. thread' = [thread EXCEPT ![t] = r]
      BY <1>7 DEF Glob
    <2> HIDE DEF r
    <2>3. thread'[t] = r
      BY <1>m, <2>1, <2>2, Becomes
    <2>4. UNCHANGED <<files, manifest>> /\ thread[t].pc = "glob"
      BY <1>7 DEF Glob, At, disk
    <2>5. WritingOK(thread[t])'
      BY <1>1, <1>2, <2>1, <2>3, <2>4 DEF WritingOK, Restored, Name
    <2> QED
      BY <1>f, <2>1, <2>3, <2>4, <2>5
  <1>15. CASE CutManifest(t)
    <2>1. /\ manifest' = Empty /\ files' = files /\ thread[t].pc = "cut"
          /\ Goto(t, "manifest")
      BY <1>15 DEF CutManifest, At
    <2>2. thread'[t].pc = "manifest" /\ thread'[t].op = thread[t].op /\ thread'[t].id = c
      BY <1>g, <1>s, <2>1
    <2>3. WritingOK(thread[t])'
      BY <1>1, <1>2, <2>1, <2>2 DEF WritingOK, Restored, Name
    <2> QED
      BY <1>f, <2>1, <2>2, <2>3
  <1>8. CASE WriteManifest(t)
    <2>1. /\ manifest' = thread[t].list /\ files' = files /\ thread[t].pc = "manifest"
          /\ Goto(t, IF thread[t].op = "apply" THEN "live" ELSE "check")
      BY <1>8 DEF WriteManifest, At
    <2>2. manifest' = Present(files)
      BY <1>l, <2>1 DEF ListingOK
    <2>3. \A m \in Names : files[m] # Absent => m \in manifest'
      BY <2>2 DEF Present
    <2>4. CASE thread[t].op = "apply"
      <3>1. /\ thread'[t].pc = "live" /\ thread'[t].op = "apply" /\ thread'[t].id = c
        BY <1>g, <1>s, <2>1, <2>4
      <3>2. InEffect(c)'
        BY <1>1, <1>2, <1>c, <1>n, <2>1, <2>3, <2>4 DEF WritingOK, InEffect, Name
      <3> QED
        BY <1>f, <2>1, <2>3, <3>1, <3>2 DEF WritingOK
    <2>5. CASE thread[t].op = "rollback"
      <3>1. /\ thread'[t].pc = "check" /\ thread'[t].op = "rollback" /\ thread'[t].id = c
        BY <1>g, <1>s, <2>1, <2>5
      <3>2. Restored(c)'
        BY <1>1, <1>2, <2>1, <2>5 DEF WritingOK, Restored, Name
      <3> QED
        BY <1>f, <2>1, <2>3, <3>1, <3>2 DEF WritingOK
    <2> QED
      BY <1>r, <2>4, <2>5
  <1>9. CASE Live(t)
    <2>0. thread[t].pc = "live" /\ thread[t].op = "apply"
      BY <1>9, <1>m DEF Live, At, OwnSteps
    <2>1. Passes(t)
      BY <1>l, <2>0 DEF ListingOK, Passes
    <2>2. UNCHANGED <<files, manifest>>
      BY <1>9, <2>1 DEF Live
    <2>3. CASE Goto(t, "reload")
      <3>1. InEffect(c)'
        BY <1>1, <1>2, <2>0, <2>2 DEF WritingOK, InEffect, Name
      <3>2. WritingOK(thread[t])'
        BY <1>g, <1>s, <2>0, <2>3, <3>1 DEF WritingOK
      <3> QED
        BY <1>f, <1>g, <1>s, <2>2, <2>3, <3>2
    <2>4. CASE End(t, "error")
      BY <1>f, <1>m, <2>2, <2>4, Gone
    <2> QED
      BY <1>9, <2>1, <2>3, <2>4 DEF Live, Refuse
  <1>10. CASE Reload(t)
    <2>0. UNCHANGED <<files, manifest>> /\ thread[t].pc = "reload"
      BY <1>10 DEF Reload, At, disk
    <2>1. PICK answer \in {"ok", "error"} : End(t, answer)
      BY <1>10 DEF Reload, Refuse
    <2> QED
      BY <1>f, <1>m, <2>0, <2>1, Gone
  <1>11. CASE Find(t)
    <2> DEFINE todo == {m \in Names : meta[thread[t].id][m] # "none"}
               r == [thread[t] EXCEPT !.pc = "restore", !.todo = todo]
    <2>0. UNCHANGED <<files, manifest>> /\ thread[t].op = "rollback"
      BY <1>11, <1>m DEF Find, At, OwnSteps, disk
    <2>1. /\ r \in Request /\ r.pc = "restore" /\ r.op = thread[t].op
      BY <1>r DEF Request
    <2>2. thread' = [thread EXCEPT ![t] = r] \/ End(t, "error")
      BY <1>11 DEF Find, Refuse
    <2> HIDE DEF r
    <2>3. CASE thread' = [thread EXCEPT ![t] = r]
      <3>1. thread'[t] = r
        BY <1>m, <2>1, <2>3, Becomes
      <3> QED
        BY <1>f, <2>0, <2>1, <3>1 DEF WritingOK
    <2>4. CASE End(t, "error")
      BY <1>f, <1>m, <2>0, <2>4, Gone
    <2> QED
      BY <2>2, <2>3, <2>4
  <1>12. CASE Restore(t)
    <2>0. thread[t].pc = "restore" /\ thread[t].op = "rollback" /\ manifest' = manifest
      BY <1>12, <1>m DEF Restore, At, OwnSteps
    <2>1. PICK m \in Names : RestoreOne(t, m)
      BY <1>m, <1>12, RestoreFields
    <2>2. m = n /\ thread[t].todo \ {m} = {}
      BY <1>1, <1>2, <1>n, <2>1 DEF RestoreOne, Own
    <2>3. PICK r \in Request :
            /\ thread' = [thread EXCEPT ![t] = r]
            /\ \/ r.pc = "put" /\ files' = [files EXCEPT ![n] = Empty]
               \/ /\ r.pc = "glob" /\ files' = [files EXCEPT ![n] = Absent]
                  /\ meta[c][n] # "existed"
            /\ r.op = thread[t].op /\ r.id = c
      BY <1>1, <2>1, <2>2 DEF RestoreOne, Further
    <2>4. thread'[t] = r
      BY <1>m, <2>3, Becomes
    <2>5. Exact(c)
      BY <1>1, <1>2, <2>0 DEF CopyingOK
    <2>6. \A k \in Names \ {n} : files'[k] = files[k]
      BY <1>r, <2>3 DEF Tree
    <2>7. r.pc = "glob" => files'[n] = pre[c]
      BY <1>n, <1>r, <2>3, <2>5 DEF Exact, Tree
    <2>8. WritingOK(thread[t])'
      BY <1>2, <1>n, <2>0, <2>3, <2>4, <2>7 DEF WritingOK, Restored, Name
    <2> QED
      BY <1>f, <2>0, <2>3, <2>4, <2>6, <2>8
  <1>16. CASE Put(t)
    <2>0. thread[t].pc = "put" /\ thread[t].op = "rollback" /\ manifest' = manifest
      BY <1>16, <1>l DEF Put, At, ListingOK
    <2>1. PICK m \in Names : PutOne(t, m)
      BY <1>m, <1>16, PutFields
    <2>2. m = n /\ thread[t].todo = {} /\ Exact(c)
      BY <1>1, <1>2, <1>n, <2>0, <2>1 DEF PutOne, Own, CopyingOK
    <2>3. Goto(t, "glob")
      BY <2>0, <2>1, <2>2 DEF PutOne, Further
    <2>4. files'[n] = backup[c][n] /\ \A k \in Names \ {n} : files'[k] = files[k]
      BY <1>1, <1>r, <2>1, <2>2 DEF PutOne, Tree
    <2>5. files'[n] = pre[c]
      BY <1>n, <2>2, <2>4 DEF Exact
    <2>6. thread'[t].pc = "glob" /\ thread'[t].op = "rollback" /\ thread'[t].id = c
      BY <1>g, <1>s, <2>0, <2>3
    <2>7. WritingOK(thread[t])'
      BY <1>2, <1>n, <2>5, <2>6 DEF WritingOK, Restored, Name
    <2> QED
      BY <1>f, <2>0, <2>4, <2>6, <2>7
  <1>13. CASE Check(t)
    <2>0. UNCHANGED <<files, manifest>> /\ thread[t].pc = "check" /\ thread[t].op = "rollback"
      BY <1>13, <1>m DEF Check, At, OwnSteps, disk
    <2>1. CASE Goto(t, "reload")
      <3>1. Restored(c)'
        BY <1>1, <1>2, <2>0 DEF WritingOK, Restored, Name
      <3>2. WritingOK(thread[t])'
        BY <1>g, <1>s, <2>0, <2>1, <3>1 DEF WritingOK
      <3> QED
        BY <1>f, <1>g, <1>s, <2>0, <2>1, <3>2
    <2>2. CASE End(t, "error")
      BY <1>f, <1>m, <2>0, <2>2, Gone
    <2> QED
      BY <1>13, <2>1, <2>2 DEF Check, Refuse
  <1> QED
    BY <1>3, <1>4, <1>5, <1>6, <1>7, <1>8, <1>9, <1>10, <1>11, <1>12, <1>13,
       <1>14, <1>15, <1>16 DEF Serve

\* The engine or a user moves: nothing is written, threads answer nothing new,
\* and what is recorded changes of one change only.
Keeps(c) ==
  /\ UNCHANGED <<files, manifest>>
  /\ \A d \in Changes \ {c} : /\ call'[d] = call[d] /\ step'[d] = step[d]
                              /\ status'[d] = status[d] /\ pre'[d] = pre[d]
  /\ \A u \in Threads : thread'[u].pc = "ok" => thread'[u] = thread[u]

\* What a thread does is as before, or it has just taken up a request for c.
Works(c) ==
  \A u \in Threads : Active(thread'[u]) =>
    \/ thread'[u] = thread[u] /\ (thread[u].id = c => pre'[c] = pre[c])
    \/ thread'[u].id = c /\ thread'[u].pc \in {"test", "find"}

LEMMA OutcomeKept ==
  ASSUME Settings, TypeOK, OutcomeInv, edits = 0, NEW c \in Changes, Keeps(c), Works(c),
         OutcomeOK(c)'
  PROVE  OutcomeInv'
  <1>1. ASSUME NEW d \in Changes PROVE OutcomeOK(d)'
    <2>1. CASE d # c
      <3>1. Untouched(d)
        BY <2>1 DEF Keeps, Untouched
      <3>2. Undisturbed(d)
        BY <2>1 DEF Keeps, Works, Undisturbed
      <3> QED
        BY <3>1, <3>2, OutcomeSame DEF OutcomeInv
    <2> QED
      BY <2>1
  <1>2. ASSUME NEW u \in Threads, Active(thread'[u]) PROVE WritingOK(thread[u])'
    <2>1. CASE thread'[u].pc \in {"test", "find"}
      BY <2>1 DEF WritingOK
    <2>2. CASE thread'[u] = thread[u] /\ (thread[u].id = c => pre'[c] = pre[c])
      <3>1. PICK d \in Changes : d = thread[u].id
        BY DEF TypeOK, Request
      <3>2. pre'[d] = pre[d] /\ UNCHANGED <<files, manifest>>
        BY <2>2, <3>1 DEF Keeps
      <3>3. WritingOK(thread[u])
        BY <1>2, <2>2 DEF OutcomeInv
      <3> QED
        BY <2>2, <3>1, <3>2, <3>3 DEF WritingOK, InEffect, Restored, Name
    <2> QED
      BY <1>2, <2>1, <2>2 DEF Works
  <1> QED
    BY <1>1, <1>2 DEF OutcomeInv

\* A call for c is on its way, or has failed: nothing is claimed of c.
LEMMA OutcomeOpen ==
  ASSUME NEW c \in Changes, step'[c] \notin {"verify", "confirm"}, status'[c] # "rolled_back",
         ~(status'[c] = "applied" /\ step'[c] = "idle"),
         call'[c] = NoThread \/ thread'[call'[c]].pc # "ok"
  PROVE  OutcomeOK(c)'
  BY DEF OutcomeOK

LEMMA OutcomeSend ==
  ASSUME Settings, Calls, Serial', OutcomeInv, edits = 0, NEW c \in Changes, NEW t \in Threads,
         NEW req \in Request, req.pc \in {"test", "find"}, req.id = c,
         NEW next \in {"apply", "undo", "back"}, Send(c, t, req, next),
         UNCHANGED <<files, manifest>>, status'[c] # "rolled_back",
         \A d \in Changes \ {c} : status'[d] = status[d] /\ pre'[d] = pre[d]
  PROVE  OutcomeInv'
  <1>t. TypeOK
    BY DEF Calls
  <1>1. Quiet /\ thread'[t] = req /\ \A u \in Threads \ {t} : thread'[u] = thread[u]
    BY <1>t, HandedSend DEF Send
  <1>2. /\ call'[c] = t /\ step'[c] = next
        /\ \A d \in Changes \ {c} : call'[d] = call[d] /\ step'[d] = step[d]
    BY <1>t DEF Send, TypeOK
  <1>3. Keeps(c)
    BY <1>1, <1>2 DEF Keeps
  <1>4. Works(c)
    BY <1>1 DEF Works, Quiet, At, Active
  <1>5. OutcomeOK(c)'
    BY <1>1, <1>2, OutcomeOpen
  <1> QED
    BY <1>t, <1>3, <1>4, <1>5, OutcomeKept

LEMMA OutcomeInit == Settings /\ Init => OutcomeInv
  <1> SUFFICES ASSUME Settings, Init PROVE OutcomeInv
    OBVIOUS
  <1>1. \A t \in Threads : ~Active(thread[t])
    BY EndedType DEF Init, Active
  <1>2. \A c \in Changes : OutcomeOK(c)
    BY DEF Init, OutcomeOK
  <1> QED
    BY <1>1, <1>2 DEF OutcomeInv

LEMMA OutcomeNext ==
  ASSUME Settings, Distinct, Calls, Serial, Serial', UndoInv, ManifestInv, OutcomeInv,
         [Next]_vars
  PROVE  OutcomeInv'
  <1> SUFFICES ASSUME edits' = 0 PROVE OutcomeInv'
    BY DEF OutcomeInv
  <1>t. /\ TypeOK /\ NoThread \notin Threads
        /\ \A c \in Changes : call[c] # NoThread => call[c] \in Threads
    BY DEF Calls, TypeOK, Settings, ConstantsOK
  <1>0. edits = 0 /\ ~Edit
    <2>1. edits \in Nat
      BY <1>t DEF TypeOK, Settings, ConstantsOK
    <2>2. edits' = edits \/ edits' = edits + 1
      BY DEF Next, Serve, Test, Backup, Meta, CutInclude, Write, Glob, CutManifest,
         WriteManifest, Live, Reload, Find, Restore, Put, Check, Apply, RollBack, Lose, Unreached, Engine, Answer, Verify, Confirm,
         Edit, Reboot, vars, bounds
    <2>3. Edit => edits' = edits + 1
      BY DEF Edit
    <2> QED
      BY <2>1, <2>2, <2>3
  <1>o. \A c \in Changes : OutcomeOK(c)
    BY <1>0 DEF OutcomeInv
  <1>q. ASSUME NEW c \in Changes
        PROVE  /\ ApplyReq(c, Target[c].name, Target[c].content) \in Request
               /\ ApplyReq(c, Target[c].name, Target[c].content).pc = "test"
               /\ ApplyReq(c, Target[c].name, Target[c].content).id = c
               /\ RollbackReq(c) \in Request /\ RollbackReq(c).pc = "find"
               /\ RollbackReq(c).id = c
    BY TargetType, RequestType, RequestFields
  <1>1. ASSUME NEW t \in Threads, Serve(t) PROVE OutcomeInv'
    BY <1>0, <1>1, OutcomeServe
  <1>2. ASSUME NEW c \in Changes, Apply(c) PROVE OutcomeInv'
    <2> DEFINE req == ApplyReq(c, Target[c].name, Target[c].content)
    <2>1. PICK t \in Threads : Send(c, t, req, "apply")
      BY <1>2 DEF Apply
    <2>2. /\ UNCHANGED <<files, manifest>> /\ status'[c] # "rolled_back"
          /\ \A d \in Changes \ {c} : status'[d] = status[d] /\ pre'[d] = pre[d]
      BY <1>2, <1>t DEF Apply, TypeOK, disk
    <2>3. req \in Request /\ req.pc = "test" /\ req.id = c
      BY <1>q
    <2> HIDE DEF req
    <2> QED
      BY <1>0, <2>1, <2>2, <2>3, OutcomeSend
  <1>s. ASSUME NEW c \in Changes, NEW t \in Threads, NEW next \in {"undo", "back"},
               Send(c, t, RollbackReq(c), next), status[c] # "rolled_back",
               UNCHANGED <<files, manifest, status, pre>>
        PROVE  OutcomeInv'
    <2> DEFINE req == RollbackReq(c)
    <2>1. req \in Request /\ req.pc = "find" /\ req.id = c /\ Send(c, t, req, next)
      BY <1>q, <1>s
    <2> HIDE DEF req
    <2> QED
      BY <1>0, <1>s, <2>1, OutcomeSend
  <1>3. ASSUME NEW c \in Changes, RollBack(c) PROVE OutcomeInv'
    <2>1. PICK t \in Threads : Send(c, t, RollbackReq(c), "back")
      BY <1>3 DEF RollBack
    <2>2. status[c] # "rolled_back" /\ UNCHANGED <<files, manifest, status, pre>>
      BY <1>3 DEF RollBack, disk
    <2> QED
      BY <1>s, <2>1, <2>2
  <1>4. ASSUME NEW c \in Changes, Lose(c) PROVE OutcomeInv'
    <2>1. \A u \in Threads : thread'[u].pc = "idle" \/ thread'[u] = thread[u]
      BY <1>t, <1>4, HandedLose
    <2>2. /\ UNCHANGED <<files, manifest, pre>> /\ call'[c] = NoThread /\ Settle(c, "failed")
          /\ \A d \in Changes \ {c} : call'[d] = call[d]
      BY <1>4, <1>t DEF Lose, disk, TypeOK
    <2>3. Keeps(c)
      BY <1>t, <2>1, <2>2, SettleFields DEF Keeps
    <2>4. Works(c)
      BY <2>1, <2>2 DEF Works, Active
    <2>5. OutcomeOK(c)'
      BY <1>t, <2>2, SettleFields, OutcomeOpen
    <2> QED
      BY <1>0, <1>t, <2>3, <2>4, <2>5, OutcomeKept
  <1>5. ASSUME NEW c \in Changes, Unreached(c) PROVE OutcomeInv'
    <2>1. /\ UNCHANGED <<files, manifest, thread, call>> /\ Settle(c, "failed")
          /\ \A d \in Changes \ {c} : pre'[d] = pre[d]
      BY <1>5, <1>t DEF Unreached, disk, TypeOK
    <2>2. pre'[c] = pre[c] \/ status[c] = "approved"
      BY <1>5 DEF Unreached
    <2>3. Keeps(c)
      BY <1>t, <2>1, SettleFields DEF Keeps
    <2>4. Works(c)
      BY <1>0, <2>1, <2>2 DEF Works, UndoInv, Own
    <2>5. call[c] = NoThread
      BY <1>5 DEF Unreached, Calls, CallsOK
    <2>6. OutcomeOK(c)'
      BY <1>t, <2>1, <2>5, SettleFields, OutcomeOpen
    <2> QED
      BY <1>0, <1>t, <2>3, <2>4, <2>6, OutcomeKept
  <1>6. ASSUME NEW c \in Changes, Answer(c) PROVE OutcomeInv'
    <2>1. /\ call[c] \in Threads /\ call[c] # NoThread /\ call'[c] = NoThread
          /\ thread[call[c]].pc \in {"ok", "error"} /\ Goto(call[c], "idle")
          /\ UNCHANGED <<files, manifest, pre>>
          /\ \A d \in Changes \ {c} : call'[d] = call[d]
      BY <1>t, <1>6 DEF Answer, TypeOK, disk
    <2>2. \A u \in Threads : thread'[u].pc = "idle" \/ thread'[u] = thread[u]
      BY <1>t, <2>1, HandedDrop
    <2>3. \A u \in Threads \ {call[c]} : thread[u].pc = "idle"
      BY <2>1 DEF Serial, At
    <2>4. \A u \in Threads : thread'[u].pc = "idle"
      BY <1>t, <2>1, <2>3, HandedDrop
    <2>5. \A d \in Changes \ {c} : step'[d] = step[d] /\ status'[d] = status[d]
      BY <1>t, <1>6, SettleFields DEF Answer, TypeOK
    <2>6. Keeps(c)
      BY <2>1, <2>2, <2>5 DEF Keeps
    <2>7. Works(c)
      BY <2>4 DEF Works, Active
    <2>8. Left(c)'
      BY <2>4 DEF Left, Active
    <2>9. CASE Settle(c, "failed")
      BY <1>0, <1>t, <2>1, <2>6, <2>7, <2>9, SettleFields, OutcomeOpen, OutcomeKept
    <2>10. CASE thread[call[c]].pc = "ok" /\ step[c] = "apply" /\ UNCHANGED status
                /\ step'[c] = "verify"
      <3>1. InEffect(c)
        BY <1>o, <2>1, <2>10 DEF OutcomeOK
      <3>2. status'[c] = "applying"
        BY <2>10 DEF Calls, CallsOK
      <3>3. InEffect(c)'
        BY <2>1, <3>1 DEF InEffect, Name
      <3>4. OutcomeOK(c)'
        BY <2>1, <2>8, <2>10, <3>2, <3>3 DEF OutcomeOK
      <3> QED
        BY <1>0, <1>t, <2>6, <2>7, <3>4, OutcomeKept
    <2>11. CASE thread[call[c]].pc = "ok" /\ step[c] = "back" /\ UNCHANGED status
                /\ step'[c] = "confirm"
      <3>1. Restored(c)
        BY <1>o, <2>1, <2>11 DEF OutcomeOK
      <3>2. Restored(c)'
        BY <2>1, <3>1 DEF Restored, Name
      <3>3. OutcomeOK(c)'
        BY <2>1, <2>8, <2>11, <3>2 DEF OutcomeOK
      <3> QED
        BY <1>0, <1>t, <2>6, <2>7, <3>3, OutcomeKept
    <2>12. step[c] \in {"apply", "undo", "back"}
      BY <1>t, <2>1 DEF Calls, CallsOK, TypeOK
    <2> QED
      BY <1>t, <1>6, <2>9, <2>10, <2>11, <2>12 DEF Answer, TypeOK
  <1>7. ASSUME NEW c \in Changes, Verify(c) PROVE OutcomeInv'
    <2>0. /\ step[c] = "verify" /\ status[c] = "applying" /\ call[c] = NoThread
          /\ UNCHANGED <<files, manifest, pre>>
      BY <1>7 DEF Verify, Calls, CallsOK, disk
    <2>1. CASE Settle(c, "applied") /\ UNCHANGED <<thread, call>>
      <3>1. Keeps(c)
        BY <1>t, <2>0, <2>1, SettleFields DEF Keeps
      <3>2. Works(c)
        BY <2>0, <2>1 DEF Works
      <3>3. InEffect(c) /\ Left(c)
        BY <1>o, <2>0 DEF OutcomeOK
      <3>4. InEffect(c)' /\ Left(c)'
        BY <2>0, <2>1, <3>3 DEF InEffect, Left, Name
      <3>5. OutcomeOK(c)'
        BY <1>t, <2>0, <2>1, <3>4, SettleFields DEF OutcomeOK
      <3> QED
        BY <1>0, <1>t, <3>1, <3>2, <3>5, OutcomeKept
    <2>2. ASSUME NEW t \in Threads, Send(c, t, RollbackReq(c), "undo"), UNCHANGED status
          PROVE  OutcomeInv'
      BY <1>s, <2>0, <2>2
    <2> QED
      BY <1>7, <2>1, <2>2 DEF Verify
  <1>8. ASSUME NEW c \in Changes, Confirm(c) PROVE OutcomeInv'
    <2>0. /\ step[c] = "confirm" /\ call[c] = NoThread
          /\ UNCHANGED <<files, manifest, pre, thread, call>>
      BY <1>8 DEF Confirm, Calls, CallsOK, disk
    <2>1. PICK result \in {"rolled_back", "failed"} : Settle(c, result)
      BY <1>8 DEF Confirm
    <2>2. Keeps(c)
      BY <1>t, <2>0, <2>1, SettleFields DEF Keeps
    <2>3. Works(c)
      BY <2>0 DEF Works
    <2>4. Restored(c) /\ Left(c)
      BY <1>o, <2>0 DEF OutcomeOK
    <2>5. Restored(c)' /\ Left(c)'
      BY <2>0, <2>4 DEF Restored, Left, Name
    <2>6. OutcomeOK(c)'
      BY <1>t, <2>0, <2>1, <2>5, SettleFields DEF OutcomeOK
    <2> QED
      BY <1>0, <1>t, <2>2, <2>3, <2>6, OutcomeKept
  <1>9. CASE Reboot
    <2>1. \A u \in Threads : thread'[u].pc \in {"idle", "error"}
      BY <1>9, EndedType DEF Reboot
    <2>2. ASSUME NEW d \in Changes PROVE OutcomeOK(d)'
      <3>1. Untouched(d)
        BY <1>9 DEF Reboot, disk, engine, Untouched
      <3>2. Undisturbed(d)
        BY <2>1 DEF Undisturbed, Active
      <3> QED
        BY <1>o, <1>t, <3>1, <3>2, OutcomeSame
    <2> QED
      BY <2>1, <2>2 DEF OutcomeInv, Active
  <1>10. CASE UNCHANGED vars
    <2>1. ASSUME NEW d \in Changes PROVE OutcomeOK(d)'
      <3>1. Untouched(d) /\ Undisturbed(d)
        BY <1>10 DEF vars, disk, engine, Untouched, Undisturbed
      <3> QED
        BY <1>o, <1>t, <3>1, OutcomeSame
    <2>2. ASSUME NEW u \in Threads, Active(thread[u]) PROVE WritingOK(thread[u])'
      BY <1>0, <1>10, <2>2 DEF OutcomeInv, vars, disk, engine, WritingOK, InEffect, Restored, Name
    <2> QED
      BY <1>10, <2>1, <2>2 DEF OutcomeInv, vars
  <1> QED
    BY <1>0, <1>1, <1>2, <1>3, <1>4, <1>5, <1>6, <1>7, <1>8, <1>9, <1>10 DEF Next, Engine

\* With one request at a time, changes to different includes and nobody who
\* edits them by hand: the include of an applied change stays as it wrote it
\* and dhcpd reads it, the include of a rolled back change is what it was
\* before (change_engine.apply_change, dhcp_ops.rollback_change).  If a reboot
\* cuts the manifest off, dhcpd reads no include until a request has written it
\* again.
THEOREM OutcomesStay ==
  ASSUME Settings, Distinct PROVE Spec /\ []Serial => []OutcomeStays
  <1>1. /\ Calls /\ Serial /\ Serial' /\ UndoInv /\ ManifestInv /\ OutcomeInv /\ [Next]_vars
        => OutcomeInv'
    BY OutcomeNext
  <1>2. OutcomeInv => OutcomeStays
    BY DEF OutcomeInv, OutcomeOK, InEffect, Restored, Name, OutcomeStays, AppliedStays,
           RolledBackStays
  <1> QED
    BY <1>1, <1>2, OutcomeInit, CallsAlways, UndoAlways, ManifestAlways, PTL DEF Spec
=============================================================================
