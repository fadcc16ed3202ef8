---------------------------- MODULE WatchProofs ----------------------------
(***************************************************************************)
(* Proofs about AuditBridge, for any events, any number of rows, endpoints,*)
(* restarts and failures, any length of a batch and of the list of ids:    *)
(*                                                                         *)
(*   TypeCorrect      every variable keeps its type;                       *)
(*   NoneSkipped      the cursor on disk is not ahead of the work;         *)
(*   NoneRepeated     when a row of the state file may be posted again;    *)
(*   EndpointsTold    every violation was tried, itself or an equal one,   *)
(*                    if no two endpoints want violations of one key;      *)
(*                                                                         *)
(* and about NeighborWalk, for any network of finitely many addresses, any *)
(* reactions of the devices, any number of hops and of threads:            *)
(*                                                                         *)
(*   WalkTypeCorrect  every variable keeps its type;                       *)
(*   WalkComplete     a discovery finds what it should and nothing else.   *)
(***************************************************************************)
EXTENDS Watch, WellFoundedInduction, FiniteSetTheorems, TLAPS

ConstantsOK ==
  /\ MaxRow \in Nat \ {0} /\ Limit \in Nat /\ SeenMax \in Nat
  /\ MaxRestarts \in Nat /\ MaxFaults \in Nat
  /\ Order \in Seq(Hooks)

(* The endpoints share the events out: every one is in config.yaml, and no *)
(* two of them want violations with the same key.  A single endpoint does. *)
EndpointsApart ==
  /\ Hooks = Elements(Order)
  /\ \A e, f \in Events, g, h \in Hooks :
       e.key = f.key /\ Violation(e, g) /\ Violation(f, h) => g = h

-----------------------------------------------------------------------------
(* Sequences                                                               *)

LEMMA SeqLength ==
  ASSUME NEW S, NEW s \in Seq(S)
  PROVE  Len(s) \in Nat /\ DOMAIN s = 1 .. Len(s)
OBVIOUS

LEMMA SeqTail ==
  ASSUME NEW S, NEW s \in Seq(S), s # <<>>
  PROVE  /\ Len(s) >= 1 /\ 1 \in DOMAIN s /\ Head(s) = s[1] /\ Head(s) \in S
         /\ Tail(s) \in Seq(S) /\ Len(Tail(s)) = Len(s) - 1
         /\ \A m \in 1 .. Len(s) - 1 : Tail(s)[m] = s[m + 1]
<1>1. Len(s) \in Nat /\ Len(s) # 0
  OBVIOUS
<1> QED BY <1>1

LEMMA SeqFunction ==
  ASSUME NEW S, NEW n \in Nat, NEW f, f \in [1 .. n -> S]
  PROVE  f \in Seq(S) /\ Len(f) = n /\ DOMAIN f = 1 .. n
OBVIOUS

LEMMA ElementsAppend ==
  ASSUME NEW S, NEW s \in Seq(S), NEW x
  PROVE  Elements(Append(s, x)) = Elements(s) \cup {x}
<1>1. /\ DOMAIN Append(s, x) = 1 .. Len(s) + 1 /\ DOMAIN s = 1 .. Len(s) /\ Len(s) \in Nat
      /\ \A m \in 1 .. Len(s) : Append(s, x)[m] = s[m]
      /\ Append(s, x)[Len(s) + 1] = x
  OBVIOUS
<1>2. 1 .. Len(s) + 1 = (1 .. Len(s)) \cup {Len(s) + 1}
  BY <1>1
<1> QED BY <1>1, <1>2 DEF Elements

\* The ids that save_state keeps are the last ones of the list, n of them if
\* there are as many.
LEMMA LastNKeeps ==
  ASSUME NEW S, NEW s \in Seq(S), NEW n \in Nat
  PROVE  /\ LastN(s, n) \in Seq(S)
         /\ Elements(LastN(s, n)) \subseteq Elements(s)
         /\ LastN(s, n) = s \/ Len(LastN(s, n)) = n
<1>1. CASE Len(s) <= n
  BY <1>1 DEF LastN
<1>2. CASE Len(s) > n
  <2> DEFINE t == SubSeq(s, Len(s) - n + 1, Len(s))
  <2>1. LastN(s, n) = t /\ Len(s) \in Nat
    BY <1>2 DEF LastN
  <2>2. /\ t \in Seq(S) /\ Len(t) = n /\ DOMAIN t = 1 .. n
        /\ \A m \in 1 .. n : t[m] = s[Len(s) - n + m] /\ Len(s) - n + m \in DOMAIN s
    BY <1>2, <2>1
  <2>3. Elements(t) \subseteq Elements(s)
    BY <2>2 DEF Elements
  <2> QED BY <2>1, <2>2, <2>3
<1> QED BY <1>1, <1>2

-----------------------------------------------------------------------------
(* Types                                                                   *)

(* The batch holds the rows that follow the cursor; nothing is ahead of    *)
(* the table.                                                              *)
BatchOK ==
  /\ file.cur <= Len(rows) /\ bridge.cur <= Len(rows)
  /\ \A m \in DOMAIN bridge.todo : bridge.todo[m] = bridge.cur + m
  /\ bridge.cur + Len(bridge.todo) <= Len(rows)
  /\ bridge.pc = "hooks" => bridge.cur >= 1
  /\ handled \subseteq DOMAIN rows

(* What the records file and bridge are.                                   *)
Shapes ==
  /\ file = [cur |-> file.cur, seen |-> file.seen]
  /\ bridge = Bridge(bridge.pc, bridge.cur, bridge.todo, bridge.k, bridge.seen)

TypeInv == TypeOK /\ Shapes /\ BatchOK

(* What the loop is through with is known as handled, passed over or given *)
(* up, and only the ids of rows handled are in the lists.                  *)
ProgressOK ==
  /\ 1 .. file.cur \subseteq handled \cup old \cup dropped
  /\ bridge.pc \in {"poll", "row"} => 1 .. bridge.cur \subseteq handled \cup old \cup dropped
  /\ bridge.pc = "hooks" => 1 .. (bridge.cur - 1) \subseteq handled \cup old \cup dropped
  /\ Elements(file.seen) \subseteq handled /\ Elements(bridge.seen) \subseteq handled

(* The list in memory contains the list on disk, except after a failed     *)
(* save, and then it is full.                                              *)
ListsOK ==
  /\ bridge.pc = "hooks" => bridge.cur \notin Elements(bridge.seen)
  /\ bridge.pc # "down" => \/ Elements(file.seen) \subseteq Elements(bridge.seen)
                           \/ unsaved /\ Len(bridge.seen) >= SeenMax

BridgeInv == TypeInv /\ ProgressOK /\ ListsOK

(* An endpoint has been told of a row, itself or an equal one.             *)
Told(i, h) == \E j \in DOMAIN rows : rows[j].key = rows[i].key /\ <<j, h>> \in tries

(* A key that silences others was tried at the one endpoint that wants it; *)
(* the endpoints before k are through with the current row.                *)
ToldOK ==
  /\ \A i \in handled, h \in Hooks : Violation(rows[i], h) => Told(i, h)
  /\ \A key \in recent : \E j \in DOMAIN rows, h \in Hooks :
       rows[j].key = key /\ <<j, h>> \in tries /\ Violation(rows[j], h)
  /\ bridge.pc = "hooks" => \A m \in 1 .. bridge.k - 1 :
       Violation(rows[bridge.cur], Order[m]) => Told(bridge.cur, Order[m])

-----------------------------------------------------------------------------
(* The invariant                                                           *)

LEMMA BridgeInit == ASSUME ConstantsOK, Init PROVE BridgeInv
<1>1. PICK n \in 0 .. 1 : rows \in [1 .. n -> Events]
  BY DEF Init
<1>2. rows \in Seq(Events) /\ Len(rows) = n
  BY <1>1, SeqFunction
<1>3. Elements(<<>>) = {}
  BY DEF Elements
<1>4. TypeOK
  <2>1. /\ rows \in Seq(Events) /\ Len(rows) <= MaxRow
    BY <1>2 DEF ConstantsOK
  <2>2. /\ bridge.pc = "down" /\ bridge.cur = 0 /\ bridge.k = 1 /\ bridge.todo = <<>>
        /\ bridge.seen = <<>> /\ file.cur = 0 /\ file.seen = <<>>
    BY DEF Init, Down, Bridge
  <2>3. <<>> \in Seq(1 .. MaxRow) /\ 0 \in 0 .. MaxRow /\ 1 \in 1 .. Len(Order) + 1
    BY DEF ConstantsOK
  <2>4. starts \in 0 .. MaxRestarts + 1 /\ faults \in 0 .. MaxFaults
    BY DEF Init, ConstantsOK
  <2> QED BY <2>1, <2>2, <2>3, <2>4 DEF Init, TypeOK
<1>5. Shapes /\ BatchOK
  BY <1>2 DEF Init, Shapes, BatchOK, Down, Bridge
<1>6. ProgressOK /\ ListsOK
  BY <1>3 DEF Init, ProgressOK, ListsOK, Down, Bridge
<1> QED BY <1>4, <1>5, <1>6 DEF BridgeInv, TypeInv

\* What the proofs below need of the types.
LEMMA TypeFacts ==
  ASSUME ConstantsOK, TypeInv
  PROVE  /\ rows \in Seq(Events) /\ Len(rows) \in Nat /\ DOMAIN rows = 1 .. Len(rows)
         /\ Len(rows) <= MaxRow /\ MaxRow \in Nat
         /\ Limit \in Nat /\ SeenMax \in Nat /\ Len(Order) \in Nat
         /\ DOMAIN Order = 1 .. Len(Order)
         /\ bridge.cur \in Nat /\ bridge.cur <= Len(rows)
         /\ file.cur \in Nat /\ file.cur <= Len(rows)
         /\ bridge.todo \in Seq(1 .. MaxRow) /\ Len(bridge.todo) \in Nat
         /\ DOMAIN bridge.todo = 1 .. Len(bridge.todo)
         /\ bridge.seen \in Seq(1 .. MaxRow) /\ Len(bridge.seen) \in Nat
         /\ file.seen \in Seq(1 .. MaxRow)
         /\ bridge.k \in 1 .. Len(Order) + 1
<1>1. /\ rows \in Seq(Events) /\ Order \in Seq(Hooks) /\ bridge.todo \in Seq(1 .. MaxRow)
      /\ bridge.seen \in Seq(1 .. MaxRow) /\ file.seen \in Seq(1 .. MaxRow)
      /\ Len(rows) <= MaxRow /\ bridge.k \in 1 .. Len(Order) + 1
      /\ bridge.cur \in 0 .. MaxRow /\ file.cur \in 0 .. MaxRow
      /\ bridge.cur <= Len(rows) /\ file.cur <= Len(rows)
      /\ MaxRow \in Nat /\ Limit \in Nat /\ SeenMax \in Nat
  BY DEF ConstantsOK, TypeInv, TypeOK, BatchOK
<1>2. bridge.cur \in Nat /\ file.cur \in Nat
  BY <1>1
<1> QED BY <1>1, <1>2, SeqLength

LEMMA RecordStep ==
  ASSUME ConstantsOK, BridgeInv, NEW row \in Events, Record(row)
  PROVE  BridgeInv'
<1>1. /\ rows \in Seq(Events) /\ rows' = Append(rows, row) /\ Len(rows) < MaxRow
      /\ UNCHANGED <<file, bridge, recent, starts, faults, posts, tries, handled, old, dropped, unsaved>>
  BY DEF Record, history, BridgeInv, TypeInv, TypeOK
<1>2. rows' \in Seq(Events) /\ Len(rows') = Len(rows) + 1 /\ Len(rows) \in Nat
  BY <1>1
<1>3. TypeOK'
  <2>1. Len(rows') <= MaxRow
    BY <1>1, <1>2 DEF ConstantsOK
  <2> QED BY <1>1, <1>2, <2>1 DEF BridgeInv, TypeInv, TypeOK
<1>4. BatchOK'
  <2>1. DOMAIN rows = 1 .. Len(rows) /\ DOMAIN rows' = 1 .. Len(rows) + 1
    BY <1>1, <1>2
  <2>2. Len(bridge.todo) \in Nat /\ file.cur \in Nat /\ bridge.cur \in Nat
    BY DEF BridgeInv, TypeInv, TypeOK
  <2> QED BY <1>1, <1>2, <2>1, <2>2 DEF BridgeInv, TypeInv, BatchOK
<1>5. Shapes' /\ ProgressOK' /\ ListsOK'
  BY <1>1 DEF BridgeInv, TypeInv, Shapes, ProgressOK, ListsOK
<1> QED BY <1>3, <1>4, <1>5 DEF BridgeInv, TypeInv

\* A start reads the list back; where its cursor stands, everything before has
\* been dealt with or is passed over.
LEMMA EnterStep ==
  ASSUME ConstantsOK, BridgeInv,
         NEW cur \in 0 .. Len(rows), NEW passed \in SUBSET DOMAIN rows,
         1 .. cur \subseteq handled \cup old \cup dropped \cup passed, Enter(cur, passed)
  PROVE  BridgeInv'
<1> DEFINE from == IF cur = 0 THEN Len(rows) ELSE cur
<1>1. /\ rows \in Seq(Events) /\ Len(rows) \in Nat /\ Len(rows) <= MaxRow /\ MaxRow \in Nat
      /\ DOMAIN rows = 1 .. Len(rows)
      /\ handled \subseteq DOMAIN rows /\ old \subseteq 1 .. MaxRow
  BY TypeFacts DEF BridgeInv, TypeInv, TypeOK, BatchOK
<1>2. from \in 0 .. Len(rows) /\ from \in 0 .. MaxRow
  BY <1>1
<1>3. /\ bridge' = Bridge("poll", from, <<>>, 1, file.seen)
      /\ file' = [cur |-> from, seen |-> file.seen]
      /\ UNCHANGED <<rows, faults, posts, tries, handled, dropped>>
      /\ recent' = {} /\ unsaved' = FALSE
      /\ starts' = starts + 1 /\ starts <= MaxRestarts
      /\ old' = old \cup IF cur = 0 THEN (1 .. Len(rows)) \ handled ELSE passed
  BY DEF Enter, BridgeInv, TypeInv, Shapes
<1>4. /\ bridge'.pc = "poll" /\ bridge'.cur = from /\ bridge'.todo = <<>> /\ bridge'.k = 1
      /\ bridge'.seen = file.seen /\ file'.cur = from /\ file'.seen = file.seen
  BY <1>3 DEF Bridge
<1>5. 1 .. from \subseteq handled' \cup old' \cup dropped'
  <2>1. CASE cur = 0
    BY <1>3, <2>1
  <2>2. CASE cur # 0
    BY <1>3, <2>2
  <2> QED BY <2>1, <2>2
<1>6. TypeOK'
  <2>1. old' \subseteq 1 .. MaxRow
    <3>1. 1 .. Len(rows) \subseteq 1 .. MaxRow
      BY <1>1
    <3>2. old' \subseteq old \cup (1 .. Len(rows))
      BY <1>1, <1>3
    <3> QED BY <1>1, <3>1, <3>2
  <2>2. starts' \in 0 .. MaxRestarts + 1
    BY <1>3 DEF ConstantsOK, BridgeInv, TypeInv, TypeOK
  <2>3. bridge'.k \in 1 .. Len(Order) + 1 /\ bridge'.todo \in Seq(1 .. MaxRow)
    BY <1>4 DEF ConstantsOK
  <2> QED BY <1>2, <1>3, <1>4, <2>1, <2>2, <2>3 DEF BridgeInv, TypeInv, TypeOK
<1>7. Shapes' /\ BatchOK'
  BY <1>1, <1>2, <1>3, <1>4 DEF Shapes, BatchOK
<1>8. ProgressOK'
  BY <1>3, <1>4, <1>5 DEF BridgeInv, ProgressOK
<1>9. ListsOK'
  BY <1>4 DEF ListsOK
<1> QED BY <1>6, <1>7, <1>8, <1>9 DEF BridgeInv, TypeInv

LEMMA StartsStep ==
  ASSUME ConstantsOK, BridgeInv, Start \/ \E n \in 1 .. MaxRow : StartBackfill(n)
  PROVE  BridgeInv'
<1>0. /\ Len(rows) \in Nat /\ DOMAIN rows = 1 .. Len(rows) /\ file.cur \in 0 .. Len(rows)
      /\ 1 .. file.cur \subseteq handled \cup old \cup dropped /\ MaxRow \in Nat
  <2>1. /\ Len(rows) \in Nat /\ DOMAIN rows = 1 .. Len(rows) /\ MaxRow \in Nat
        /\ file.cur \in Nat /\ file.cur <= Len(rows)
    BY TypeFacts DEF BridgeInv
  <2> QED BY <2>1 DEF BridgeInv, ProgressOK
<1>1. CASE Start
  BY <1>0, <1>1, EnterStep DEF Start
<1>2. ASSUME NEW n \in 1 .. MaxRow, StartBackfill(n)
      PROVE  BridgeInv'
  <2> DEFINE to == IF n > Len(rows) THEN 0 ELSE Len(rows) - n
  <2>1. to \in 0 .. Len(rows)
    BY <1>0
  <2>2. (1 .. to) \ handled \in SUBSET DOMAIN rows
    BY <1>0, <2>1
  <2>3. 1 .. to \subseteq handled \cup old \cup dropped \cup ((1 .. to) \ handled)
    OBVIOUS
  <2> QED BY <1>2, <2>1, <2>2, <2>3, EnterStep DEF StartBackfill
<1> QED BY <1>1, <1>2

LEMMA FetchStep ==
  ASSUME ConstantsOK, BridgeInv, Fetch
  PROVE  BridgeInv'
<1> DEFINE last == IF bridge.cur + Limit < Len(rows) THEN bridge.cur + Limit ELSE Len(rows)
           batch == [m \in 1 .. (last - bridge.cur) |-> bridge.cur + m]
<1>1. /\ Len(rows) \in Nat /\ Len(rows) <= MaxRow /\ bridge.cur \in Nat /\ bridge.cur <= Len(rows)
      /\ Limit \in Nat /\ MaxRow \in Nat
  BY TypeFacts DEF BridgeInv
<1>2. last \in bridge.cur .. Len(rows)
  BY <1>1
<1>3. /\ batch \in Seq(1 .. MaxRow) /\ Len(batch) = last - bridge.cur
      /\ DOMAIN batch = 1 .. (last - bridge.cur)
      /\ \A m \in DOMAIN batch : batch[m] = bridge.cur + m
  <2>1. last - bridge.cur \in Nat
    BY <1>1, <1>2
  <2>2. \A m \in 1 .. (last - bridge.cur) : bridge.cur + m \in 1 .. MaxRow
    BY <1>1, <1>2
  <2>3. batch \in [1 .. (last - bridge.cur) -> 1 .. MaxRow]
    BY <2>2
  <2>4. \A m \in 1 .. (last - bridge.cur) : batch[m] = bridge.cur + m
    OBVIOUS
  <2> HIDE DEF batch, last
  <2>5. /\ batch \in Seq(1 .. MaxRow) /\ Len(batch) = last - bridge.cur
        /\ DOMAIN batch = 1 .. (last - bridge.cur)
    BY <2>1, <2>3, SeqFunction
  <2> QED BY <2>4, <2>5
<1>4. /\ bridge' = [bridge EXCEPT !.pc = "row", !.todo = batch] /\ bridge.pc = "poll"
      /\ UNCHANGED <<rows, file, recent, starts, faults, posts, tries, handled, old, dropped, unsaved>>
  BY DEF Fetch, history
<1> HIDE DEF batch, last
<1>5. bridge' = Bridge("row", bridge.cur, batch, bridge.k, bridge.seen)
  BY <1>4 DEF BridgeInv, TypeInv, Shapes, Bridge
<1>6. /\ bridge'.pc = "row" /\ bridge'.cur = bridge.cur /\ bridge'.todo = batch
      /\ bridge'.k = bridge.k /\ bridge'.seen = bridge.seen
  BY <1>5 DEF Bridge
<1>7. TypeOK'
  BY <1>3, <1>4, <1>6 DEF BridgeInv, TypeInv, TypeOK
<1>8. Shapes' /\ BatchOK'
  BY <1>1, <1>2, <1>3, <1>4, <1>5, <1>6 DEF BridgeInv, TypeInv, Shapes, BatchOK
<1>9. ProgressOK' /\ ListsOK'
  BY <1>4, <1>6 DEF BridgeInv, ProgressOK, ListsOK
<1> QED BY <1>7, <1>8, <1>9 DEF BridgeInv, TypeInv

LEMMA TakeRowStep ==
  ASSUME ConstantsOK, BridgeInv, TakeRow
  PROVE  BridgeInv'
<1> DEFINE todo == bridge.todo
           i == Head(bridge.todo)
           next == IF i \in Elements(bridge.seen) THEN "row" ELSE "hooks"
<1>1. /\ Len(rows) \in Nat /\ DOMAIN rows = 1 .. Len(rows) /\ bridge.cur \in Nat
      /\ Len(rows) <= MaxRow /\ MaxRow \in Nat /\ Len(Order) \in Nat
      /\ todo \in Seq(1 .. MaxRow) /\ todo # <<>> /\ bridge.pc = "row"
  BY TypeFacts DEF TakeRow, BridgeInv
<1>2. /\ Len(todo) \in Nat /\ Len(todo) >= 1 /\ i = todo[1] /\ 1 \in DOMAIN todo
      /\ Tail(todo) \in Seq(1 .. MaxRow) /\ Len(Tail(todo)) = Len(todo) - 1
      /\ DOMAIN Tail(todo) = 1 .. Len(todo) - 1 /\ DOMAIN todo = 1 .. Len(todo)
      /\ \A m \in 1 .. Len(todo) - 1 : Tail(todo)[m] = todo[m + 1]
  BY <1>1, SeqTail, SeqLength, ZenonT(30)
<1>3. /\ i = bridge.cur + 1 /\ bridge.cur + Len(todo) <= Len(rows)
      /\ \A m \in DOMAIN Tail(todo) : Tail(todo)[m] = i + m
  <2>1. /\ bridge.cur + Len(todo) <= Len(rows)
        /\ \A m \in DOMAIN todo : todo[m] = bridge.cur + m
    BY DEF BridgeInv, TypeInv, BatchOK
  <2>2. i = bridge.cur + 1
    BY <1>2, <2>1
  <2>3. ASSUME NEW m \in 1 .. Len(todo) - 1
        PROVE  Tail(todo)[m] = i + m
    <3>1. m + 1 \in 1 .. Len(todo) /\ m \in Nat
      BY <1>2
    <3>2. Tail(todo)[m] = todo[m + 1]
      BY <1>2
    <3>3. todo[m + 1] = bridge.cur + (m + 1)
      BY <1>2, <2>1, <3>1
    <3>4. bridge.cur \in Nat
      BY <1>1
    <3>5. bridge.cur + (m + 1) = (bridge.cur + 1) + m
      BY <3>1, <3>4
    <3> QED BY <2>2, <3>2, <3>3, <3>5, Zenon
  <2> QED BY <1>2, <2>1, <2>2, <2>3
<1>4. /\ bridge' = [bridge EXCEPT !.cur = i, !.todo = Tail(todo), !.k = 1, !.pc = next]
      /\ UNCHANGED <<rows, file, recent, starts, faults, posts, tries, handled, old, dropped, unsaved>>
  BY DEF TakeRow, history
<1>5. bridge' = Bridge(next, i, Tail(todo), 1, bridge.seen)
  BY <1>4 DEF BridgeInv, TypeInv, Shapes, Bridge
<1>6. /\ bridge'.pc = next /\ bridge'.cur = i /\ bridge'.todo = Tail(todo)
      /\ bridge'.k = 1 /\ bridge'.seen = bridge.seen
  BY <1>5 DEF Bridge
<1> HIDE DEF i
<1>7. TypeOK'
  <2>1. i \in 0 .. MaxRow
    BY <1>1, <1>2, <1>3, SMTT(30)
  <2>2. 1 \in 1 .. Len(Order) + 1 /\ Tail(todo) \in Seq(1 .. MaxRow)
    BY <1>1, <1>2
  <2> QED BY <1>4, <1>6, <2>1, <2>2 DEF BridgeInv, TypeInv, TypeOK
<1>8. Shapes'
  BY <1>4, <1>5, <1>6 DEF BridgeInv, TypeInv, Shapes
<1>9. BatchOK'
  BY <1>1, <1>2, <1>3, <1>4, <1>6, SMTT(30) DEF BridgeInv, TypeInv, BatchOK
<1>10. ProgressOK'
  <2>1. 1 .. i - 1 \subseteq handled \cup old \cup dropped
    BY <1>1, <1>3 DEF BridgeInv, ProgressOK
  <2>2. i \in Elements(bridge.seen) => 1 .. i \subseteq handled \cup old \cup dropped
    <3>1. \A m \in 1 .. i : m = i \/ m \in 1 .. i - 1
      BY <1>1, <1>3
    <3> QED BY <2>1, <3>1 DEF BridgeInv, ProgressOK
  <2> QED BY <1>4, <1>6, <2>1, <2>2 DEF BridgeInv, ProgressOK
<1>11. ListsOK'
  BY <1>1, <1>4, <1>6 DEF BridgeInv, ListsOK
<1> QED BY <1>7, <1>8, <1>9, <1>10, <1>11 DEF BridgeInv, TypeInv

LEMMA DispatchStep ==
  ASSUME ConstantsOK, BridgeInv, Dispatch
  PROVE  BridgeInv'
<1> DEFINE i == bridge.cur
           h == Order[bridge.k]
<1>1. /\ bridge' = [bridge EXCEPT !.k = bridge.k + 1]
      /\ UNCHANGED <<rows, file, starts, handled, old, dropped, unsaved>>
      /\ bridge.pc = "hooks" /\ bridge.k \in DOMAIN Order
  BY DEF Dispatch
<1>2. bridge' = Bridge(bridge.pc, bridge.cur, bridge.todo, bridge.k + 1, bridge.seen)
  BY <1>1 DEF BridgeInv, TypeInv, Shapes, Bridge
<1>3. /\ bridge'.pc = bridge.pc /\ bridge'.cur = bridge.cur /\ bridge'.todo = bridge.todo
      /\ bridge'.k = bridge.k + 1 /\ bridge'.seen = bridge.seen
  BY <1>2 DEF Bridge
<1>4. bridge'.k \in 1 .. Len(Order) + 1
  BY <1>1, <1>3, TypeFacts, SMTT(30) DEF BridgeInv
<1>5. i \in 1 .. MaxRow /\ i \in DOMAIN rows /\ h \in Hooks /\ rows[i].key \in Keys
  <2>1. i \in 1 .. MaxRow /\ i \in DOMAIN rows
    BY <1>1, TypeFacts, SMTT(30) DEF BridgeInv, TypeInv, BatchOK
  <2>2. rows[i] \in Events
    BY <2>1, TypeFacts DEF BridgeInv
  <2>3. h \in Hooks
    BY <1>1 DEF ConstantsOK
  <2> QED BY <2>1, <2>2, <2>3 DEF Keys
<1>6. /\ recent' \subseteq Keys /\ tries' \subseteq (1 .. MaxRow) \X Hooks
      /\ posts' \in [1 .. MaxRow -> [Hooks -> Nat]] /\ faults' \in 0 .. MaxFaults
  <2>1. /\ recent \subseteq Keys /\ tries \subseteq (1 .. MaxRow) \X Hooks
        /\ posts \in [1 .. MaxRow -> [Hooks -> Nat]] /\ faults \in 0 .. MaxFaults
        /\ MaxFaults \in Nat
    BY DEF BridgeInv, TypeInv, TypeOK, ConstantsOK
  <2>2. CASE Violation(rows[i], h) /\ rows[i].key \notin recent
    <3>1. recent' = recent \cup {rows[i].key} /\ tries' = tries \cup {<<i, h>>}
      BY <2>2 DEF Dispatch
    <3>2. \/ posts' = [posts EXCEPT ![i][h] = posts[i][h] + 1] /\ faults' = faults
          \/ faults < MaxFaults /\ faults' = faults + 1 /\ posts' = posts
      BY <2>2 DEF Dispatch
    <3>3. [posts EXCEPT ![i][h] = posts[i][h] + 1] \in [1 .. MaxRow -> [Hooks -> Nat]]
      BY <1>5, <2>1
    <3>4. recent' \subseteq Keys /\ tries' \subseteq (1 .. MaxRow) \X Hooks
      BY <1>5, <2>1, <3>1
    <3>5. posts' \in [1 .. MaxRow -> [Hooks -> Nat]]
      BY <2>1, <3>2, <3>3, Zenon
    <3>6. faults' \in 0 .. MaxFaults
      <4>1. faults' = faults \/ (faults < MaxFaults /\ faults' = faults + 1)
        BY <3>2
      <4> QED BY <2>1, <4>1
    <3> QED BY <3>4, <3>5, <3>6
  <2>3. CASE ~ (Violation(rows[i], h) /\ rows[i].key \notin recent)
    BY <2>1, <2>3 DEF Dispatch
  <2> QED BY <2>2, <2>3
<1>7. TypeOK'
  BY <1>1, <1>3, <1>4, <1>6 DEF BridgeInv, TypeInv, TypeOK
<1>8. Shapes' /\ BatchOK'
  BY <1>1, <1>2, <1>3 DEF BridgeInv, TypeInv, Shapes, BatchOK
<1>9. ProgressOK' /\ ListsOK'
  BY <1>1, <1>3 DEF BridgeInv, ProgressOK, ListsOK
<1> QED BY <1>7, <1>8, <1>9 DEF BridgeInv, TypeInv

\* The row that raised counts as given up, and the cursor stays at it.
LEMMA RowRaisesStep ==
  ASSUME ConstantsOK, BridgeInv, RowRaises
  PROVE  BridgeInv'
<1> DEFINE i == bridge.cur
           h == Order[bridge.k]
<1>1. /\ bridge' = [bridge EXCEPT !.pc = "poll", !.todo = <<>>]
      /\ dropped' = dropped \cup {i}
      /\ UNCHANGED <<rows, file, starts, posts, handled, old, unsaved>>
      /\ bridge.pc = "hooks" /\ bridge.k \in DOMAIN Order
      /\ faults < MaxFaults /\ faults' = faults + 1
  BY DEF RowRaises
<1>2. bridge' = Bridge("poll", bridge.cur, <<>>, bridge.k, bridge.seen)
  BY <1>1 DEF BridgeInv, TypeInv, Shapes, Bridge
<1>3. /\ bridge'.pc = "poll" /\ bridge'.cur = bridge.cur /\ bridge'.todo = <<>>
      /\ bridge'.k = bridge.k /\ bridge'.seen = bridge.seen
  BY <1>2 DEF Bridge
<1>4. i \in 1 .. MaxRow /\ i \in DOMAIN rows /\ h \in Hooks /\ rows[i].key \in Keys
  <2>1. i \in 1 .. MaxRow /\ i \in DOMAIN rows
    BY <1>1, TypeFacts, SMTT(30) DEF BridgeInv, TypeInv, BatchOK
  <2>2. rows[i] \in Events
    BY <2>1, TypeFacts DEF BridgeInv
  <2>3. h \in Hooks
    BY <1>1 DEF ConstantsOK
  <2> QED BY <2>1, <2>2, <2>3 DEF Keys
<1>5. /\ recent' \subseteq Keys /\ tries' \subseteq (1 .. MaxRow) \X Hooks
      /\ faults' \in 0 .. MaxFaults /\ dropped' \subseteq 1 .. MaxRow
  <2>1. /\ recent \subseteq Keys /\ tries \subseteq (1 .. MaxRow) \X Hooks
        /\ faults \in 0 .. MaxFaults /\ MaxFaults \in Nat /\ dropped \subseteq 1 .. MaxRow
    BY DEF BridgeInv, TypeInv, TypeOK, ConstantsOK
  <2>2. \/ recent' = recent /\ tries' = tries
        \/ recent' = recent \cup {rows[i].key} /\ tries' = tries \cup {<<i, h>>}
    BY DEF RowRaises
  <2>3. faults' \in 0 .. MaxFaults
    BY <1>1, <2>1
  <2> QED BY <1>1, <1>4, <2>1, <2>2, <2>3
<1>6. TypeOK'
  BY <1>1, <1>3, <1>5 DEF BridgeInv, TypeInv, TypeOK
<1>7. Shapes' /\ BatchOK'
  <2>1. Len(<<>>) = 0 /\ DOMAIN <<>> = {} /\ bridge.cur \in Nat /\ bridge.cur <= Len(rows)
    BY TypeFacts DEF BridgeInv
  <2> QED BY <1>1, <1>2, <1>3, <2>1 DEF BridgeInv, TypeInv, Shapes, BatchOK
<1>8. ProgressOK'
  <2>1. \A m \in 1 .. bridge.cur : m = bridge.cur \/ m \in 1 .. bridge.cur - 1
    BY <1>4
  <2>2. 1 .. bridge.cur \subseteq handled' \cup old' \cup dropped'
    BY <1>1, <2>1 DEF BridgeInv, ProgressOK
  <2> QED BY <1>1, <1>3, <2>2 DEF BridgeInv, ProgressOK
<1>9. ListsOK'
  BY <1>1, <1>3 DEF BridgeInv, ListsOK
<1> QED BY <1>6, <1>7, <1>8, <1>9 DEF BridgeInv, TypeInv

LEMMA EndRowStep ==
  ASSUME ConstantsOK, BridgeInv, EndRow
  PROVE  BridgeInv'
<1> DEFINE seen == Append(bridge.seen, bridge.cur)
<1>1. /\ bridge' = [bridge EXCEPT !.pc = "row", !.seen = seen] /\ bridge.pc = "hooks"
      /\ handled' = handled \cup {bridge.cur}
      /\ UNCHANGED <<rows, file, recent, starts, faults, posts, tries, old, dropped, unsaved>>
  BY DEF EndRow
<1>2. bridge.cur \in 1 .. MaxRow /\ bridge.cur \in DOMAIN rows
  BY <1>1, TypeFacts DEF BridgeInv, TypeInv, BatchOK
<1>3. /\ seen \in Seq(1 .. MaxRow) /\ Len(seen) = Len(bridge.seen) + 1
      /\ Elements(seen) = Elements(bridge.seen) \cup {bridge.cur}
      /\ Len(bridge.seen) \in Nat /\ SeenMax \in Nat
  <2>1. bridge.seen \in Seq(1 .. MaxRow) /\ Len(bridge.seen) \in Nat /\ SeenMax \in Nat
    BY TypeFacts DEF BridgeInv
  <2> QED BY <1>2, <2>1, ElementsAppend
<1> HIDE DEF seen
<1>4. bridge' = Bridge("row", bridge.cur, bridge.todo, bridge.k, seen)
  BY <1>1 DEF BridgeInv, TypeInv, Shapes, Bridge
<1>5. /\ bridge'.pc = "row" /\ bridge'.cur = bridge.cur /\ bridge'.todo = bridge.todo
      /\ bridge'.k = bridge.k /\ bridge'.seen = seen
  BY <1>4 DEF Bridge
<1>6. TypeOK'
  <2>1. handled' \subseteq 1 .. MaxRow
    BY <1>1, <1>2 DEF BridgeInv, TypeInv, TypeOK
  <2> QED BY <1>1, <1>3, <1>5, <2>1 DEF BridgeInv, TypeInv, TypeOK
<1>7. Shapes' /\ BatchOK'
  BY <1>1, <1>2, <1>4, <1>5 DEF BridgeInv, TypeInv, Shapes, BatchOK
<1>8. ProgressOK'
  <2>1. \A m \in 1 .. bridge.cur : m = bridge.cur \/ m \in 1 .. bridge.cur - 1
    BY <1>2
  <2>2. 1 .. bridge.cur \subseteq handled' \cup old' \cup dropped'
    BY <1>1, <2>1 DEF BridgeInv, ProgressOK
  <2> QED BY <1>1, <1>3, <1>5, <2>2 DEF BridgeInv, ProgressOK
<1>9. ListsOK'
  BY <1>1, <1>3, <1>5 DEF BridgeInv, ListsOK
<1> QED BY <1>6, <1>7, <1>8, <1>9 DEF BridgeInv, TypeInv

LEMMA SaveStep ==
  ASSUME ConstantsOK, BridgeInv, Save
  PROVE  BridgeInv'
<1> DEFINE kept == LastN(bridge.seen, SeenMax)
<1>1. /\ bridge' = [bridge EXCEPT !.pc = "poll", !.seen = kept] /\ bridge.pc = "row"
      /\ UNCHANGED <<rows, recent, starts, posts, tries, handled, old, dropped>>
      /\ \/ file' = [cur |-> bridge.cur, seen |-> kept] /\ unsaved' = FALSE /\ faults' = faults
         \/ file' = file /\ unsaved' = TRUE /\ faults < MaxFaults /\ faults' = faults + 1
  BY DEF Save
<1>2. /\ bridge.seen \in Seq(1 .. MaxRow) /\ Len(bridge.seen) \in Nat /\ SeenMax \in Nat
  BY TypeFacts DEF BridgeInv
<1>3. /\ kept \in Seq(1 .. MaxRow) /\ Elements(kept) \subseteq Elements(bridge.seen)
      /\ kept = bridge.seen \/ Len(kept) = SeenMax
  BY <1>2, LastNKeeps
<1> HIDE DEF kept
<1>4. bridge' = Bridge("poll", bridge.cur, bridge.todo, bridge.k, kept)
  BY <1>1 DEF BridgeInv, TypeInv, Shapes, Bridge
<1>5. /\ bridge'.pc = "poll" /\ bridge'.cur = bridge.cur /\ bridge'.todo = bridge.todo
      /\ bridge'.k = bridge.k /\ bridge'.seen = kept
  BY <1>4 DEF Bridge
<1>6. faults' \in 0 .. MaxFaults
  BY <1>1, SMTT(30) DEF ConstantsOK, BridgeInv, TypeInv, TypeOK
<1>7. CASE file' = [cur |-> bridge.cur, seen |-> kept] /\ unsaved' = FALSE
  <2>1. file'.cur = bridge.cur /\ file'.seen = kept
    BY <1>7
  <2>2. TypeOK'
    BY <1>1, <1>3, <1>5, <1>6, <1>7, <2>1 DEF BridgeInv, TypeInv, TypeOK
  <2>3. Shapes' /\ BatchOK'
    BY <1>1, <1>4, <1>5, <1>7, <2>1 DEF BridgeInv, TypeInv, Shapes, BatchOK
  <2>4. ProgressOK'
    BY <1>1, <1>3, <1>5, <2>1 DEF BridgeInv, ProgressOK
  <2>5. ListsOK'
    BY <1>5, <2>1 DEF ListsOK
  <2> QED BY <2>2, <2>3, <2>4, <2>5 DEF BridgeInv, TypeInv
<1>8. CASE file' = file /\ unsaved' = TRUE
  <2>1. TypeOK'
    BY <1>1, <1>3, <1>5, <1>6, <1>8 DEF BridgeInv, TypeInv, TypeOK
  <2>2. Shapes' /\ BatchOK'
    BY <1>1, <1>4, <1>5, <1>8 DEF BridgeInv, TypeInv, Shapes, BatchOK
  <2>3. ProgressOK'
    BY <1>1, <1>3, <1>5, <1>8 DEF BridgeInv, ProgressOK
  <2>4. ListsOK'
    BY <1>1, <1>2, <1>3, <1>5, <1>8 DEF BridgeInv, ListsOK
  <2> QED BY <2>1, <2>2, <2>3, <2>4 DEF BridgeInv, TypeInv
<1> QED BY <1>1, <1>7, <1>8

LEMMA CrashStep ==
  ASSUME ConstantsOK, BridgeInv, Crash
  PROVE  BridgeInv'
<1>1. /\ bridge' = Down
      /\ UNCHANGED <<rows, file, recent, starts, faults, posts, tries, handled, old, dropped, unsaved>>
  BY DEF Crash, history
<1>2. /\ bridge'.pc = "down" /\ bridge'.cur = 0 /\ bridge'.todo = <<>> /\ bridge'.k = 1
      /\ bridge'.seen = <<>>
  BY <1>1 DEF Down, Bridge
<1>3. Elements(<<>>) = {}
  BY DEF Elements
<1>4. Len(rows) \in Nat /\ Len(Order) \in Nat /\ MaxRow \in Nat
  BY TypeFacts DEF BridgeInv
<1>5. TypeOK'
  <2>1. 0 \in 0 .. MaxRow /\ 1 \in 1 .. Len(Order) + 1 /\ <<>> \in Seq(1 .. MaxRow)
    BY <1>4
  <2> QED BY <1>1, <1>2, <2>1 DEF BridgeInv, TypeInv, TypeOK
<1>6. Shapes' /\ BatchOK'
  BY <1>1, <1>2, <1>4 DEF Down, BridgeInv, TypeInv, Shapes, BatchOK
<1>7. ProgressOK' /\ ListsOK'
  BY <1>1, <1>2, <1>3 DEF BridgeInv, ProgressOK, ListsOK
<1> QED BY <1>5, <1>6, <1>7 DEF BridgeInv, TypeInv

LEMMA ForgetStep ==
  ASSUME BridgeInv, NEW k \in Keys, Forget(k)
  PROVE  BridgeInv'
BY DEF Forget, history, BridgeInv, TypeInv, TypeOK, Shapes, BatchOK, ProgressOK, ListsOK

LEMMA BridgeStep == ASSUME ConstantsOK, BridgeInv, [Next]_vars PROVE BridgeInv'
<1>1. CASE UNCHANGED vars
  BY <1>1 DEF vars, BridgeInv, TypeInv, TypeOK, Shapes, BatchOK, ProgressOK, ListsOK
<1> QED BY <1>1, RecordStep, StartsStep, FetchStep, TakeRowStep, DispatchStep,
           RowRaisesStep, EndRowStep, SaveStep, ForgetStep, CrashStep DEF Next, Loop

LEMMA BridgeAlways == ASSUME ConstantsOK PROVE Spec => []BridgeInv
<1>1. Init => BridgeInv
  BY BridgeInit
<1>2. BridgeInv /\ [Next]_vars => BridgeInv'
  BY BridgeStep
<1> QED BY <1>1, <1>2, PTL DEF Spec

\* Every variable keeps its type.
THEOREM TypeCorrect == ASSUME ConstantsOK PROVE Spec => []TypeOK
<1>1. BridgeInv => TypeOK
  BY DEF BridgeInv, TypeInv
<1> QED BY <1>1, BridgeAlways, PTL

\* Wherever run_loop is killed, and whatever save or row raises, the cursor in
\* the state file is not ahead of the rows that were dealt with or passed over,
\* save for those that raised themselves.
THEOREM NoneSkipped == ASSUME ConstantsOK PROVE Spec => []NothingSkipped
<1>1. BridgeInv => NothingSkipped
  BY DEF BridgeInv, ProgressOK, NothingSkipped
<1> QED BY <1>1, BridgeAlways, PTL

\* A row of the state file is posted again only after a failed save of a full
\* list (save_state cuts the list in memory first).
THEOREM NoneRepeated == ASSUME ConstantsOK PROVE Spec => NoRepeat
<1>1. BridgeInv /\ [Next]_vars =>
        [\A i \in 1 .. MaxRow : posts'[i] # posts[i] /\ i \in Elements(file.seen)
           => unsaved /\ Len(bridge.seen) >= SeenMax]_vars
  <2> SUFFICES ASSUME BridgeInv, Next, NEW i \in 1 .. MaxRow,
                      posts'[i] # posts[i], i \in Elements(file.seen)
               PROVE  unsaved /\ Len(bridge.seen) >= SeenMax
    OBVIOUS
  <2>1. CASE Dispatch
    <3>1. i = bridge.cur /\ bridge.pc = "hooks"
      BY <2>1 DEF Dispatch, BridgeInv, TypeInv, TypeOK
    <3> QED BY <3>1 DEF BridgeInv, ListsOK
  <2>2. CASE ~ Dispatch
    <3>1. posts' = posts
      BY <2>2 DEF Next, Loop, Record, Start, StartBackfill, Enter, Fetch, TakeRow, RowRaises,
                  EndRow, Save, Forget, Crash, history
    <3> QED BY <3>1
  <2> QED BY <2>1, <2>2
<1> QED BY <1>1, BridgeAlways, PTL DEF Spec, NoRepeat

-----------------------------------------------------------------------------
(* Every endpoint is told                                                  *)

(* What an endpoint has been told stays so while rows are only added.      *)
Extended == \A m \in DOMAIN rows : m \in DOMAIN rows' /\ rows'[m] = rows[m]

LEMMA RowsExtended == ASSUME ConstantsOK, BridgeInv, [Next]_vars PROVE Extended
<1>1. rows \in Seq(Events)
  BY TypeFacts DEF BridgeInv
<1>2. ASSUME NEW row \in Events, Record(row)
      PROVE  Extended
  <2>1. rows' = Append(rows, row)
    BY <1>2 DEF Record
  <2> QED BY <1>1, <2>1 DEF Extended
<1>3. ASSUME rows' = rows
      PROVE  Extended
  BY <1>3 DEF Extended
<1> QED BY <1>2, <1>3 DEF vars, Next, Loop, Start, StartBackfill, Enter, Fetch, TakeRow, Dispatch,
                          RowRaises, EndRow, Save, Forget, Crash

\* A step that neither handles a row nor moves an endpoint on.
LEMMA ToldFrame ==
  ASSUME ConstantsOK, BridgeInv, ToldOK, Extended, tries \subseteq tries', handled' = handled,
         recent' \subseteq recent,
         bridge'.pc = "hooks" =>
           /\ bridge.pc = "hooks" /\ bridge'.cur = bridge.cur /\ bridge'.k = bridge.k
  PROVE  ToldOK'
<1>0. handled \subseteq DOMAIN rows /\ (bridge.pc = "hooks" => bridge.cur \in DOMAIN rows)
  BY TypeFacts DEF BridgeInv, TypeInv, BatchOK
<1>1. ASSUME NEW i \in handled', NEW h \in Hooks, Violation(rows[i], h)'
      PROVE  Told(i, h)'
  <2>1. i \in DOMAIN rows /\ rows'[i] = rows[i] /\ Violation(rows[i], h)
    BY <1>0, <1>1 DEF Extended, Violation
  <2>2. Told(i, h)
    BY <1>1, <2>1 DEF ToldOK
  <2> QED BY <2>1, <2>2 DEF Told, Extended
<1>2. ASSUME NEW key \in recent'
      PROVE  \E j \in DOMAIN rows', h \in Hooks :
               rows'[j].key = key /\ <<j, h>> \in tries' /\ Violation(rows[j], h)'
  <2>1. PICK j \in DOMAIN rows, h \in Hooks :
          rows[j].key = key /\ <<j, h>> \in tries /\ Violation(rows[j], h)
    BY <1>2 DEF ToldOK
  <2>2. j \in DOMAIN rows' /\ rows'[j] = rows[j]
    BY <2>1 DEF Extended
  <2>3. Violation(rows[j], h)'
    BY <2>1, <2>2 DEF Violation
  <2> QED BY <2>1, <2>2, <2>3
<1>3. ASSUME bridge'.pc = "hooks", NEW m \in 1 .. bridge'.k - 1,
             Violation(rows[bridge.cur], Order[m])'
      PROVE  Told(bridge.cur, Order[m])'
  <2>1. /\ bridge.cur \in DOMAIN rows /\ bridge'.cur = bridge.cur
        /\ rows'[bridge.cur] = rows[bridge.cur] /\ m \in 1 .. bridge.k - 1
    BY <1>0, <1>3 DEF Extended
  <2>2. Violation(rows[bridge.cur], Order[m])
    BY <1>3, <2>1 DEF Violation
  <2>3. Told(bridge.cur, Order[m])
    BY <1>3, <2>1, <2>2 DEF ToldOK
  <2> QED BY <2>1, <2>3 DEF Told, Extended
<1> QED BY <1>1, <1>2, <1>3 DEF ToldOK

LEMMA TakeRowTold ==
  ASSUME ConstantsOK, BridgeInv, ToldOK, TakeRow
  PROVE  ToldOK'
<1>1. /\ UNCHANGED <<rows, tries, handled, recent>> /\ bridge'.k = 1
  BY DEF TakeRow, history, BridgeInv, TypeInv, Shapes, Bridge
<1>2. 1 .. bridge'.k - 1 = {}
  BY <1>1
<1> QED BY <1>1, <1>2, ZenonT(30) DEF ToldOK, Told, Violation

\* An endpoint is passed over only if it does not want the row, or one with the
\* same key was tried there: with endpoints apart, at no other.
LEMMA DispatchTold ==
  ASSUME ConstantsOK, EndpointsApart, BridgeInv, ToldOK, Dispatch
  PROVE  ToldOK'
<1>0. PICK i, h : i = bridge.cur /\ h = Order[bridge.k]
  OBVIOUS
<1>1. /\ UNCHANGED <<rows, handled>> /\ tries \subseteq tries'
      /\ bridge.pc = "hooks" /\ bridge.k \in DOMAIN Order
      /\ bridge' = [bridge EXCEPT !.k = bridge.k + 1]
  BY DEF Dispatch
<1>2. bridge'.cur = i /\ bridge'.k = bridge.k + 1 /\ bridge'.pc = "hooks"
  BY <1>0, <1>1 DEF BridgeInv, TypeInv, Shapes, Bridge
<1>3. /\ i \in DOMAIN rows /\ rows[i] \in Events /\ h \in Hooks /\ bridge.k \in Nat
      /\ \A j \in DOMAIN rows : rows[j] \in Events
  <2>1. /\ i \in DOMAIN rows /\ rows \in Seq(Events) /\ bridge.k \in Nat
    BY <1>0, <1>1, TypeFacts, SMTT(30) DEF BridgeInv, TypeInv, BatchOK
  <2>2. h \in Hooks
    BY <1>0, <1>1 DEF ConstantsOK
  <2> QED BY <2>1, <2>2
<1>4. \A j \in DOMAIN rows, g \in Hooks : Told(j, g) => Told(j, g)'
  BY <1>1 DEF Told
<1>5. \A j \in DOMAIN rows, g \in Hooks : Violation(rows[j], g)' <=> Violation(rows[j], g)
  BY <1>1 DEF Violation
<1>6. Violation(rows[i], h) => Told(i, h)'
  <2>1. CASE Violation(rows[i], h) /\ rows[i].key \notin recent
    <3>1. tries' = tries \cup {<<i, h>>}
      BY <1>0, <2>1 DEF Dispatch
    <3> QED BY <1>1, <1>3, <3>1 DEF Told
  <2>2. CASE Violation(rows[i], h) /\ rows[i].key \in recent
    <3>1. PICK j \in DOMAIN rows, g \in Hooks :
            rows[j].key = rows[i].key /\ <<j, g>> \in tries /\ Violation(rows[j], g)
      BY <2>2 DEF ToldOK
    <3>2. g = h
      BY <1>3, <2>2, <3>1 DEF EndpointsApart
    <3>3. Told(i, h)
      BY <3>1, <3>2 DEF Told
    <3> QED BY <1>3, <1>4, <3>3
  <2> QED BY <2>1, <2>2
<1>7. ASSUME NEW j \in handled', NEW g \in Hooks, Violation(rows[j], g)'
      PROVE  Told(j, g)'
  <2>1. j \in handled /\ j \in DOMAIN rows
    BY <1>1, <1>7 DEF BridgeInv, TypeInv, BatchOK
  <2> QED BY <1>4, <1>5, <1>7, <2>1 DEF ToldOK
<1>8. ASSUME NEW key \in recent'
      PROVE  \E j \in DOMAIN rows', g \in Hooks :
               rows'[j].key = key /\ <<j, g>> \in tries' /\ Violation(rows[j], g)'
  <2>1. CASE key \in recent
    <3>1. PICK j \in DOMAIN rows, g \in Hooks :
            rows[j].key = key /\ <<j, g>> \in tries /\ Violation(rows[j], g)
      BY <2>1 DEF ToldOK
    <3> QED BY <1>1, <1>5, <3>1
  <2>2. CASE key \notin recent
    <3>1. /\ key = rows[i].key /\ tries' = tries \cup {<<i, h>>} /\ Violation(rows[i], h)
      BY <1>0, <1>8, <2>2 DEF Dispatch
    <3> QED BY <1>1, <1>3, <1>5, <3>1
  <2> QED BY <2>1, <2>2
<1>9. ASSUME NEW m \in 1 .. bridge'.k - 1, Violation(rows[bridge.cur], Order[m])'
      PROVE  Told(bridge.cur, Order[m])'
  <2>0. m \in 1 .. bridge.k
    <3>1. bridge'.k - 1 = bridge.k
      BY <1>2, <1>3
    <3> QED BY <1>9, <3>1
  <2>1. Violation(rows[i], Order[m])
    BY <1>0, <1>1, <1>2, <1>9 DEF Violation
  <2>2. CASE m = bridge.k
    BY <1>0, <1>2, <1>6, <2>1, <2>2 DEF Told
  <2>3. CASE m # bridge.k
    <3>1. m \in 1 .. bridge.k - 1
      BY <1>3, <2>0, <2>3
    <3>2. Told(i, Order[m])
      BY <1>0, <1>1, <2>1, <3>1 DEF ToldOK
    <3> QED BY <1>0, <1>1, <1>2, <3>2 DEF Told
  <2> QED BY <2>2, <2>3
<1> QED BY <1>2, <1>7, <1>8, <1>9 DEF ToldOK

\* A key that a row brings in before it raises was tried.
LEMMA RowRaisesTold ==
  ASSUME ConstantsOK, EndpointsApart, BridgeInv, ToldOK, RowRaises
  PROVE  ToldOK'
<1>0. PICK i, h : i = bridge.cur /\ h = Order[bridge.k]
  OBVIOUS
<1>1. /\ UNCHANGED <<rows, handled>> /\ tries \subseteq tries'
      /\ bridge.pc = "hooks" /\ bridge.k \in DOMAIN Order
      /\ bridge' = [bridge EXCEPT !.pc = "poll", !.todo = <<>>]
  BY DEF RowRaises
<1>2. bridge'.pc = "poll"
  BY <1>1 DEF BridgeInv, TypeInv, Shapes, Bridge
<1>3. /\ i \in DOMAIN rows /\ h \in Hooks /\ handled \subseteq DOMAIN rows
  <2>1. i \in DOMAIN rows /\ handled \subseteq DOMAIN rows
    BY <1>0, <1>1, TypeFacts, SMTT(30) DEF BridgeInv, TypeInv, BatchOK
  <2>2. h \in Hooks
    BY <1>0, <1>1 DEF ConstantsOK
  <2> QED BY <2>1, <2>2
<1>4. \A j \in DOMAIN rows, g \in Hooks : Told(j, g) => Told(j, g)'
  BY <1>1 DEF Told
<1>5. \A j \in DOMAIN rows, g \in Hooks : Violation(rows[j], g)' <=> Violation(rows[j], g)
  BY <1>1 DEF Violation
<1>6. ASSUME NEW j \in handled', NEW g \in Hooks, Violation(rows[j], g)'
      PROVE  Told(j, g)'
  <2>1. j \in handled /\ j \in DOMAIN rows
    BY <1>1, <1>3, <1>6
  <2> QED BY <1>4, <1>5, <1>6, <2>1 DEF ToldOK
<1>7. ASSUME NEW key \in recent'
      PROVE  \E j \in DOMAIN rows', g \in Hooks :
               rows'[j].key = key /\ <<j, g>> \in tries' /\ Violation(rows[j], g)'
  <2>1. CASE key \in recent
    <3>1. PICK j \in DOMAIN rows, g \in Hooks :
            rows[j].key = key /\ <<j, g>> \in tries /\ Violation(rows[j], g)
      BY <2>1 DEF ToldOK
    <3> QED BY <1>1, <1>5, <3>1
  <2>2. CASE key \notin recent
    <3>1. key = rows[i].key /\ tries' = tries \cup {<<i, h>>} /\ Violation(rows[i], h)
      BY <1>0, <1>7, <2>2 DEF RowRaises
    <3> QED BY <1>1, <1>3, <1>5, <3>1
  <2> QED BY <2>1, <2>2
<1> QED BY <1>2, <1>6, <1>7 DEF ToldOK

LEMMA EndRowTold ==
  ASSUME ConstantsOK, EndpointsApart, BridgeInv, ToldOK, EndRow
  PROVE  ToldOK'
<1>1. /\ UNCHANGED <<rows, tries, recent>> /\ handled' = handled \cup {bridge.cur}
      /\ bridge.pc = "hooks" /\ bridge.k \notin DOMAIN Order
  BY DEF EndRow
<1>2. bridge'.pc = "row"
  BY DEF EndRow, BridgeInv, TypeInv, Shapes, Bridge
<1>3. \A h \in Hooks : \E m \in 1 .. bridge.k - 1 : h = Order[m]
  <2>0. /\ Len(Order) \in Nat /\ DOMAIN Order = 1 .. Len(Order)
        /\ bridge.k \in 1 .. Len(Order) + 1
    BY TypeFacts DEF BridgeInv
  <2>1. bridge.k = Len(Order) + 1 /\ Len(Order) \in Nat /\ DOMAIN Order = 1 .. Len(Order)
    BY <1>1, <2>0
  <2>2. bridge.k - 1 = Len(Order)
    BY <2>1
  <2> QED BY <2>1, <2>2 DEF EndpointsApart, Elements
<1>4. \A h \in Hooks : Violation(rows[bridge.cur], h) => Told(bridge.cur, h)
  BY <1>1, <1>3 DEF ToldOK
<1>5. \A i \in handled', h \in Hooks : Violation(rows[i], h) => Told(i, h)
  BY <1>1, <1>4 DEF ToldOK
<1>6. \A i \in handled', h \in Hooks : Violation(rows'[i], h) => Told(i, h)'
  BY <1>1, <1>5 DEF Told
<1> QED BY <1>1, <1>2, <1>6, SMTT(30) DEF ToldOK, Violation

LEMMA ToldStep ==
  ASSUME ConstantsOK, EndpointsApart, BridgeInv, ToldOK, [Next]_vars
  PROVE  ToldOK'
<1>0. Extended
  BY RowsExtended
<1>1. ASSUME UNCHANGED <<tries, handled, recent, bridge>>
      PROVE  ToldOK'
  BY <1>0, <1>1, ToldFrame
<1>2. ASSUME NEW row \in Events, Record(row)
      PROVE  ToldOK'
  BY <1>1, <1>2 DEF Record, history
<1>3. ASSUME Start \/ \E n \in 1 .. MaxRow : StartBackfill(n)
      PROVE  ToldOK'
  <2>1. UNCHANGED <<tries, handled>> /\ recent' = {} /\ bridge'.pc = "poll"
    BY <1>3 DEF Start, StartBackfill, Enter, Bridge
  <2> QED BY <1>0, <2>1, ToldFrame
<1>4. ASSUME Fetch \/ Save
      PROVE  ToldOK'
  <2>1. UNCHANGED <<tries, handled, recent>> /\ bridge'.pc # "hooks"
    BY <1>4 DEF Fetch, Save, history, BridgeInv, TypeInv, Shapes, Bridge
  <2> QED BY <1>0, <2>1, ToldFrame
<1>5. ASSUME Crash
      PROVE  ToldOK'
  <2>1. UNCHANGED <<tries, handled, recent>> /\ bridge'.pc = "down"
    BY <1>5 DEF Crash, history, Down, Bridge
  <2> QED BY <1>0, <2>1, ToldFrame
<1>6. ASSUME NEW k \in Keys, Forget(k)
      PROVE  ToldOK'
  <2>1. UNCHANGED <<tries, handled, bridge>> /\ recent' \subseteq recent
    BY <1>6 DEF Forget, history
  <2> QED BY <1>0, <2>1, ToldFrame
<1>7. CASE UNCHANGED vars
  BY <1>1, <1>7 DEF vars
<1> QED BY <1>2, <1>3, <1>4, <1>5, <1>6, <1>7, TakeRowTold, DispatchTold,
           RowRaisesTold, EndRowTold DEF Next, Loop

\* Every endpoint that a row is meant for was sent that row, or one with the
\* same key, before run_loop goes on to the next row, if no two endpoints want
\* violations of one key (is_violation, the table recent).
THEOREM EndpointsTold ==
  ASSUME ConstantsOK, EndpointsApart
  PROVE  Spec => []EveryEndpointTold
<1>1. Init => ToldOK
  BY DEF Init, ToldOK, Down, Bridge
<1>2. BridgeInv /\ ToldOK /\ [Next]_vars => ToldOK'
  BY ToldStep
<1>3. ToldOK => EveryEndpointTold
  BY DEF ToldOK, EveryEndpointTold, Told
<1> QED BY <1>1, <1>2, <1>3, BridgeAlways, PTL DEF Spec
-----------------------------------------------------------------------------
(* NeighborWalk                                                            *)

Frames == [at : Addrs, left : 1 .. MaxHops, rest : Seq(Addrs)]
N == Walk!Cardinality(Addrs)

(* The calls that have not returned: each is for an address of its own,    *)
(* visited, and reached from the seed by as many hops as there are calls   *)
(* below it.                                                               *)
CallsOK(s, v) ==
  /\ \A k \in DOMAIN s :
       /\ s[k].left = hops - k + 1
       /\ s[k].at \in v /\ answers[s[k].at] = "answers"
       /\ s[k].at \in Walk!Reach(k - 1)
       /\ Elements(s[k].rest) \subseteq Elements(link[s[k].at])
  /\ \A j, k \in DOMAIN s : s[j].at = s[k].at => j = k

(* The devices whose neighbours are to be found whatever happens.          *)
Wide(a) == hops >= N \/ (a = seed /\ hops >= 2)

(* The neighbours of such a device are in w or still on its list.          *)
Pending(s, v, w) ==
  \A a \in v : answers[a] = "answers" /\ Wide(a) =>
    \A i \in DOMAIN link[a] :
      \/ link[a][i] \in w
      \/ \E k \in DOMAIN s : s[k].at = a /\ link[a][i] \in Elements(s[k].rest)

WalkOK ==
  method = "neighbours" =>
    /\ \A a \in Addrs : job[a] = "none"
    /\ pc # "start" => seed \in visited
    /\ CallsOK(stack, visited)
    /\ visited \subseteq Walk!Reach(hops - 1)
    /\ pc \in {"run", "done"} => Pending(stack, visited, visited)

ScanOK ==
  method = "range" =>
    /\ visited = {a \in Addrs : job[a] \in {"scanning", "done"}}
    /\ \A a \in Addrs : job[a] = "scanning" => answers[a] # "refuses"
    /\ pc = "run" => \A a \in Addrs : job[a] # "none"
    /\ pc = "done" => \A a \in Addrs : job[a] = "done"
    /\ stack = <<>> /\ pc # "interrupted"

Listed == {a \in visited : answers[a] # "refuses" /\ job[a] # "scanning"}

WalkInv ==
  /\ Walk!TypeOK
  /\ pc = "start" => visited = {} /\ \A a \in Addrs : job[a] = "none"
  /\ pc # "run" => stack = <<>>
  /\ found = [a \in Addrs |-> IF a \in Listed THEN Walk!DeviceInfo(a) ELSE Walk!Nothing]
  /\ WalkOK /\ ScanOK

-----------------------------------------------------------------------------
(* Numbers and sequences                                                   *)

\* Induction over the numbers, for a set of them: the least number outside S
\* would contradict the step.
LEMMA InAll ==
  ASSUME NEW S, 0 \in S, \A n \in Nat : n \in S => n + 1 \in S
  PROVE  \A n \in Nat : n \in S
<1> DEFINE R == OpToRel(<, Nat)
           T == {n \in Nat : n \notin S}
<1>1. IsWellFoundedOn(R, Nat)
  BY NatLessThanWellFounded
<1>2. \A m, n \in Nat : m < n => <<m, n>> \in R
  BY DEF OpToRel
<1> HIDE DEF R
<1>3. SUFFICES ASSUME T # {} PROVE FALSE
  OBVIOUS
<1>4. PICK n \in T : \A m \in T : ~ (<<m, n>> \in R)
  BY <1>1, <1>3, WFMin
<1>5. n # 0 /\ n \in Nat /\ n - 1 \in Nat /\ n - 1 < n
  BY <1>4
<1>6. n - 1 \in S
  BY <1>2, <1>4, <1>5
<1> QED BY <1>4, <1>5, <1>6

LEMMA SeqType ==
  ASSUME NEW S, NEW s \in Seq(S)
  PROVE  /\ Len(s) \in Nat /\ DOMAIN s = 1 .. Len(s)
         /\ \A k \in DOMAIN s : s[k] \in S
         /\ s # <<>> => Len(s) >= 1 /\ Len(s) \in DOMAIN s
<1>1. Len(s) \in Nat /\ DOMAIN s = 1 .. Len(s) /\ \A k \in DOMAIN s : s[k] \in S
  OBVIOUS
<1>2. s # <<>> => Len(s) # 0
  OBVIOUS
<1> QED BY <1>1, <1>2

LEMMA SeqRest ==
  ASSUME NEW S, NEW s \in Seq(S), s # <<>>
  PROVE  /\ Head(s) \in S /\ Tail(s) \in Seq(S)
         /\ Elements(s) = {Head(s)} \cup Elements(Tail(s))
<1>1. Len(s) \in Nat /\ Len(s) # 0 /\ DOMAIN s = 1 .. Len(s)
  OBVIOUS
<1>2. /\ Head(s) \in S /\ Tail(s) \in Seq(S) /\ Head(s) = s[1] /\ 1 \in DOMAIN s
      /\ DOMAIN Tail(s) = 1 .. Len(s) - 1
      /\ \A m \in 1 .. Len(s) - 1 : Tail(s)[m] = s[m + 1]
  BY <1>1
<1>3. ASSUME NEW m \in DOMAIN s PROVE s[m] = Head(s) \/ s[m] \in Elements(Tail(s))
  <2>1. CASE m = 1
    BY <1>2, <2>1
  <2>2. CASE m # 1
    <3>1. m - 1 \in 1 .. Len(s) - 1 /\ (m - 1) + 1 = m
      BY <1>1, <2>2
    <3> QED BY <1>2, <3>1 DEF Elements
  <2> QED BY <2>1, <2>2
<1>4. ASSUME NEW m \in 1 .. Len(s) - 1 PROVE Tail(s)[m] \in Elements(s)
  <2>1. m + 1 \in DOMAIN s
    BY <1>1
  <2> QED BY <1>2, <2>1 DEF Elements
<1> QED BY <1>2, <1>3, <1>4 DEF Elements

-----------------------------------------------------------------------------
(* What Within is.                                                         *)

\* FiniteSets as NeighborWalk has it and as it is here.
LEMMA SameCardinality ==
  \A S : Walk!Cardinality(S) = Cardinality(S) /\ (Walk!IsFiniteSet(S) <=> IsFiniteSet(S))
BY DEF Walk!Cardinality, Cardinality, Walk!IsFiniteSet, IsFiniteSet

LEMMA AddrsFinite ==
  ASSUME Walk!ConstantsOK
  PROVE  N \in Nat /\ IsFiniteSet(Addrs)
BY FS_CardinalityType, SameCardinality DEF Walk!ConstantsOK, N

\* The equation that defines Within has a solution.
LEMMA WithinStep ==
  ASSUME Walk!ConstantsOK
  PROVE  /\ Walk!Within[0] = {seed}
         /\ \A n \in 1 .. N : Walk!Within[n] = Walk!Within[n - 1] \cup Walk!Neighbours(Walk!Within[n - 1])
<1> DEFINE At(w, n) == IF n = 0 THEN {seed} ELSE w[n - 1] \cup Walk!Neighbours(w[n - 1])
           Solves(w, m) == w = [n \in 0 .. m |-> At(w, n)]
           S == {m \in Nat : \E w : Solves(w, m)}
<1>1. 0 \in S
  <2>1. Solves([n \in 0 .. 0 |-> {seed}], 0)
    OBVIOUS
  <2> HIDE DEF Solves
  <2> QED BY <2>1
<1>2. ASSUME NEW m \in Nat, m \in S PROVE m + 1 \in S
  <2>1. PICK w : Solves(w, m)
    BY <1>2
  <2> DEFINE u == [n \in 0 .. m + 1 |-> At(w, n)]
  <2>2. \A n \in 0 .. m : w[n] = At(w, n)
    BY <2>1
  <2>3. \A n \in 0 .. m : u[n] = w[n]
    <3>1. \A n \in 0 .. m + 1 : u[n] = At(w, n)
      OBVIOUS
    <3>2. \A n \in 0 .. m : n \in 0 .. m + 1
      OBVIOUS
    <3> HIDE DEF At, u
    <3> QED BY <2>2, <3>1, <3>2
  <2>4. ASSUME NEW n \in 0 .. m + 1 PROVE At(w, n) = At(u, n)
    <3>1. CASE n = 0
      BY <3>1
    <3>2. CASE n # 0
      <4>1. n - 1 \in 0 .. m
        BY <3>2
      <4>2. u[n - 1] = w[n - 1]
        BY <2>3, <4>1
      <4> HIDE DEF u
      <4> QED BY <3>2, <4>2
    <3> QED BY <3>1, <3>2
  <2>5. Solves(u, m + 1)
    <3> HIDE DEF At
    <3> QED BY <2>4
  <2> HIDE DEF u, Solves
  <2> QED BY <2>5
<1>3. \A m \in Nat : m \in S
  <2> HIDE DEF S
  <2> QED BY <1>1, <1>2, InAll
<1>4. \E w : Solves(w, N)
  BY <1>3, AddrsFinite
<1>5. Solves(Walk!Within, N)
  BY <1>4 DEF Walk!Within, N
<1>6. N \in Nat
  BY AddrsFinite
<1>7. \A n \in 0 .. N : Walk!Within[n] = At(Walk!Within, n)
  <2> HIDE DEF At
  <2> QED BY <1>5, <1>6
<1>8. 0 \in 0 .. N /\ \A n \in 1 .. N : n \in 0 .. N /\ n # 0
  BY <1>6
<1>9. Walk!Within[0] = {seed}
  BY <1>7, <1>8
<1>10. ASSUME NEW n \in 1 .. N PROVE Walk!Within[n] = Walk!Within[n - 1] \cup Walk!Neighbours(Walk!Within[n - 1])
  BY <1>7, <1>8
<1> QED BY <1>9, <1>10

LEMMA WithinMonotone ==
  ASSUME Walk!ConstantsOK
  PROVE  \A m \in 0 .. N, n \in 0 .. N : m <= n => Walk!Within[m] \subseteq Walk!Within[n]
<1>1. TAKE m \in 0 .. N
<1> DEFINE S == {d \in Nat : m + d <= N => Walk!Within[m] \subseteq Walk!Within[m + d]}
<1>2. m \in Nat /\ N \in Nat
  BY AddrsFinite
<1>3. 0 \in S
  <2>1. m + 0 = m
    BY <1>2
  <2> QED BY <2>1
<1>4. ASSUME NEW d \in Nat, d \in S PROVE d + 1 \in S
  <2>1. SUFFICES ASSUME m + (d + 1) <= N PROVE Walk!Within[m] \subseteq Walk!Within[m + (d + 1)]
    OBVIOUS
  <2>2. m + (d + 1) \in 1 .. N /\ (m + (d + 1)) - 1 = m + d /\ m + d <= N
    BY <1>2, <2>1
  <2>3. Walk!Within[m + d] \subseteq Walk!Within[m + (d + 1)]
    BY <2>2, WithinStep
  <2> QED BY <1>4, <2>2, <2>3
<1>5. \A d \in Nat : d \in S
  <2> HIDE DEF S
  <2> QED BY <1>3, <1>4, InAll
<1>6. TAKE n \in 0 .. N
<1>7. HAVE m <= n
<1>8. n - m \in Nat /\ m + (n - m) = n /\ n <= N
  BY <1>2, <1>7
<1> QED BY <1>5, <1>8

LEMMA SameReach ==
  ASSUME UNCHANGED Walk!device
  PROVE  Walk!Within' = Walk!Within
<1>1. link' = link /\ answers' = answers /\ seed' = seed
  BY DEF Walk!device
<1> QED BY <1>1 DEF Walk!Within, Walk!Neighbours

\* One hop more, as long as no more than all addresses are on the way.
LEMMA ReachNext ==
  ASSUME Walk!ConstantsOK, NEW k \in 1 .. N, NEW a \in Walk!Reach(k - 1), answers[a] = "answers",
         NEW b \in Elements(link[a])
  PROVE  b \in Walk!Reach(k)
<1>1. N \in Nat
  BY AddrsFinite
<1>2. Walk!Least(k - 1, N) = k - 1 /\ Walk!Least(k, N) = k
  BY <1>1 DEF Walk!Least
<1>3. a \in Walk!Within[k - 1] /\ Walk!Reach(k) = Walk!Within[k]
  BY <1>2 DEF Walk!Reach, N
<1>4. b \in Walk!Neighbours(Walk!Within[k - 1])
  BY <1>3 DEF Walk!Neighbours, Elements
<1> QED BY <1>3, <1>4, WithinStep

LEMMA ReachMonotone ==
  ASSUME Walk!ConstantsOK, NEW m \in Nat, NEW n \in Nat, m <= n
  PROVE  Walk!Reach(m) \subseteq Walk!Reach(n)
<1>1. N \in Nat
  BY AddrsFinite
<1>2. Walk!Least(m, N) \in 0 .. N /\ Walk!Least(n, N) \in 0 .. N /\ Walk!Least(m, N) <= Walk!Least(n, N)
  BY <1>1 DEF Walk!Least
<1> QED BY <1>2, WithinMonotone DEF Walk!Reach, N

\* What holds the seed and the neighbours of what it holds holds all.
LEMMA ReachClosed ==
  ASSUME Walk!ConstantsOK, NEW V, seed \in V, Walk!Neighbours(V) \subseteq V
  PROVE  \A n \in 0 .. N : Walk!Within[n] \subseteq V
<1> DEFINE S == {n \in Nat : n <= N => Walk!Within[n] \subseteq V}
<1>1. 0 \in S
  BY WithinStep
<1>2. ASSUME NEW n \in Nat, n \in S PROVE n + 1 \in S
  <2>1. SUFFICES ASSUME n + 1 <= N PROVE Walk!Within[n + 1] \subseteq V
    OBVIOUS
  <2>2. n <= N /\ n + 1 \in 1 .. N /\ (n + 1) - 1 = n
    BY <2>1, AddrsFinite
  <2>3. Walk!Within[n] \subseteq V
    BY <1>2, <2>2
  <2>4. Walk!Neighbours(Walk!Within[n]) \subseteq Walk!Neighbours(V)
    BY <2>3 DEF Walk!Neighbours
  <2>5. Walk!Within[n + 1] = Walk!Within[n] \cup Walk!Neighbours(Walk!Within[n])
    BY <2>2, WithinStep
  <2> QED BY <2>3, <2>4, <2>5
<1>3. \A n \in Nat : n \in S
  <2> HIDE DEF S
  <2> QED BY <1>1, <1>2, InAll
<1> QED BY <1>3

-----------------------------------------------------------------------------
(* The calls                                                               *)

LEMMA SeqAdd ==
  ASSUME NEW S, NEW s \in Seq(S), NEW x \in S
  PROVE  /\ s \o <<x>> \in Seq(S) /\ Len(s \o <<x>>) = Len(s) + 1
         /\ DOMAIN (s \o <<x>>) = DOMAIN s \cup {Len(s) + 1}
         /\ \A k \in DOMAIN s : (s \o <<x>>)[k] = s[k]
         /\ (s \o <<x>>)[Len(s) + 1] = x
<1>1. /\ s \o <<x>> \in Seq(S) /\ Len(s \o <<x>>) = Len(s) + 1 /\ Len(s) \in Nat
      /\ DOMAIN (s \o <<x>>) = 1 .. Len(s) + 1 /\ DOMAIN s = 1 .. Len(s)
      /\ \A k \in DOMAIN s : (s \o <<x>>)[k] = s[k]
      /\ (s \o <<x>>)[Len(s) + 1] = x
  OBVIOUS
<1> QED BY <1>1

LEMMA Lower ==
  ASSUME NEW n \in Nat, NEW k \in 1 .. n - 1
  PROVE  k \in 1 .. n /\ k # n
OBVIOUS

LEMMA SeqFront ==
  ASSUME NEW S, NEW s \in Seq(S), s # <<>>, NEW t, t = SubSeq(s, 1, Len(s) - 1)
  PROVE  /\ t \in Seq(S) /\ Len(t) = Len(s) - 1
         /\ DOMAIN t = 1 .. Len(s) - 1 /\ Len(s) \in Nat /\ Len(s) >= 1
         /\ \A k \in DOMAIN t : k \in DOMAIN s /\ k # Len(s) /\ t[k] = s[k]
<1>1. Len(s) \in Nat /\ Len(s) >= 1 /\ DOMAIN s = 1 .. Len(s)
  BY SeqType
<1>2. t \in Seq(S) /\ Len(t) = Len(s) - 1
  BY <1>1
<1>3. DOMAIN t = 1 .. Len(s) - 1
  BY <1>1, <1>2
<1>4. ASSUME NEW k \in 1 .. Len(s) - 1 PROVE k \in DOMAIN s /\ k # Len(s) /\ t[k] = s[k]
  <2>1. k \in 1 .. Len(s) /\ k # Len(s)
    BY <1>1, Lower
  <2>2. t[k] = s[k]
    BY <1>1
  <2> QED BY <1>1, <2>1, <2>2
<1> QED BY <1>1, <1>2, <1>3, <1>4

LEMMA Levels ==
  ASSUME NEW m \in Nat, NEW h \in 1 .. m, NEW n \in Nat, NEW l \in Nat, l = h - n
  PROVE  /\ l # 0 => n <= h - 1 /\ h - 1 \in Nat /\ l \in 1 .. m
         /\ l = h - (n + 1) + 1 /\ (n + 1) - 1 = n
OBVIOUS

LEMMA FrameType ==
  ASSUME NEW a \in Addrs, NEW l \in 1 .. MaxHops, link[a] \in Seq(Addrs)
  PROVE  /\ Walk!Frame(a, l) \in Frames
         /\ Walk!Frame(a, l).at = a /\ Walk!Frame(a, l).left = l /\ Walk!Frame(a, l).rest = link[a]
BY DEF Walk!Frame, Frames

LEMMA CallsFit ==
  ASSUME Walk!ConstantsOK, NEW v \in SUBSET Addrs, NEW s \in Seq(Frames), CallsOK(s, v)
  PROVE  /\ Len(s) \in Nat /\ Len(s) <= N
         /\ \A a \in Addrs \ v : Len(s) + 1 <= N
<1> DEFINE D == 1 .. Len(s)
           f == [k \in D |-> s[k].at]
<1>1. Len(s) \in Nat /\ DOMAIN s = D
  OBVIOUS
<1>2. f \in Injection(D, v)
  BY <1>1 DEF CallsOK, Injection, IsInjective
<1>3. IsFiniteSet(v) /\ IsFiniteSet(Addrs) /\ Cardinality(v) <= N /\ Cardinality(v) \in Nat
  BY AddrsFinite, FS_Subset, FS_CardinalityType, SameCardinality DEF N
<1>4. Cardinality(D) = Len(s)
  BY <1>1, FS_Interval
<1>5. Len(s) <= Cardinality(v)
  <2> HIDE DEF f, D
  <2> QED BY <1>2, <1>3, <1>4, FS_Injection
<1>6. ASSUME NEW a \in Addrs \ v PROVE Cardinality(v) + 1 <= N
  <2>1. Cardinality(v \cup {a}) = Cardinality(v) + 1 /\ v \cup {a} \subseteq Addrs
    BY <1>3, FS_AddElement
  <2> QED BY <1>3, <2>1, FS_Subset, SameCardinality DEF N
<1>7. N \in Nat
  BY AddrsFinite
<1> QED BY <1>1, <1>3, <1>5, <1>6, <1>7

\* A call for a, made when the calls below it are in order.
LEMMA VisitCall ==
  ASSUME Walk!ConstantsOK, Walk!TypeOK, NEW a \in Addrs, NEW left \in Nat, NEW below \in Seq(Frames),
         CallsOK(below, visited), visited \subseteq Walk!Reach(hops - 1),
         left = hops - Len(below), a \in Walk!Reach(Len(below)),

         Pending(below, visited, visited \cup {a}),
         left = 0 /\ a \notin visited => Pending(below, visited, visited),
         Walk!Visit(a, left, below)
  PROVE  /\ stack' \in Seq(Frames) /\ visited' \subseteq Addrs
         /\ CallsOK(stack', visited') /\ visited' \subseteq Walk!Reach(hops - 1)
         /\ Pending(stack', visited', visited')
         /\ visited \subseteq visited' /\ (left # 0 => a \in visited')
<1>1. /\ hops \in 1 .. MaxHops /\ MaxHops \in Nat /\ Len(below) \in Nat
      /\ visited \subseteq Addrs /\ link \in [Addrs -> Seq(Addrs)]
  BY DEF Walk!TypeOK, Walk!ConstantsOK
<1>d. Len(below) + 1 \notin DOMAIN below
  BY SeqType
<1>a. /\ left # 0 => Len(below) <= hops - 1 /\ hops - 1 \in Nat /\ left \in 1 .. MaxHops
      /\ left = hops - (Len(below) + 1) + 1 /\ (Len(below) + 1) - 1 = Len(below)
  BY <1>1, Levels
<1>2. CASE a \in visited \/ left = 0
  <2>1. stack' = below /\ visited' = visited
    BY <1>2 DEF Walk!Visit
  <2>2. a \in visited => visited \cup {a} = visited
    OBVIOUS
  <2>3. Pending(below, visited, visited)
    BY <1>2, <2>2
  <2> QED BY <1>1, <1>2, <2>1, <2>3
<1>3. CASE ~ (a \in visited \/ left = 0)
  <2>1. visited' = visited \cup {a}
    BY <1>3 DEF Walk!Visit
  <2>2. a \in Walk!Reach(hops - 1)
    <3>1. Len(below) <= hops - 1 /\ hops - 1 \in Nat
      BY <1>a, <1>3
    <3> QED BY <1>1, <3>1, ReachMonotone
  <2>3. CallsOK(below, visited \cup {a})
    BY DEF CallsOK
  <2>4. CASE answers[a] # "answers"
    <3>1. stack' = below
      BY <1>3, <2>4 DEF Walk!Visit
    <3>2. Pending(below, visited \cup {a}, visited \cup {a})
      BY <2>4 DEF Pending
    <3> QED BY <1>1, <2>1, <2>2, <2>3, <3>1, <3>2
  <2>5. CASE answers[a] = "answers"
    <3> DEFINE x == Walk!Frame(a, left)
               s == below \o <<x>>
               n == Len(below) + 1
    <3>1. stack' = s
      BY <1>3, <2>5 DEF Walk!Visit
    <3>2. x \in Frames /\ x.at = a /\ x.left = left /\ x.rest = link[a]
      BY <1>1, <1>a, <1>3, FrameType
    <3>3. /\ s \in Seq(Frames) /\ DOMAIN s = DOMAIN below \cup {n} /\ s[n] = x
          /\ \A k \in DOMAIN below : s[k] = below[k]
      <4> HIDE DEF x
      <4> QED BY <3>2, SeqAdd
    <3>4. n \notin DOMAIN below /\ n - 1 = Len(below) /\ left = hops - n + 1
      BY <1>a, <1>d
    <3> HIDE DEF x, s, n
    <3>5. CallsOK(s, visited \cup {a})
      <4>1. ASSUME NEW k \in DOMAIN s
            PROVE  /\ s[k].left = hops - k + 1
                   /\ s[k].at \in visited \cup {a} /\ answers[s[k].at] = "answers"
                   /\ s[k].at \in Walk!Reach(k - 1)
                   /\ Elements(s[k].rest) \subseteq Elements(link[s[k].at])
        <5>1. CASE k = n
          BY <2>5, <3>2, <3>3, <3>4, <5>1
        <5>2. CASE k # n
          <6>1. k \in DOMAIN below /\ s[k] = below[k]
            BY <3>3, <5>2
          <6> QED BY <2>3, <6>1 DEF CallsOK
        <5> QED BY <5>1, <5>2
      <4>2. ASSUME NEW k \in DOMAIN below PROVE below[k].at # a
        BY <1>3 DEF CallsOK
      <4>3. ASSUME NEW j \in DOMAIN s, NEW k \in DOMAIN s, s[j].at = s[k].at PROVE j = k
        <5>1. CASE j = n \/ k = n
          BY <3>2, <3>3, <4>2, <4>3, <5>1
        <5>2. CASE j # n /\ k # n
          <6>1. j \in DOMAIN below /\ k \in DOMAIN below /\ below[j].at = below[k].at
            BY <3>3, <4>3, <5>2
          <6> QED BY <6>1 DEF CallsOK
        <5> QED BY <5>1, <5>2
      <4> QED BY <4>1, <4>3 DEF CallsOK
    <3>6. Pending(s, visited \cup {a}, visited \cup {a})
      <4> SUFFICES ASSUME NEW b \in visited \cup {a}, answers[b] = "answers" /\ Wide(b),
                          NEW i \in DOMAIN link[b]
                   PROVE  \/ link[b][i] \in visited \cup {a}
                          \/ \E k \in DOMAIN s : s[k].at = b /\ link[b][i] \in Elements(s[k].rest)
        BY DEF Pending
      <4>1. CASE b = a
        <5>1. n \in DOMAIN s /\ s[n].at = b /\ link[b][i] \in Elements(s[n].rest)
          BY <3>2, <3>3, <4>1 DEF Elements
        <5> QED BY <5>1
      <4>2. CASE b # a
        <5>1. \/ link[b][i] \in visited \cup {a}
              \/ \E k \in DOMAIN below : below[k].at = b /\ link[b][i] \in Elements(below[k].rest)
          BY <4>2 DEF Pending
        <5> QED BY <3>3, <5>1
      <4> QED BY <4>1, <4>2
    <3> QED BY <1>1, <2>1, <2>2, <3>1, <3>3, <3>5, <3>6
  <2> QED BY <2>4, <2>5
<1> QED BY <1>2, <1>3

-----------------------------------------------------------------------------
(* The steps                                                               *)

\* What the walk found is what is listed of the devices it visited.
LEMMA VisitFinds ==
  ASSUME Walk!TypeOK, NEW a \in Addrs, NEW left, NEW below, Walk!Visit(a, left, below),
         \A b \in Addrs : job[b] = "none",
         found = [b \in Addrs |-> IF b \in Listed THEN Walk!DeviceInfo(b) ELSE Walk!Nothing]
  PROVE  found' = [b \in Addrs |-> IF b \in {c \in visited' : answers[c] # "refuses"}
                                     THEN Walk!DeviceInfo(b) ELSE Walk!Nothing]
<1> DEFINE L(v) == {c \in v : answers[c] # "refuses"}
<1>1. visited \subseteq Addrs /\ Listed = L(visited)
  BY DEF Walk!TypeOK, Listed
<1>2. CASE a \in visited \/ left = 0
  BY <1>1, <1>2 DEF Walk!Visit
<1>3. CASE ~ (a \in visited \/ left = 0)
  <2>1. /\ visited' = visited \cup {a}
        /\ found' = IF answers[a] = "refuses" THEN found ELSE [found EXCEPT ![a] = Walk!DeviceInfo(a)]
    BY <1>3 DEF Walk!Visit
  <2>2. L(visited') = IF answers[a] = "refuses" THEN L(visited) ELSE L(visited) \cup {a}
    BY <2>1
  <2>3. found' = [b \in Addrs |-> IF b \in L(visited') THEN Walk!DeviceInfo(b) ELSE Walk!Nothing]
    <3> HIDE DEF L
    <3>1. CASE answers[a] = "refuses"
      BY <1>1, <2>1, <2>2, <3>1
    <3>2. CASE answers[a] # "refuses"
      BY <1>1, <2>1, <2>2, <3>2
    <3> QED BY <3>1, <3>2
  <2> QED BY <2>3
<1> QED BY <1>2, <1>3

LEMMA FoundType ==
  ASSUME Walk!ConstantsOK, NEW L, NEW f, f = [a \in Addrs |-> IF a \in L THEN Walk!DeviceInfo(a) ELSE Walk!Nothing]
  PROVE  \A a \in Addrs : /\ f[a].type \in Walk!Types \cup {"none", "unset"}
                          /\ (f[a] # Walk!Nothing <=> a \in L)
<1>1. ASSUME NEW a \in Addrs PROVE Walk!DeviceInfo(a).type \in (Walk!Types \cup {"unset"}) /\ Walk!DeviceInfo(a) # Walk!Nothing
  <2>1. Walk!IosType(Facts[a]) \in Walk!Types
    BY DEF Walk!IosType, Walk!ConstantsOK, Walk!Types
  <2>2. Walk!DeviceInfo(a).type \in Walk!Types \cup {"unset"}
    BY <2>1 DEF Walk!DeviceInfo, Walk!Info
  <2>3. "none" \notin Walk!Types \cup {"unset"} /\ Walk!Nothing.type = "none"
    BY DEF Walk!Types, Walk!Nothing, Walk!Info
  <2> QED BY <2>2, <2>3
<1>2. Walk!Nothing.type = "none"
  BY DEF Walk!Nothing, Walk!Info
<1> QED BY <1>1, <1>2

\* The invariant after a step of the walk.
LEMMA WalkGoesOn ==
  ASSUME Walk!ConstantsOK, Walk!TypeOK, UNCHANGED <<Walk!device, job>>, method = "neighbours",
         \A a \in Addrs : job[a] = "none",
         pc' \in {"run", "done", "interrupted"},
         pc' # "run" => stack' = <<>>,
         stack' \in Seq(Frames), visited' \subseteq Addrs, seed \in visited',
         CallsOK(stack', visited'), visited' \subseteq Walk!Reach(hops - 1),
         pc' \in {"run", "done"} => Pending(stack', visited', visited'),
         found' = [b \in Addrs |-> IF b \in {c \in visited' : answers[c] # "refuses"}
                                     THEN Walk!DeviceInfo(b) ELSE Walk!Nothing]
  PROVE  WalkInv'
<1>1. /\ link' = link /\ answers' = answers /\ method' = method /\ seed' = seed /\ hops' = hops
      /\ job' = job /\ Walk!Within' = Walk!Within
  BY SameReach DEF Walk!device
<1>2. Walk!TypeOK'
  <2>1. \A a \in Addrs : found'[a].type \in Walk!Types \cup {"none", "unset"}
    BY FoundType
  <2> QED BY <1>1, <2>1 DEF Walk!TypeOK, Frames
<1>3. CallsOK(stack, visited)'
  BY <1>1 DEF CallsOK, Walk!Reach
<1>4. (visited \subseteq Walk!Reach(hops - 1))'
  BY <1>1 DEF Walk!Reach
<1>5. pc' \in {"run", "done"} => Pending(stack, visited, visited)'
  BY <1>1 DEF Pending, Wide
<1>6. WalkOK'
  BY <1>1, <1>3, <1>4, <1>5 DEF WalkOK
<1>7. ScanOK'
  BY <1>1 DEF ScanOK
<1>8. found' = [a \in Addrs |-> IF a \in Listed THEN Walk!DeviceInfo(a) ELSE Walk!Nothing]'
  <2>1. Listed' = {c \in visited' : answers[c] # "refuses"}
    BY <1>1 DEF Listed
  <2>2. \A a \in Addrs : Walk!DeviceInfo(a)' = Walk!DeviceInfo(a)
    BY <1>1 DEF Walk!DeviceInfo
  <2> QED BY <2>1, <2>2
<1> QED BY <1>2, <1>6, <1>7, <1>8 DEF WalkInv

LEMMA ReachSeed ==
  ASSUME Walk!ConstantsOK
  PROVE  Walk!Reach(0) = {seed}
<1>1. Walk!Least(0, N) = 0
  BY AddrsFinite DEF Walk!Least
<1> QED BY <1>1, WithinStep DEF Walk!Reach, N

LEMMA WalkInitInv ==
  ASSUME Walk!ConstantsOK, Walk!Init
  PROVE  WalkInv
<1>1. Walk!TypeOK
  <2>1. hops \in 1 .. MaxHops
    BY DEF Walk!Init, Walk!ConstantsOK
  <2>2. link \in [Addrs -> Seq(Addrs)]
    BY DEF Walk!Init, Walk!ConstantsOK
  <2>3. \A a \in Addrs : found[a].type = "none"
    BY DEF Walk!Init, Walk!Nothing, Walk!Info
  <2> QED BY <2>1, <2>2, <2>3 DEF Walk!Init, Walk!TypeOK
<1>2. WalkOK
  BY DEF Walk!Init, WalkOK, CallsOK
<1>3. ScanOK
  BY DEF Walk!Init, ScanOK
<1>4. found = [a \in Addrs |-> IF a \in Listed THEN Walk!DeviceInfo(a) ELSE Walk!Nothing]
  BY DEF Walk!Init, Listed
<1> QED BY <1>1, <1>2, <1>3, <1>4 DEF Walk!Init, WalkInv

LEMMA StartWalkInv ==
  ASSUME Walk!ConstantsOK, WalkInv, Walk!StartWalk
  PROVE  WalkInv'
<1>1. /\ Walk!TypeOK /\ method = "neighbours" /\ visited = {} /\ \A a \in Addrs : job[a] = "none"
      /\ pc' = "run" /\ Walk!Visit(seed, hops, <<>>) /\ UNCHANGED <<Walk!device, job>>
      /\ found = [b \in Addrs |-> IF b \in Listed THEN Walk!DeviceInfo(b) ELSE Walk!Nothing]
  BY DEF WalkInv, Walk!StartWalk
<1>2. seed \in Addrs /\ hops \in Nat /\ hops # 0
  BY <1>1 DEF Walk!TypeOK, Walk!ConstantsOK
<1>3. <<>> \in Seq(Frames) /\ Len(<<>>) = 0 /\ CallsOK(<<>>, visited)
  BY DEF CallsOK
<1>4. Pending(<<>>, visited, visited \cup {seed})
  BY <1>1 DEF Pending
<1>5. seed \in Walk!Reach(0) /\ hops = hops - 0
  BY <1>2, ReachSeed
<1>6. /\ stack' \in Seq(Frames) /\ visited' \subseteq Addrs
      /\ CallsOK(stack', visited') /\ visited' \subseteq Walk!Reach(hops - 1)
      /\ Pending(stack', visited', visited') /\ seed \in visited'
  <2>1. hops = hops - Len(<<>>) /\ seed \in Walk!Reach(Len(<<>>))
    BY <1>3, <1>5
  <2>2. visited \subseteq Walk!Reach(hops - 1)
    BY <1>1
  <2> QED BY <1>1, <1>2, <1>3, <1>4, <2>1, <2>2, VisitCall
<1> QED BY <1>1, <1>2, <1>6, VisitFinds, WalkGoesOn

LEMMA FollowInv ==
  ASSUME Walk!ConstantsOK, WalkInv, Walk!Follow
  PROVE  WalkInv'
<1> DEFINE k == Len(stack)
           t == stack[k]
           b == Head(t.rest)
           x == [t EXCEPT !.rest = Tail(@)]
           below == SubSeq(stack, 1, k - 1) \o <<x>>
<1>1. /\ Walk!TypeOK /\ pc = "run" /\ stack # <<>> /\ t.rest # <<>>
      /\ Walk!Visit(b, t.left - 1, below) /\ pc' = "run" /\ UNCHANGED <<Walk!device, job>>
      /\ found = [a \in Addrs |-> IF a \in Listed THEN Walk!DeviceInfo(a) ELSE Walk!Nothing]
  BY DEF WalkInv, Walk!Follow, Walk!Top, Walk!Below
<1>2. stack \in Seq(Frames) /\ visited \in SUBSET Addrs /\ hops \in 1 .. MaxHops /\ MaxHops \in Nat
      /\ link \in [Addrs -> Seq(Addrs)]
  BY <1>1 DEF Walk!TypeOK, Frames, Walk!ConstantsOK
<1>3. method = "neighbours"
  BY <1>1 DEF WalkInv, ScanOK, Walk!TypeOK
<1>4. /\ \A a \in Addrs : job[a] = "none"
      /\ seed \in visited /\ CallsOK(stack, visited) /\ visited \subseteq Walk!Reach(hops - 1)
      /\ Pending(stack, visited, visited)
  BY <1>1, <1>3 DEF WalkInv, WalkOK
<1>5. k \in Nat /\ k >= 1 /\ k \in DOMAIN stack /\ t \in Frames
  BY <1>1, <1>2, SeqType
<1>6. /\ b \in Addrs /\ Tail(t.rest) \in Seq(Addrs)
      /\ Elements(t.rest) = {b} \cup Elements(Tail(t.rest))
  BY <1>1, <1>5, SeqRest DEF Frames
<1>7. x \in Frames /\ x.at = t.at /\ x.left = t.left /\ x.rest = Tail(t.rest)
  BY <1>5, <1>6 DEF Frames
<1>8. /\ below \in Seq(Frames) /\ Len(below) = k /\ DOMAIN below = DOMAIN stack
      /\ below[k] = x /\ \A j \in DOMAIN stack : j # k => below[j] = stack[j]
  <2> DEFINE u == SubSeq(stack, 1, k - 1)
  <2>1. /\ u \in Seq(Frames) /\ Len(u) = k - 1 /\ DOMAIN u = 1 .. k - 1
        /\ \A j \in DOMAIN u : j \in DOMAIN stack /\ u[j] = stack[j]
    BY <1>1, <1>2, SeqFront
  <2> HIDE DEF u, x
  <2>2. /\ u \o <<x>> \in Seq(Frames) /\ Len(u \o <<x>>) = Len(u) + 1
        /\ DOMAIN (u \o <<x>>) = DOMAIN u \cup {Len(u) + 1}
        /\ \A j \in DOMAIN u : (u \o <<x>>)[j] = u[j]
        /\ (u \o <<x>>)[Len(u) + 1] = x
    BY <1>7, <2>1, SeqAdd
  <2>3. DOMAIN stack = 1 .. k
    BY <1>2, SeqType
  <2>4. (k - 1) + 1 = k /\ 1 .. k = (1 .. k - 1) \cup {k}
    BY <1>5
  <2>5. below = u \o <<x>>
    BY DEF u
  <2> HIDE DEF k, below
  <2> QED BY <2>1, <2>2, <2>3, <2>4, <2>5
<1> HIDE DEF x, below
<1>9. CallsOK(below, visited)
  <2>1. ASSUME NEW j \in DOMAIN stack PROVE below[j].at = stack[j].at /\ below[j].left = stack[j].left
    BY <1>7, <1>8
  <2>2. ASSUME NEW j \in DOMAIN stack PROVE Elements(below[j].rest) \subseteq Elements(link[stack[j].at])
    <3>1. Elements(stack[j].rest) \subseteq Elements(link[stack[j].at])
      BY <1>4 DEF CallsOK
    <3> QED BY <1>6, <1>7, <1>8, <3>1
  <2> QED BY <1>4, <1>8, <2>1, <2>2 DEF CallsOK
<1>10. /\ t.left = hops - k + 1 /\ t.at \in visited /\ answers[t.at] = "answers"
       /\ t.at \in Walk!Reach(k - 1) /\ Elements(t.rest) \subseteq Elements(link[t.at])
  BY <1>4, <1>5 DEF CallsOK
<1>11. b \in Walk!Reach(k)
  <2>1. k \in 1 .. N
    BY <1>2, <1>4, <1>5, AddrsFinite, CallsFit
  <2>2. b \in Elements(link[t.at])
    BY <1>6, <1>10
  <2> HIDE DEF k, b
  <2> QED BY <1>10, <2>1, <2>2, ReachNext
<1>12. /\ t.left - 1 = hops - k /\ t.left - 1 \in Nat
  <2>1. t.left \in 1 .. MaxHops
    BY <1>5 DEF Frames
  <2> HIDE DEF t, k
  <2> QED BY <1>2, <1>5, <1>10, <2>1
<1>13. ASSUME NEW a \in visited, answers[a] = "answers", Wide(a), NEW i \in DOMAIN link[a],
              link[a][i] \notin visited
       PROVE  \/ \E j \in DOMAIN below : below[j].at = a /\ link[a][i] \in Elements(below[j].rest)
              \/ a = t.at /\ link[a][i] = b
  <2>1. PICK j \in DOMAIN stack : stack[j].at = a /\ link[a][i] \in Elements(stack[j].rest)
    BY <1>4, <1>13 DEF Pending
  <2>2. CASE j # k
    BY <1>8, <2>1, <2>2
  <2>3. CASE j = k
    <3>1. link[a][i] \in {b} \cup Elements(Tail(t.rest)) /\ a = t.at
      BY <1>6, <2>1, <2>3
    <3>2. j \in DOMAIN below /\ below[j] = x
      BY <1>8, <2>3
    <3> HIDE DEF b, t
    <3> QED BY <1>7, <3>1, <3>2
  <2> QED BY <2>2, <2>3
<1>14. Pending(below, visited, visited \cup {b})
  BY <1>13 DEF Pending
<1>15. ASSUME t.left - 1 = 0, b \notin visited PROVE Pending(below, visited, visited)
  <2>1. k = hops
    <3> HIDE DEF k, t
    <3> QED BY <1>2, <1>5, <1>12, <1>15
  <2>2. ~ Wide(t.at)
    <3>1. SUFFICES ASSUME Wide(t.at) PROVE FALSE
      OBVIOUS
    <3>2. k + 1 <= N
      BY <1>2, <1>4, <1>6, <1>15, CallsFit
    <3>3. t.at = seed /\ hops >= 2
      <4>1. ~ (k >= N)
        <5> HIDE DEF k
        <5> QED BY <1>5, <3>2, AddrsFinite
      <4> HIDE DEF k, t
      <4> QED BY <2>1, <3>1, <4>1 DEF Wide
    <3>4. 1 \in DOMAIN stack
      BY <1>2, <1>5, SeqType
    <3>5. stack[1].at = seed
      <4>1. stack[1].at \in Walk!Reach(1 - 1) /\ 1 - 1 = 0
        BY <1>4, <3>4 DEF CallsOK
      <4> QED BY <4>1, ReachSeed
    <3>6. k = 1
      BY <1>4, <1>5, <3>3, <3>4, <3>5 DEF CallsOK
    <3> QED BY <2>1, <3>3, <3>6
  <2> QED BY <1>13, <2>2 DEF Pending
<1>16. /\ stack' \in Seq(Frames) /\ visited' \subseteq Addrs
       /\ CallsOK(stack', visited') /\ visited' \subseteq Walk!Reach(hops - 1)
       /\ Pending(stack', visited', visited') /\ visited \subseteq visited'
  <2>1. t.left - 1 = hops - Len(below) /\ b \in Walk!Reach(Len(below))
    BY <1>8, <1>11, <1>12
  <2> HIDE DEF b, t, k
  <2> QED BY <1>1, <1>4, <1>6, <1>8, <1>9, <1>12, <1>14, <1>15, <2>1, VisitCall
<1>17. found' = [a \in Addrs |-> IF a \in {c \in visited' : answers[c] # "refuses"}
                                   THEN Walk!DeviceInfo(a) ELSE Walk!Nothing]
  <2> HIDE DEF b, t, k
  <2> QED BY <1>1, <1>4, <1>6, VisitFinds
<1> HIDE DEF b, t, k
<1> QED BY <1>1, <1>3, <1>4, <1>16, <1>17, WalkGoesOn

\* What a step finds in a walk that is under way.
LEMMA WalkFacts ==
  ASSUME Walk!ConstantsOK, WalkInv, pc = "run", method = "neighbours"
  PROVE  /\ Walk!TypeOK /\ stack \in Seq(Frames) /\ visited \in SUBSET Addrs
         /\ \A a \in Addrs : job[a] = "none"
         /\ seed \in visited /\ CallsOK(stack, visited) /\ visited \subseteq Walk!Reach(hops - 1)
         /\ Pending(stack, visited, visited)
         /\ found = [b \in Addrs |-> IF b \in {c \in visited : answers[c] # "refuses"}
                                       THEN Walk!DeviceInfo(b) ELSE Walk!Nothing]
<1>1. Walk!TypeOK /\ WalkOK /\ found = [b \in Addrs |-> IF b \in Listed THEN Walk!DeviceInfo(b) ELSE Walk!Nothing]
  BY DEF WalkInv
<1>2. stack \in Seq(Frames) /\ visited \in SUBSET Addrs
  BY <1>1 DEF Walk!TypeOK, Frames
<1>3. Listed = {c \in visited : answers[c] # "refuses"}
  BY <1>1, <1>2 DEF Listed, WalkOK
<1> QED BY <1>1, <1>2, <1>3 DEF WalkOK

LEMMA ReturnInv ==
  ASSUME Walk!ConstantsOK, WalkInv, Walk!Return
  PROVE  WalkInv'
<1> DEFINE k == Len(stack)
           t == SubSeq(stack, 1, k - 1)
<1>1. /\ pc = "run" /\ stack # <<>> /\ stack[k].rest = <<>> /\ stack' = t
      /\ pc' = pc /\ visited' = visited /\ found' = found /\ UNCHANGED <<Walk!device, job>>
  BY DEF Walk!Return, Walk!Top, Walk!Below
<1>2. method = "neighbours"
  BY <1>1 DEF WalkInv, ScanOK, Walk!TypeOK
<1>3. /\ Walk!TypeOK /\ stack \in Seq(Frames) /\ visited \in SUBSET Addrs
      /\ \A a \in Addrs : job[a] = "none"
      /\ seed \in visited /\ CallsOK(stack, visited) /\ visited \subseteq Walk!Reach(hops - 1)
      /\ Pending(stack, visited, visited)
      /\ found = [b \in Addrs |-> IF b \in {c \in visited : answers[c] # "refuses"}
                                    THEN Walk!DeviceInfo(b) ELSE Walk!Nothing]
  BY <1>1, <1>2, WalkFacts
<1>4. /\ t \in Seq(Frames) /\ DOMAIN t = 1 .. k - 1 /\ k \in Nat
      /\ \A j \in DOMAIN t : j \in DOMAIN stack /\ t[j] = stack[j]
  BY <1>1, <1>3, SeqFront
<1>5. \A j \in DOMAIN stack : j \in DOMAIN t \/ j = k
  <2>1. DOMAIN stack = 1 .. k
    BY <1>3, SeqType
  <2> HIDE DEF k, t
  <2> QED BY <1>4, <2>1
<1> HIDE DEF t
<1>6. CallsOK(t, visited)
  <2>1. /\ \A j \in DOMAIN t :
             /\ stack[j].left = hops - j + 1
             /\ stack[j].at \in visited /\ answers[stack[j].at] = "answers"
             /\ stack[j].at \in Walk!Reach(j - 1)
             /\ Elements(stack[j].rest) \subseteq Elements(link[stack[j].at])
        /\ \A i, j \in DOMAIN t : stack[i].at = stack[j].at => i = j
    BY <1>3, <1>4 DEF CallsOK
  <2>2. \A j \in DOMAIN t : t[j] = stack[j]
    BY <1>4
  <2> HIDE DEF k
  <2>3. \A j \in DOMAIN t :
           /\ t[j].left = hops - j + 1
           /\ t[j].at \in visited /\ answers[t[j].at] = "answers"
           /\ t[j].at \in Walk!Reach(j - 1)
           /\ Elements(t[j].rest) \subseteq Elements(link[t[j].at])
    BY <2>1, <2>2
  <2>4. \A i, j \in DOMAIN t : t[i].at = t[j].at => i = j
    BY <2>1, <2>2
  <2> QED BY <2>3, <2>4 DEF CallsOK
<1>7. Pending(t, visited, visited)
  <2>1. Elements(stack[k].rest) = {}
    BY <1>1 DEF Elements
  <2>2. SUFFICES ASSUME NEW a \in visited, answers[a] = "answers", Wide(a),
                        NEW i \in DOMAIN link[a], link[a][i] \notin visited
                 PROVE  \E j \in DOMAIN t : t[j].at = a /\ link[a][i] \in Elements(t[j].rest)
    BY DEF Pending
  <2>3. PICK j \in DOMAIN stack : stack[j].at = a /\ link[a][i] \in Elements(stack[j].rest)
    BY <1>3, <2>2 DEF Pending
  <2>4. j # k
    BY <2>1, <2>3
  <2>5. j \in DOMAIN t /\ t[j] = stack[j]
    BY <1>4, <1>5, <2>4
  <2> QED BY <2>3, <2>5
<1> QED BY <1>1, <1>2, <1>3, <1>4, <1>6, <1>7, WalkGoesOn

\* The end of a walk.
LEMMA WalkEndInv ==
  ASSUME Walk!ConstantsOK, WalkInv, Walk!Interrupt \/ (Walk!Export /\ method = "neighbours")
  PROVE  WalkInv'
<1>1. /\ pc = "run" /\ method = "neighbours" /\ stack' = <<>>
      /\ pc' = "interrupted" \/ (pc' = "done" /\ stack = <<>>)
      /\ visited' = visited /\ found' = found /\ UNCHANGED <<Walk!device, job>>
  BY DEF Walk!Interrupt, Walk!Export
<1>2. /\ Walk!TypeOK /\ visited \in SUBSET Addrs
      /\ \A a \in Addrs : job[a] = "none"
      /\ seed \in visited /\ visited \subseteq Walk!Reach(hops - 1)
      /\ Pending(stack, visited, visited)
      /\ found = [b \in Addrs |-> IF b \in {c \in visited : answers[c] # "refuses"}
                                    THEN Walk!DeviceInfo(b) ELSE Walk!Nothing]
  BY <1>1, WalkFacts
<1>3. <<>> \in Seq(Frames) /\ CallsOK(<<>>, visited)
  BY DEF CallsOK
<1>4. pc' = "done" => Pending(stack', visited', visited')
  BY <1>1, <1>2
<1> QED BY <1>1, <1>2, <1>3, <1>4, WalkGoesOn

\* The invariant after a step of a scan.
LEMMA ScanGoesOn ==
  ASSUME Walk!ConstantsOK, WalkInv, method = "range", UNCHANGED <<Walk!device, stack>>,
         pc' \in {"run", "done"},
         job' \in [Addrs -> {"queued", "scanning", "done"}],
         visited' = {a \in Addrs : job'[a] \in {"scanning", "done"}},
         \A a \in Addrs : job'[a] = "scanning" => answers[a] # "refuses",
         pc' = "done" => \A a \in Addrs : job'[a] = "done",
         found' = [b \in Addrs |-> IF job'[b] = "done" /\ answers[b] # "refuses"
                                     THEN Walk!DeviceInfo(b) ELSE Walk!Nothing]
  PROVE  WalkInv'
<1>1. /\ link' = link /\ answers' = answers /\ method' = method /\ seed' = seed /\ hops' = hops
      /\ stack' = stack /\ Walk!TypeOK /\ stack = <<>>
  BY DEF Walk!device, WalkInv, ScanOK
<1> DEFINE L == {a \in visited' : answers[a] # "refuses" /\ job'[a] # "scanning"}
<1>2. found' = [b \in Addrs |-> IF b \in L THEN Walk!DeviceInfo(b) ELSE Walk!Nothing]
  <2>1. \A b \in Addrs : b \in L <=> job'[b] = "done" /\ answers[b] # "refuses"
    OBVIOUS
  <2> HIDE DEF L
  <2> QED BY <2>1
<1>3. Walk!TypeOK'
  <2> HIDE DEF L
  <2>1. \A a \in Addrs : found'[a].type \in Walk!Types \cup {"none", "unset"}
    BY <1>2, FoundType
  <2>2. job' \in [Addrs -> {"none", "queued", "scanning", "done"}] /\ visited' \subseteq Addrs
    OBVIOUS
  <2> QED BY <1>1, <2>1, <2>2 DEF Walk!TypeOK
<1>4. ScanOK' /\ WalkOK'
  BY <1>1 DEF ScanOK, WalkOK
<1>5. (found = [a \in Addrs |-> IF a \in Listed THEN Walk!DeviceInfo(a) ELSE Walk!Nothing])'
  <2>1. Listed' = L
    BY <1>1 DEF Listed
  <2>2. \A a \in Addrs : Walk!DeviceInfo(a)' = Walk!DeviceInfo(a)
    BY <1>1 DEF Walk!DeviceInfo
  <2> HIDE DEF L
  <2> QED BY <1>2, <2>1, <2>2
<1> QED BY <1>1, <1>3, <1>4, <1>5 DEF WalkInv

LEMMA ScanFacts ==
  ASSUME Walk!ConstantsOK, WalkInv, method = "range"
  PROVE  /\ Walk!TypeOK /\ stack = <<>> /\ job \in [Addrs -> {"none", "queued", "scanning", "done"}]
         /\ visited = {a \in Addrs : job[a] \in {"scanning", "done"}}
         /\ \A a \in Addrs : job[a] = "scanning" => answers[a] # "refuses"
         /\ pc = "start" => \A a \in Addrs : job[a] = "none"
         /\ pc = "run" => job \in [Addrs -> {"queued", "scanning", "done"}]
         /\ pc = "done" => \A a \in Addrs : job[a] = "done"
         /\ pc # "interrupted"
         /\ found = [b \in Addrs |-> IF job[b] = "done" /\ answers[b] # "refuses"
                                       THEN Walk!DeviceInfo(b) ELSE Walk!Nothing]
<1>1. Walk!TypeOK /\ ScanOK /\ found = [b \in Addrs |-> IF b \in Listed THEN Walk!DeviceInfo(b) ELSE Walk!Nothing]
      /\ (pc = "start" => \A a \in Addrs : job[a] = "none")
  BY DEF WalkInv
<1>2. job \in [Addrs -> {"none", "queued", "scanning", "done"}]
  BY <1>1 DEF Walk!TypeOK
<1>3. \A b \in Addrs : b \in Listed <=> job[b] = "done" /\ answers[b] # "refuses"
  BY <1>1, <1>2 DEF Listed, ScanOK
<1> QED BY <1>1, <1>2, <1>3 DEF ScanOK

LEMMA StartScanInv ==
  ASSUME Walk!ConstantsOK, WalkInv, Walk!StartScan
  PROVE  WalkInv'
<1>1. /\ method = "range" /\ pc = "start" /\ pc' = "run" /\ job' = [a \in Addrs |-> "queued"]
      /\ UNCHANGED <<Walk!device, stack>> /\ visited' = visited /\ found' = found
  BY DEF Walk!StartScan
<1>2. visited = {} /\ found = [b \in Addrs |-> Walk!Nothing]
  BY <1>1, ScanFacts
<1> QED BY <1>1, <1>2, ScanGoesOn

LEMMA ScanInv ==
  ASSUME Walk!ConstantsOK, WalkInv, NEW a \in Addrs, Walk!Scan(a)
  PROVE  WalkInv'
<1>1. /\ job[a] = "queued" /\ UNCHANGED <<Walk!device, stack>> /\ pc' = pc /\ found' = found
  BY DEF Walk!Scan
<1>2. method = "range"
  BY <1>1 DEF WalkInv, WalkOK, Walk!TypeOK
<1>3. pc = "run" /\ a \notin visited
  BY <1>1, <1>2, ScanFacts DEF Walk!TypeOK
<1>4. /\ job' = [job EXCEPT ![a] = IF answers[a] = "refuses" THEN "done" ELSE "scanning"]
      /\ visited' = visited \cup {a}
  BY <1>3 DEF Walk!Scan
<1>5. /\ job \in [Addrs -> {"queued", "scanning", "done"}]
      /\ visited = {b \in Addrs : job[b] \in {"scanning", "done"}}
      /\ \A b \in Addrs : job[b] = "scanning" => answers[b] # "refuses"
      /\ found = [b \in Addrs |-> IF job[b] = "done" /\ answers[b] # "refuses"
                                    THEN Walk!DeviceInfo(b) ELSE Walk!Nothing]
  BY <1>2, <1>3, ScanFacts
<1>6. /\ job' \in [Addrs -> {"queued", "scanning", "done"}]
      /\ \A b \in Addrs : job'[b] = "scanning" => answers[b] # "refuses"
      /\ visited' = {b \in Addrs : job'[b] \in {"scanning", "done"}}
  BY <1>4, <1>5
<1>7. \A b \in Addrs : (job'[b] = "done" /\ answers[b] # "refuses")
                          <=> (job[b] = "done" /\ answers[b] # "refuses")
  BY <1>1, <1>4, <1>5
<1>8. found' = [b \in Addrs |-> IF job'[b] = "done" /\ answers[b] # "refuses"
                                  THEN Walk!DeviceInfo(b) ELSE Walk!Nothing]
  BY <1>1, <1>5, <1>7
<1> QED BY <1>1, <1>2, <1>3, <1>6, <1>8, ScanGoesOn

LEMMA ScannedInv ==
  ASSUME Walk!ConstantsOK, WalkInv, NEW a \in Addrs, Walk!Scanned(a)
  PROVE  WalkInv'
<1>1. /\ job[a] = "scanning" /\ UNCHANGED <<Walk!device, stack>> /\ pc' = pc /\ visited' = visited
      /\ found' = [found EXCEPT ![a] = Walk!DeviceInfo(a)] /\ job' = [job EXCEPT ![a] = "done"]
  BY DEF Walk!Scanned
<1>2. method = "range"
  BY <1>1 DEF WalkInv, WalkOK, Walk!TypeOK
<1>3. pc = "run"
  BY <1>1, <1>2, ScanFacts DEF Walk!TypeOK
<1>4. /\ job \in [Addrs -> {"queued", "scanning", "done"}]
      /\ visited = {b \in Addrs : job[b] \in {"scanning", "done"}}
      /\ \A b \in Addrs : job[b] = "scanning" => answers[b] # "refuses"
      /\ found = [b \in Addrs |-> IF job[b] = "done" /\ answers[b] # "refuses"
                                    THEN Walk!DeviceInfo(b) ELSE Walk!Nothing]
  BY <1>2, <1>3, ScanFacts
<1>5. /\ job' \in [Addrs -> {"queued", "scanning", "done"}]
      /\ \A b \in Addrs : job'[b] = "scanning" => answers[b] # "refuses"
      /\ visited' = {b \in Addrs : job'[b] \in {"scanning", "done"}}
  BY <1>1, <1>4
<1>6. \A b \in Addrs : b # a => job'[b] = job[b]
  BY <1>1, <1>4
<1>7. job'[a] = "done" /\ answers[a] # "refuses"
  BY <1>1, <1>4
<1>8. found' = [b \in Addrs |-> IF job'[b] = "done" /\ answers[b] # "refuses"
                                  THEN Walk!DeviceInfo(b) ELSE Walk!Nothing]
  BY <1>1, <1>4, <1>6, <1>7
<1> QED BY <1>1, <1>2, <1>3, <1>5, <1>8, ScanGoesOn

LEMMA ScanEndInv ==
  ASSUME Walk!ConstantsOK, WalkInv, Walk!Export, method = "range"
  PROVE  WalkInv'
<1>1. /\ pc = "run" /\ pc' = "done" /\ UNCHANGED <<Walk!device, stack>>
      /\ visited' = visited /\ found' = found /\ job' = job
      /\ \A a \in Addrs : job[a] \in {"none", "done"}
  BY DEF Walk!Export
<1>2. /\ job \in [Addrs -> {"queued", "scanning", "done"}]
      /\ visited = {b \in Addrs : job[b] \in {"scanning", "done"}}
      /\ \A b \in Addrs : job[b] = "scanning" => answers[b] # "refuses"
      /\ found = [b \in Addrs |-> IF job[b] = "done" /\ answers[b] # "refuses"
                                    THEN Walk!DeviceInfo(b) ELSE Walk!Nothing]
  BY <1>1, ScanFacts
<1>3. \A a \in Addrs : job[a] = "done"
  BY <1>1, <1>2
<1> QED BY <1>1, <1>2, <1>3, ScanGoesOn

LEMMA WalkStutterInv ==
  ASSUME WalkInv, UNCHANGED Walk!vars
  PROVE  WalkInv'
<1>1. /\ link' = link /\ answers' = answers /\ method' = method /\ seed' = seed /\ hops' = hops
      /\ pc' = pc /\ stack' = stack /\ visited' = visited /\ found' = found /\ job' = job
  BY DEF Walk!vars, Walk!device
<1>2. Walk!Within' = Walk!Within
  BY <1>1 DEF Walk!Within, Walk!Neighbours
<1>3. WalkOK'
  BY <1>1, <1>2 DEF WalkInv, WalkOK, CallsOK, Pending, Wide, Walk!Reach
<1>4. Walk!TypeOK' /\ ScanOK'
  BY <1>1 DEF WalkInv, Walk!TypeOK, ScanOK
<1>5. (found = [a \in Addrs |-> IF a \in Listed THEN Walk!DeviceInfo(a) ELSE Walk!Nothing])'
  <2>1. Listed' = Listed
    BY <1>1 DEF Listed
  <2>2. \A a \in Addrs : Walk!DeviceInfo(a)' = Walk!DeviceInfo(a)
    BY <1>1 DEF Walk!DeviceInfo
  <2> QED BY <1>1, <2>1, <2>2 DEF WalkInv
<1> QED BY <1>1, <1>3, <1>4, <1>5 DEF WalkInv

LEMMA WalkNextInv ==
  ASSUME Walk!ConstantsOK, WalkInv, [Walk!Next]_(Walk!vars)
  PROVE  WalkInv'
<1>1. CASE Walk!StartWalk
  BY <1>1, StartWalkInv
<1>2. CASE Walk!Follow
  BY <1>2, FollowInv
<1>3. CASE Walk!Return
  BY <1>3, ReturnInv
<1>4. CASE Walk!StartScan
  BY <1>4, StartScanInv
<1>5. CASE \E a \in Addrs : Walk!Scan(a) \/ Walk!Scanned(a)
  BY <1>5, ScanInv, ScannedInv
<1>6. CASE Walk!Export
  <2>1. method = "neighbours" \/ method = "range"
    BY DEF WalkInv, Walk!TypeOK
  <2> QED BY <1>6, <2>1, WalkEndInv, ScanEndInv
<1>7. CASE Walk!Interrupt
  BY <1>7, WalkEndInv
<1>8. CASE UNCHANGED Walk!vars
  BY <1>8, WalkStutterInv
<1> QED BY <1>1, <1>2, <1>3, <1>4, <1>5, <1>6, <1>7, <1>8 DEF Walk!Next, Walk!Advance

-----------------------------------------------------------------------------
LEMMA InvComplete ==
  ASSUME Walk!ConstantsOK, WalkInv
  PROVE  Walk!Complete
<1>1. Walk!TypeOK /\ Walk!Found = Listed
  <2>1. Walk!TypeOK /\ found = [a \in Addrs |-> IF a \in Listed THEN Walk!DeviceInfo(a) ELSE Walk!Nothing]
    BY DEF WalkInv
  <2>2. Listed \subseteq Addrs
    BY <2>1 DEF Listed, Walk!TypeOK
  <2> QED BY <2>1, <2>2, FoundType DEF Walk!Found
<1>2. Walk!FoundInReach
  BY <1>1 DEF Walk!FoundInReach, Listed, WalkInv, WalkOK
<1>3. ASSUME pc = "done", method = "neighbours"
      PROVE  /\ hops >= 2 => Walk!Reach(1) \subseteq visited
             /\ hops >= N => Walk!Reach(hops) \subseteq visited
             /\ \A a \in Addrs : a \in visited /\ answers[a] # "refuses" => a \in Walk!Found
             /\ visited \subseteq Addrs
  <2>1. /\ \A a \in Addrs : job[a] = "none"
        /\ seed \in visited /\ Pending(<<>>, visited, visited) /\ visited \subseteq Addrs
    BY <1>1, <1>3 DEF WalkInv, WalkOK, Walk!TypeOK
  <2>2. ASSUME NEW a \in visited, answers[a] = "answers", Wide(a), NEW i \in DOMAIN link[a]
        PROVE  link[a][i] \in visited
    BY <2>1, <2>2 DEF Pending
  <2>3. N \in Nat
    BY AddrsFinite
  <2>4. ASSUME hops >= N PROVE Walk!Reach(hops) \subseteq visited
    <3>1. Walk!Neighbours(visited) \subseteq visited
      BY <2>2, <2>4 DEF Walk!Neighbours, Wide
    <3>2. Walk!Least(hops, N) \in 0 .. N
      <4>1. hops \in 1 .. MaxHops /\ MaxHops \in Nat
        BY <1>1 DEF Walk!TypeOK, Walk!ConstantsOK
      <4> QED BY <2>3, <4>1 DEF Walk!Least
    <3> QED BY <2>1, <3>1, <3>2, ReachClosed DEF Walk!Reach, N
  <2>5. ASSUME hops >= 2 PROVE Walk!Reach(1) \subseteq visited
    <3>1. Walk!Least(1, N) = 0 \/ (Walk!Least(1, N) = 1 /\ 1 \in 1 .. N)
      BY <2>3 DEF Walk!Least
    <3>2. Walk!Neighbours({seed}) \subseteq visited
      BY <2>1, <2>2, <2>5 DEF Walk!Neighbours, Wide
    <3>3. Walk!Reach(1) \subseteq {seed} \cup Walk!Neighbours({seed})
      <4>1. CASE Walk!Least(1, N) = 0
        BY <4>1, WithinStep DEF Walk!Reach, N
      <4>2. CASE Walk!Least(1, N) = 1 /\ 1 \in 1 .. N
        <5>1. Walk!Within[1] = Walk!Within[1 - 1] \cup Walk!Neighbours(Walk!Within[1 - 1]) /\ 1 - 1 = 0
          BY <4>2, WithinStep
        <5> QED BY <4>2, <5>1, WithinStep DEF Walk!Reach, N
      <4> QED BY <3>1, <4>1, <4>2
    <3> QED BY <2>1, <3>2, <3>3
  <2> QED BY <1>1, <2>1, <2>4, <2>5 DEF Listed
<1>4. ASSUME pc = "done", method = "range", NEW a \in Addrs, answers[a] # "refuses"
      PROVE  a \in Walk!Found
  BY <1>1, <1>4 DEF WalkInv, ScanOK, Listed
<1>5. pc = "done" => Walk!NeighboursFound
  BY <1>3 DEF Walk!NeighboursFound
<1>6. pc = "done" => Walk!AllFound
  <2>1. SUFFICES ASSUME pc = "done", method = "range" \/ hops >= Walk!Cardinality(Addrs),
                        NEW a \in IF method = "range" THEN Addrs ELSE Walk!Reach(hops),
                        answers[a] # "refuses"
                 PROVE  a \in Walk!Found
    BY DEF Walk!AllFound
  <2>2. CASE method = "range"
    BY <1>4, <2>1, <2>2
  <2>3. CASE method = "neighbours"
    BY <1>3, <2>1, <2>3 DEF N
  <2> QED BY <1>1, <2>2, <2>3 DEF Walk!TypeOK
<1> QED BY <1>2, <1>5, <1>6 DEF Walk!Complete

LEMMA WalkAlways == Walk!Spec => []WalkInv
<1>1. Walk!Init => WalkInv
  BY WalkConstants, WalkInitInv
<1>2. WalkInv /\ [Walk!Next]_(Walk!vars) => WalkInv'
  BY WalkConstants, WalkNextInv
<1> QED BY <1>1, <1>2, PTL DEF Walk!Spec

\* No network, reaction or interrupt leaves a list, a call or a job that
\* discover_via_cdp or discover_via_ip_range does not expect.
THEOREM WalkTypeCorrect == Walk!Spec => []Walk!TypeOK
<1>1. WalkInv => Walk!TypeOK
  BY DEF WalkInv
<1> QED BY <1>1, WalkAlways, PTL

\* discover_via_cdp with its shared set of visited addresses finds nothing out
\* of reach, all neighbours of the seed, and with hops to spare everything
\* that can be reached; discover_via_ip_range every address that lets it in.
THEOREM WalkComplete == Walk!Spec => []Complete
<1>1. WalkInv => Complete
  BY WalkConstants, InvComplete DEF Complete
<1> QED BY <1>1, WalkAlways, PTL

\* The two programs together keep their types.
THEOREM TypesCorrect == ASSUME ConstantsOK PROVE Spec /\ Walk!Spec => []TypesOK
BY TypeCorrect, WalkTypeCorrect, PTL DEF TypesOK
=============================================================================
