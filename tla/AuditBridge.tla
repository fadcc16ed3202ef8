---------------------------- MODULE AuditBridge ----------------------------
(***************************************************************************)
(* dc-webex-bridge: polls DefenseClaw's audit database by row number and   *)
(* posts every violation to the Webex endpoints.  systemd restarts it; its *)
(* cursor and the ids it has dealt with survive in a state file, the table *)
(* of recent messages that it coalesces bursts with does not.              *)
(*                                                                         *)
(* A row is its key (action, target, severity), the category of its        *)
(* action, the highest severity it names, and whether the operator made it.*)
(***************************************************************************)
EXTENDS Naturals, Sequences, FiniteSets

CONSTANTS Events,       \* what may be recorded, a set of rows
          Hooks,
          Order,        \* the endpoints in the order of config.yaml
          MinSeverity,  \* MinSeverity[h]: min_severity of endpoint h
          Wanted,       \* Wanted[h]: the categories in its events
          Limit,        \* LIMIT of a fetch
          SeenMax,      \* ids the state file keeps
          MaxRow,       \* bound on audit rows
          MaxRestarts,  \* bound on restarts
          MaxFaults     \* bound on posts that fail, and rows and saves that raise

VARIABLES
  rows,      \* audit_events, by rowid
  file,      \* the state file
  bridge,    \* the process: what it does, its cursor, batch, endpoint, ids seen
  recent,    \* keys posted less than dedup_window ago
  starts, faults,
  posts,     \* history: posts[i][h], how often row i went to endpoint h
  tries,     \* history: <<i, h>>, a post that was tried, with or without success
  handled,   \* history: rows that the loop is through with
  old,       \* history: rows that a start without a cursor or a backfill passed over
  dropped,   \* history: rows that raised an exception, which the loop gave up
  unsaved    \* history: the last save of this process raised

history == <<posts, tries, handled, old, dropped, unsaved>>
vars == <<rows, file, bridge, recent, starts, faults, posts, tries, handled, old, dropped,
          unsaved>>
-----------------------------------------------------------------------------
High == 4
Critical == 5
Categories == {"block", "guardrail", "drift", "scan", "none"}
Row(key, cat, sev, operator) == [key |-> key, cat |-> cat, sev |-> sev, operator |-> operator]
Keys == {row.key : row \in Events}

\* is_violation
Violation(row, h) ==
  /\ row.cat # "none"
  /\ row.cat = "block" \/ row.sev >= MinSeverity[h]
  /\ IF row.cat = "scan" THEN row.sev = Critical ELSE row.cat \in Wanted[h]
  /\ ~ (row.cat = "drift" /\ row.operator)

\* run_loop: cur is st["last_rowid"], todo the rest of the rows fetched, k the
\* position in Order of the endpoint that is next for row cur.
Bridge(pc, cur, todo, k, seen) ==
  [pc |-> pc, cur |-> cur, todo |-> todo, k |-> k, seen |-> seen]
Down == Bridge("down", 0, <<>>, 1, <<>>)

Elements(s) == {s[m] : m \in DOMAIN s}
LastN(s, n) == IF Len(s) <= n THEN s ELSE SubSeq(s, Len(s) - n + 1, Len(s))

Init ==
  /\ \E n \in 0 .. 1 : rows \in [1 .. n -> Events]
  /\ file = [cur |-> 0, seen |-> <<>>]
  /\ bridge = Down
  /\ recent = {}
  /\ starts = 0 /\ faults = 0
  /\ posts = [i \in 1 .. MaxRow |-> [h \in Hooks |-> 0]]
  /\ tries = {} /\ handled = {} /\ old = {} /\ dropped = {} /\ unsaved = FALSE

\* DefenseClaw records an event.
Record(row) ==
  /\ Len(rows) < MaxRow
  /\ rows' = Append(rows, row)
  /\ UNCHANGED <<file, bridge, recent, starts, faults, history>>

\* A slip: the ids seen are not read back.
EnterUnseen(cur, passed) ==
  LET from == IF cur = 0 THEN Len(rows) ELSE cur IN
  /\ starts <= MaxRestarts
  /\ starts' = starts + 1
  /\ bridge' = Bridge("poll", from, <<>>, 1, <<>>)
  /\ file' = [file EXCEPT !.cur = from]
  /\ recent' = {} /\ unsaved' = FALSE
  /\ old' = old \cup IF cur = 0 THEN (1 .. Len(rows)) \ handled ELSE passed
  /\ UNCHANGED <<rows, faults, posts, tries, handled, dropped>>

\* load_state, and a cursor at the end of the table where there is none.
Enter(cur, passed) ==
  LET from == IF cur = 0 THEN Len(rows) ELSE cur IN
  /\ starts <= MaxRestarts
  /\ starts' = starts + 1
  /\ bridge' = Bridge("poll", from, <<>>, 1, file.seen)
  /\ file' = [file EXCEPT !.cur = from]
  /\ recent' = {} /\ unsaved' = FALSE
  /\ old' = old \cup IF cur = 0 THEN (1 .. Len(rows)) \ handled ELSE passed
  /\ UNCHANGED <<rows, faults, posts, tries, handled, dropped>>

Start == bridge.pc = "down" /\ Enter(file.cur, {})

\* A slip: no max(0, ...).
StartBackfillBelow(n) ==
  LET to == Len(rows) - n IN
  /\ bridge.pc = "down"
  /\ Enter(to, (1 .. to) \ handled)

\* --backfill n: the cursor is first moved to n rows before the end, which may
\* be the start of the table, and then counts as none, or be ahead of where it
\* was, and then passes over the rows in between.
StartBackfill(n) ==
  LET to == IF n > Len(rows) THEN 0 ELSE Len(rows) - n IN
  /\ bridge.pc = "down"
  /\ Enter(to, (1 .. to) \ handled)

\* A slip: the cursor is saved with the fetch.
FetchSaving ==
  /\ bridge.pc = "poll"
  /\ LET last == IF bridge.cur + Limit < Len(rows) THEN bridge.cur + Limit ELSE Len(rows)
     IN /\ bridge' = [bridge EXCEPT !.pc = "row",
                        !.todo = [m \in 1 .. (last - bridge.cur) |-> bridge.cur + m]]
        /\ file' = [file EXCEPT !.cur = last]
  /\ UNCHANGED <<rows, recent, starts, faults, history>>

\* A slip: the newest row is left for the next poll.
FetchLagging ==
  /\ bridge.pc = "poll"
  /\ LET last == IF bridge.cur + Limit < Len(rows) THEN bridge.cur + Limit ELSE Len(rows)
     IN bridge' = [bridge EXCEPT !.pc = "row",
                     !.todo = [m \in 1 .. (last - bridge.cur - 1) |-> bridge.cur + m]]
  /\ UNCHANGED <<rows, file, recent, starts, faults, history>>

Fetch ==
  /\ bridge.pc = "poll"
  /\ LET last == IF bridge.cur + Limit < Len(rows) THEN bridge.cur + Limit ELSE Len(rows)
     IN bridge' = [bridge EXCEPT !.pc = "row",
                     !.todo = [m \in 1 .. (last - bridge.cur) |-> bridge.cur + m]]
  /\ UNCHANGED <<rows, file, recent, starts, faults, history>>

\* The next row of the batch; one that was dealt with before is passed over.
TakeRow ==
  /\ bridge.pc = "row" /\ bridge.todo # <<>>
  /\ LET i == Head(bridge.todo) IN
     bridge' = [bridge EXCEPT !.cur = i, !.todo = Tail(@), !.k = 1,
                  !.pc = IF i \in Elements(bridge.seen) THEN "row" ELSE "hooks"]
  /\ UNCHANGED <<rows, file, recent, starts, faults, history>>

\* A slip: a row that is no violation is coalesced with as well.
DispatchAny ==
  LET i == bridge.cur  h == Order[bridge.k] IN
  /\ bridge.pc = "hooks" /\ bridge.k \in DOMAIN Order
  /\ bridge' = [bridge EXCEPT !.k = @ + 1]
  /\ recent' = recent \cup {rows[i].key}
  /\ IF Violation(rows[i], h) /\ rows[i].key \notin recent
       THEN /\ tries' = tries \cup {<<i, h>>}
            /\ posts' = [posts EXCEPT ![i][h] = @ + 1]
       ELSE UNCHANGED <<tries, posts>>
  /\ UNCHANGED <<rows, file, starts, handled, old, dropped, unsaved, faults>>

\* One endpoint: not meant for it, coalesced, or posted.
Dispatch ==
  LET i == bridge.cur  h == Order[bridge.k] IN
  /\ bridge.pc = "hooks" /\ bridge.k \in DOMAIN Order
  /\ bridge' = [bridge EXCEPT !.k = @ + 1]
  /\ IF Violation(rows[i], h) /\ rows[i].key \notin recent
       THEN /\ recent' = recent \cup {rows[i].key}
            /\ tries' = tries \cup {<<i, h>>}
            /\ \/ posts' = [posts EXCEPT ![i][h] = @ + 1] /\ UNCHANGED faults
               \/ faults < MaxFaults /\ faults' = faults + 1 /\ UNCHANGED posts
       ELSE UNCHANGED <<recent, tries, posts, faults>>
  /\ UNCHANGED <<rows, file, starts, handled, old, dropped, unsaved>>

\* An exception inside the row, in is_violation or in what post_webex does not
\* catch (the body of an HTTP error): it ends the whole poll, and the cursor is
\* at this row already, which the next poll starts behind.
RowRaises ==
  LET i == bridge.cur  h == Order[bridge.k] IN
  /\ bridge.pc = "hooks" /\ bridge.k \in DOMAIN Order
  /\ faults < MaxFaults /\ faults' = faults + 1
  /\ bridge' = [bridge EXCEPT !.pc = "poll", !.todo = <<>>]
  /\ dropped' = dropped \cup {i}
  /\ \/ UNCHANGED <<recent, tries>>
     \/ /\ Violation(rows[i], h) /\ rows[i].key \notin recent
        /\ recent' = recent \cup {rows[i].key}
        /\ tries' = tries \cup {<<i, h>>}
  /\ UNCHANGED <<rows, file, starts, posts, handled, old, unsaved>>

EndRow ==
  /\ bridge.pc = "hooks" /\ bridge.k \notin DOMAIN Order
  /\ bridge' = [bridge EXCEPT !.pc = "row", !.seen = Append(@, bridge.cur)]
  /\ handled' = handled \cup {bridge.cur}
  /\ UNCHANGED <<rows, file, recent, starts, faults, posts, tries, old, dropped, unsaved>>

\* save_state replaces the file as a whole.
Save ==
  /\ bridge.pc = "row" /\ bridge.todo = <<>>
  /\ LET kept == LastN(bridge.seen, SeenMax) IN
     \/ /\ file' = [cur |-> bridge.cur, seen |-> kept]
        /\ bridge' = [bridge EXCEPT !.pc = "poll", !.seen = kept]
        /\ unsaved' = FALSE /\ UNCHANGED faults
     \/ /\ faults < MaxFaults /\ faults' = faults + 1
        /\ bridge' = [bridge EXCEPT !.pc = "poll", !.seen = kept]
        /\ unsaved' = TRUE /\ UNCHANGED file
  /\ UNCHANGED <<rows, recent, starts, posts, tries, handled, old, dropped>>

\* dedup_window passes.
Forget(k) ==
  /\ k \in recent
  /\ recent' = recent \ {k}
  /\ UNCHANGED <<rows, file, bridge, starts, faults, history>>

Crash ==
  /\ bridge.pc # "down" /\ starts <= MaxRestarts
  /\ bridge' = Down
  /\ UNCHANGED <<rows, file, recent, starts, faults, history>>

Loop == Fetch \/ TakeRow \/ Dispatch \/ RowRaises \/ EndRow \/ Save

Next ==
  \/ \E row \in Events : Record(row)
  \/ Start
  \/ \E n \in 1 .. MaxRow : StartBackfill(n)
  \/ Loop
  \/ \E k \in Keys : Forget(k)
  \/ Crash

Spec == Init /\ [][Next]_vars

\* systemd restarts the process (Restart=always), which polls for ever.
FairSpec == Spec /\ WF_vars(Start) /\ WF_vars(Loop)
-----------------------------------------------------------------------------
(* Properties                                                              *)

TypeOK ==
  /\ rows \in Seq(Events) /\ Len(rows) <= MaxRow
  /\ file.cur \in 0 .. MaxRow /\ file.seen \in Seq(1 .. MaxRow)
  /\ bridge.pc \in {"down", "poll", "row", "hooks"}
  /\ bridge.cur \in 0 .. MaxRow /\ bridge.k \in 1 .. Len(Order) + 1
  /\ bridge.todo \in Seq(1 .. MaxRow) /\ bridge.seen \in Seq(1 .. MaxRow)
  /\ recent \subseteq Keys
  /\ starts \in 0 .. MaxRestarts + 1 /\ faults \in 0 .. MaxFaults
  /\ posts \in [1 .. MaxRow -> [Hooks -> Nat]]
  /\ tries \subseteq (1 .. MaxRow) \X Hooks
  /\ handled \subseteq 1 .. MaxRow /\ old \subseteq 1 .. MaxRow
  /\ dropped \subseteq 1 .. MaxRow /\ unsaved \in BOOLEAN

\* The cursor on disk never gets ahead of the work: after a crash at any point
\* the bridge resumes at or before the first row it has not dealt with.  The
\* rows that run_loop loses are those that raised, and no other of their batch.
NothingSkipped == 1 .. file.cur \subseteq handled \cup old \cup dropped

\* "posts a Webex message for every HIGH/CRITICAL violation" and coalesces
\* bursts: a row that the loop is through with was tried at each endpoint it is
\* meant for, or has the key of one that was tried there.
EveryEndpointTold ==
  \A i \in handled, h \in Hooks :
    Violation(rows[i], h) =>
      \E j \in DOMAIN rows : rows[j].key = rows[i].key /\ <<j, h>> \in tries

\* A row whose id is in the state file is not posted again, neither after a
\* crash in the middle of a batch nor by a backfill; save for one case: a save
\* raised, and save_state had cut the list in memory before it tried.
NoRepeat ==
  [][\A i \in 1 .. MaxRow : posts'[i] # posts[i] /\ i \in Elements(file.seen)
       => unsaved /\ Len(bridge.seen) >= SeenMax]_vars

\* A row recorded while the bridge has a cursor is dealt with in the end,
\* however often it crashes, or has raised: one that raises does not keep
\* run_loop from the rows behind it.
EventuallyHandled ==
  \A i \in 1 .. MaxRow : i \in DOMAIN rows /\ file.cur > 0
                           ~> i \in handled \cup old \cup dropped
=============================================================================
