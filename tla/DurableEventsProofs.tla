-------------------------- MODULE DurableEventsProofs --------------------------
(***************************************************************************)
(* Proofs about DurableEvents for every set of threads, packages and keys, *)
(* both backends, and every limit, retry budget and capacity of the bus.   *)
(***************************************************************************)
EXTENDS DurableEvents, SequenceTheorems, TLAPS

(* The inductive invariant, in parts.                                      *)

\* A key names one row: what enqueue's lookup establishes.
KeysUnique ==
    \A i, j \in DOMAIN rows :
        rows[i].key # None /\ BusKey(i) = BusKey(j) => i = j

\* A row that may still be retried has an attempt left.
AttemptsLeft ==
    \A i \in DOMAIN rows : rows[i].status = "pending" => rows[i].attempts < MaxAttempts

\* SQLite knows neither a backoff nor dead letters.
SqliteRows ==
    ~PostgreSQL => \A i \in DOMAIN rows : rows[i].due /\ rows[i].status # "dead"

\* Nothing is recorded of rows that are not written yet.
Fresh ==
    \A i \in RowId \ DOMAIN rows :
        audience[i] = {} /\ \A s \in Package : runs[i][s] = 0

\* The row that is being delivered is pending, its subscribers are those that
\* have run and those that are still to run, and in SQLite nothing older waits.
InProgress ==
    \A t \in Thread : pc[t] = "deliver" =>
        /\ task.row \in DOMAIN rows /\ task.budget > 0
        /\ rows[task.row].status = "pending"
        /\ \A s \in audience[task.row] \ task.todo : runs[task.row][s] > 0
        /\ ~PostgreSQL => \A j \in DOMAIN rows :
                             j < task.row => rows[j].status # "pending"

\* A reserved key was delivered, or is being delivered.
Reserved ==
    \A i \in DOMAIN rows : BusKey(i) \in idempotency =>
        \/ \E t \in Thread : pc[t] = "deliver" /\ task.row = i
        \/ \A s \in audience[i] : runs[i][s] > 0

\* A keyed row whose reservation was never lost has run each handler at most
\* once, and none before the reservation or while the handler is still to run.
Once ==
    \A i \in DOMAIN rows : Keyed(i) /\ ~excused[i] =>
        /\ \A s \in Package : runs[i][s] <= 1
        /\ BusKey(i) \notin idempotency => \A s \in Package : runs[i][s] = 0
        /\ \A t \in Thread : pc[t] = "deliver" /\ task.row = i =>
              \A s \in task.todo : BusKey(i) \in idempotency /\ runs[i][s] = 0

SqliteInOrder == ~PostgreSQL => InOrder

RowsInv == KeysUnique /\ AttemptsLeft /\ SqliteRows
BusInv == Fresh /\ InProgress /\ Reserved /\ Once
          /\ DispatchedWasHandled /\ SqliteInOrder
Inv == TypeOK /\ ClaimIsExclusive /\ RowsInv /\ BusInv

-----------------------------------------------------------------------------
(* What the writes do to the table.                                         *)

LEMMA TableDomain ==
    ASSUME TypeOK
    PROVE  /\ DOMAIN rows = 1 .. Len(rows) /\ Len(rows) \in Nat
           /\ DOMAIN rows \subseteq RowId
           /\ \A i \in DOMAIN rows : rows[i] \in Row
  BY LenProperties, ElementOfSeq, EventsAssumption DEF TypeOK, RowId

LEMMA UpdateRow ==
    ASSUME TypeOK, NEW i \in DOMAIN rows, NEW r \in Row,
           rows' = [rows EXCEPT ![i] = r]
    PROVE  /\ rows' \in Seq(Row) /\ Len(rows') = Len(rows)
           /\ DOMAIN rows' = DOMAIN rows
           /\ rows'[i] = r
           /\ \A j \in DOMAIN rows : j # i => rows'[j] = rows[j]
  <1>1. rows \in Seq(Row) /\ DOMAIN rows = 1 .. Len(rows)
    BY TableDomain DEF TypeOK
  <1>2. rows' \in Seq(Row) /\ Len(rows') = Len(rows)
    BY <1>1, ExceptSeq
  <1>3. QED
    BY <1>1, <1>2, LenProperties

LEMMA AppendRow ==
    ASSUME TypeOK, NEW r \in Row, rows' = Append(rows, r)
    PROVE  /\ rows' \in Seq(Row) /\ Len(rows') = Len(rows) + 1
           /\ DOMAIN rows' = DOMAIN rows \cup {Len(rows) + 1}
           /\ Len(rows) + 1 \notin DOMAIN rows
           /\ rows'[Len(rows) + 1] = r
           /\ \A j \in DOMAIN rows : rows'[j] = rows[j] /\ j < Len(rows) + 1
  <1>1. rows \in Seq(Row) /\ DOMAIN rows = 1 .. Len(rows) /\ Len(rows) \in Nat
    BY TableDomain DEF TypeOK
  <1>2. /\ rows' \in Seq(Row) /\ Len(rows') = Len(rows) + 1
        /\ \A j \in 1 .. Len(rows) : rows'[j] = rows[j]
        /\ rows'[Len(rows) + 1] = r
    BY <1>1, AppendProperties
  <1>3. DOMAIN rows' = 1 .. Len(rows')
    BY <1>2, LenProperties
  <1>4. QED
    BY <1>1, <1>2, <1>3

LEMMA NewRowType ==
    ASSUME NEW o \in Owner, NEW k \in Key \cup {None}, NEW ok \in BOOLEAN
    PROVE  /\ NewRow(o, k, ok) \in Row
           /\ NewRow(o, k, ok).owner = o /\ NewRow(o, k, ok).key = k
           /\ NewRow(o, k, ok).status = "pending" /\ NewRow(o, k, ok).due = TRUE
           /\ NewRow(o, k, ok).attempts = 0
  BY EventsAssumption DEF NewRow, Row, Status

\* record_failure within the budget of a pending row.
LEMMA FailedType ==
    ASSUME NEW r \in Row, r.status = "pending", r.attempts < MaxAttempts,
           NEW limit \in {r.attempts + 1, MaxAttempts}
    PROVE  /\ Failed(r, limit) \in Row
           /\ Failed(r, limit).owner = r.owner /\ Failed(r, limit).key = r.key
           /\ Failed(r, limit).status \in {"pending", "dead"}
           /\ Failed(r, limit).status = "pending" => Failed(r, limit).attempts < MaxAttempts
  <1>1. r.attempts \in Nat /\ r.attempts + 1 \in 0 .. MaxAttempts
    BY EventsAssumption DEF Row
  <1> DEFINE a == r.attempts + 1
  <1>2. a \in 0 .. MaxAttempts /\ (a >= limit \/ a < MaxAttempts)
    BY <1>1, EventsAssumption
  <1>3. Failed(r, limit) = IF a >= limit
                           THEN [r EXCEPT !.attempts = a, !.status = "dead"]
                           ELSE [r EXCEPT !.attempts = a, !.due = FALSE]
    BY DEF Failed
  <1> HIDE DEF a
  <1>4. QED
    BY <1>2, <1>3 DEF Row, Status

\* The part of the invariant that is about the table alone.
LEMMA RowsInvUpdate ==
    ASSUME TypeOK, RowsInv, NEW i \in DOMAIN rows, NEW r \in Row,
           rows' = [rows EXCEPT ![i] = r],
           r.owner = rows[i].owner, r.key = rows[i].key,
           r.status = "pending" => r.attempts < MaxAttempts,
           ~PostgreSQL => r.due /\ r.status # "dead"
    PROVE  RowsInv'
  <1>1. /\ DOMAIN rows' = DOMAIN rows /\ rows'[i] = r
        /\ \A j \in DOMAIN rows : j # i => rows'[j] = rows[j]
    BY UpdateRow
  <1>2. KeysUnique'
    BY <1>1 DEF RowsInv, KeysUnique, BusKey
  <1>3. AttemptsLeft' /\ SqliteRows'
    BY <1>1 DEF RowsInv, AttemptsLeft, SqliteRows
  <1>4. QED
    BY <1>2, <1>3 DEF RowsInv

LEMMA RowsInvExtend ==
    ASSUME RowsInv, NEW n, NEW r, n \notin DOMAIN rows,
           DOMAIN rows' = DOMAIN rows \cup {n}, rows'[n] = r,
           \A j \in DOMAIN rows : rows'[j] = rows[j],
           ~Known(r.owner, r.key), r.attempts < MaxAttempts,
           r.due = TRUE, r.status = "pending"
    PROVE  RowsInv'
  <1>1. KeysUnique'
    <2> SUFFICES ASSUME NEW i \in DOMAIN rows', NEW j \in DOMAIN rows',
                        rows'[i].key # None, BusKey(i)' = BusKey(j)'
                 PROVE  i = j
      BY DEF KeysUnique
    <2>1. rows'[i].owner = rows'[j].owner /\ rows'[i].key = rows'[j].key
      BY DEF BusKey
    <2>2. CASE i \in DOMAIN rows /\ j \in DOMAIN rows
      BY <2>1, <2>2 DEF RowsInv, KeysUnique, BusKey
    <2>3. CASE i = n \/ j = n
      BY <2>1, <2>3 DEF Known
    <2>4. QED
      BY <2>2, <2>3
  <1>2. AttemptsLeft'
    BY DEF RowsInv, AttemptsLeft
  <1>3. SqliteRows'
    BY DEF RowsInv, SqliteRows
  <1>4. QED
    BY <1>1, <1>2, <1>3 DEF RowsInv

LEMMA RowsInvAppend ==
    ASSUME TypeOK, RowsInv, NEW o \in Owner, NEW k \in Key \cup {None},
           ~Known(o, k), rows' = Append(rows, NewRow(o, k, TRUE))
    PROVE  RowsInv'
  <1> DEFINE n == Len(rows) + 1
             r == NewRow(o, k, TRUE)
  <1>1. /\ r \in Row /\ r.owner = o /\ r.key = k /\ r.status = "pending" /\ r.due = TRUE
        /\ r.attempts = 0
    BY NewRowType
  <1>2. /\ DOMAIN rows' = DOMAIN rows \cup {n} /\ n \notin DOMAIN rows
        /\ rows'[n] = r /\ \A j \in DOMAIN rows : rows'[j] = rows[j]
    BY <1>1, AppendRow
  <1> HIDE DEF n, r
  <1>3. r.attempts < MaxAttempts
    BY <1>1, EventsAssumption
  <1>4. QED
    BY <1>1, <1>2, <1>3, RowsInvExtend
-----------------------------------------------------------------------------
(* The rest of the invariant, for steps that leave the bus alone.           *)

\* A thread stops delivering only when every subscriber has run.
Finishes == \A t \in Thread : pc[t] = "deliver" /\ pc'[t] # "deliver" =>
                \A s \in audience[task.row] : runs[task.row][s] > 0

\* No thread begins to deliver, and those that do keep their task.
NoNewDelivery == \A t \in Thread : pc'[t] = "deliver" => pc[t] = "deliver" /\ task' = task

LEMMA BusInvFrame ==
    ASSUME BusInv, UNCHANGED <<rows, audience, runs, excused, idempotency>>,
           NoNewDelivery, Finishes
    PROVE  BusInv'
  <1>1. Fresh' /\ DispatchedWasHandled' /\ SqliteInOrder'
    BY DEF BusInv, Fresh, DispatchedWasHandled, SqliteInOrder, InOrder
  <1>2. InProgress'
    BY DEF BusInv, InProgress, NoNewDelivery
  <1>3. Reserved'
    <2> SUFFICES ASSUME NEW i \in DOMAIN rows, BusKey(i) \in idempotency,
                        ~ \A s \in audience[i] : runs[i][s] > 0
                 PROVE  \E t \in Thread : pc'[t] = "deliver" /\ task'.row = i
      BY DEF Reserved, BusKey
    <2>1. PICK t \in Thread : pc[t] = "deliver" /\ task.row = i
      BY DEF BusInv, Reserved
    <2>2. pc'[t] = "deliver"
      BY <2>1 DEF Finishes
    <2>3. QED
      BY <2>1, <2>2 DEF NoNewDelivery
  <1>4. Once'
    BY DEF BusInv, Once, NoNewDelivery, Keyed, BusKey
  <1>5. QED
    BY <1>1, <1>2, <1>3, <1>4 DEF BusInv

\* Row i becomes r, without a change of whose it is.
LEMMA BusInvUpdate ==
    ASSUME TypeOK, BusInv, UNCHANGED <<audience, runs, excused, idempotency>>,
           NoNewDelivery, Finishes,
           NEW i \in DOMAIN rows, NEW r \in Row, rows' = [rows EXCEPT ![i] = r],
           r.owner = rows[i].owner, r.key = rows[i].key,
           r.status = "dispatched" =>
              /\ rows[i].status = "dispatched" \/ \A s \in audience[i] : runs[i][s] > 0
              /\ ~PostgreSQL => \A j \in DOMAIN rows : j < i => rows[j].status # "pending",
           r.status = "pending" => rows[i].status = "pending" \/ PostgreSQL,
           \A t \in Thread : pc'[t] = "deliver" /\ task.row = i => r.status = "pending"
    PROVE  BusInv'
  <1>1. /\ DOMAIN rows' = DOMAIN rows /\ rows'[i] = r
        /\ \A j \in DOMAIN rows : j # i => rows'[j] = rows[j]
    BY UpdateRow
  <1>2. \A j \in DOMAIN rows : BusKey(j)' = BusKey(j) /\ Keyed(j)' = Keyed(j)
    BY <1>1 DEF BusKey, Keyed
  <1>3. Fresh'
    BY <1>1 DEF BusInv, Fresh
  <1>4. InProgress'
    BY <1>1 DEF BusInv, InProgress, NoNewDelivery
  <1>5. Reserved'
    <2> SUFFICES ASSUME NEW j \in DOMAIN rows, BusKey(j) \in idempotency,
                        ~ \A s \in audience[j] : runs[j][s] > 0
                 PROVE  \E t \in Thread : pc'[t] = "deliver" /\ task'.row = j
      BY <1>1, <1>2 DEF Reserved
    <2>1. PICK t \in Thread : pc[t] = "deliver" /\ task.row = j
      BY DEF BusInv, Reserved
    <2>2. pc'[t] = "deliver"
      BY <2>1 DEF Finishes
    <2>3. QED
      BY <2>1, <2>2 DEF NoNewDelivery
  <1>6. Once'
    <2>1. \A j \in DOMAIN rows : Keyed(j) /\ ~excused[j] =>
             /\ \A s \in Package : runs[j][s] <= 1
             /\ BusKey(j) \notin idempotency => \A s \in Package : runs[j][s] = 0
             /\ \A t \in Thread : pc'[t] = "deliver" /\ task'.row = j =>
                   \A s \in task'.todo : BusKey(j) \in idempotency /\ runs[j][s] = 0
      BY DEF BusInv, Once, NoNewDelivery
    <2>2. QED
      BY <1>1, <1>2, <2>1 DEF Once
  <1>7. DispatchedWasHandled'
    BY <1>1 DEF BusInv, DispatchedWasHandled
  <1>8. SqliteInOrder'
    BY <1>1 DEF BusInv, SqliteInOrder, InOrder
  <1>9. QED
    BY <1>3, <1>4, <1>5, <1>6, <1>7, <1>8 DEF BusInv

\* A row is written; nothing has happened to it yet.
LEMMA BusInvAppend ==
    ASSUME TypeOK, BusInv, UNCHANGED <<audience, runs, excused, idempotency, task>>,
           NEW o \in Owner, NEW k \in Key \cup {None}, Len(rows) < MaxRows,
           rows' = Append(rows, NewRow(o, k, TRUE)),
           \A t \in Thread : pc'[t] = "deliver" <=> pc[t] = "deliver"
    PROVE  BusInv'
  <1> DEFINE n == Len(rows) + 1
             r == NewRow(o, k, TRUE)
  <1>0. n \in RowId /\ n \in Nat /\ DOMAIN rows \subseteq Nat
    BY TableDomain, EventsAssumption DEF RowId
  <1>1. r \in Row /\ r.status = "pending"
    BY NewRowType
  <1>2. /\ DOMAIN rows' = DOMAIN rows \cup {n} /\ n \notin DOMAIN rows
        /\ rows'[n] = r
        /\ \A j \in DOMAIN rows : rows'[j] = rows[j] /\ j < n
    BY <1>1, AppendRow
  <1> HIDE DEF n, r
  <1>3. \A j \in DOMAIN rows : BusKey(j)' = BusKey(j) /\ Keyed(j)' = Keyed(j)
    BY <1>2 DEF BusKey, Keyed
  <1>4. audience[n] = {} /\ (\A s \in Package : runs[n][s] = 0)
    BY <1>0, <1>2 DEF BusInv, Fresh
  <1>5. \A t \in Thread : pc[t] = "deliver" => task.row \in DOMAIN rows
    BY DEF BusInv, InProgress
  <1>6. Fresh'
    BY <1>2 DEF BusInv, Fresh
  <1>7. InProgress'
    <2> SUFFICES ASSUME NEW t \in Thread, pc[t] = "deliver"
                 PROVE  /\ task.row \in DOMAIN rows' /\ task.budget > 0
                        /\ rows'[task.row].status = "pending"
                        /\ \A s \in audience[task.row] \ task.todo : runs[task.row][s] > 0
                        /\ ~PostgreSQL => \A j \in DOMAIN rows' :
                               j < task.row => rows'[j].status # "pending"
      BY DEF InProgress
    <2>1. /\ task.row \in DOMAIN rows /\ task.budget > 0
          /\ rows[task.row].status = "pending"
          /\ \A s \in audience[task.row] \ task.todo : runs[task.row][s] > 0
          /\ ~PostgreSQL => \A j \in DOMAIN rows :
                 j < task.row => rows[j].status # "pending"
      BY DEF BusInv, InProgress
    <2>2. ~(n < task.row)
      BY <1>0, <1>2, <2>1
    <2>3. QED
      BY <1>2, <2>1, <2>2
  <1>8. Reserved'
    BY <1>2, <1>3, <1>4 DEF BusInv, Reserved
  <1>9. Once'
    <2>1. \A s \in Package : runs[n][s] <= 1
      BY <1>4
    <2>2. QED
      BY <1>2, <1>3, <1>4, <1>5, <2>1 DEF BusInv, Once
  <1>10. DispatchedWasHandled'
    BY <1>1, <1>2 DEF BusInv, DispatchedWasHandled
  <1>11. SqliteInOrder'
    <2> SUFFICES ASSUME ~PostgreSQL, NEW i \in DOMAIN rows', NEW j \in DOMAIN rows',
                        i < j, rows'[j].status = "dispatched"
                 PROVE  rows'[i].status # "pending"
      BY DEF SqliteInOrder, InOrder
    <2>1. j \in DOMAIN rows
      BY <1>1, <1>2
    <2>2. i # n
      BY <1>0, <1>2, <2>1
    <2>3. QED
      BY <1>2, <2>1, <2>2 DEF BusInv, SqliteInOrder, InOrder
  <1>12. QED
    BY <1>6, <1>7, <1>8, <1>9, <1>10, <1>11 DEF BusInv
-----------------------------------------------------------------------------
(* Every step preserves the invariant, one lemma per group of actions.      *)

LEMMA Initially == Init => Inv
  <1> SUFFICES ASSUME Init PROVE Inv
    OBVIOUS
  <1>1. rows = <<>> \/ \E o \in Owner : rows = <<NewRow(o, None, FALSE)>>
    BY DEF Init
  <1>2. /\ rows \in Seq(Row) /\ Len(rows) <= 1
        /\ \A i \in DOMAIN rows : /\ rows[i].status = "pending" /\ rows[i].key = None
                                  /\ rows[i].due = TRUE /\ rows[i].attempts = 0
    <2>1. CASE rows = <<>>
      BY <2>1
    <2>2. ASSUME NEW o \in Owner, rows = <<NewRow(o, None, FALSE)>>
          PROVE  <1>2
      <3> DEFINE r == NewRow(o, None, FALSE)
      <3>1. /\ r \in Row /\ r.status = "pending" /\ r.key = None
            /\ r.due = TRUE /\ r.attempts = 0
        BY EventsAssumption DEF NewRow, Row, Status
      <3> HIDE DEF r
      <3>2. rows = <<r>>
        BY <2>2 DEF r
      <3>3. rows \in Seq(Row) /\ Len(rows) = 1 /\ DOMAIN rows = {1} /\ rows[1] = r
        BY <3>1, <3>2
      <3>4. QED
        BY <3>1, <3>3
    <2>3. QED
      BY <1>1, <2>1, <2>2
  <1>3. TypeOK
    <2>1. Len(rows) <= MaxRows
      BY <1>2, LenProperties, EventsAssumption
    <2>2. /\ live = FALSE /\ dispatcher = None /\ resumed = {} /\ pc = [t \in Thread |-> "idle"]
          /\ task = NoTask /\ active = {} /\ idempotency = {} /\ syncs = 0 /\ crashes = 0
          /\ audience = [i \in RowId |-> {}]
          /\ runs = [i \in RowId |-> [s \in Package |-> 0]]
          /\ excused = [i \in RowId |-> FALSE] /\ owed = TRUE
      BY DEF Init
    <2>3. /\ pc \in [Thread -> Places] /\ syncs \in 0 .. MaxSyncs
          /\ crashes \in 0 .. MaxCrashes
          /\ task \in [row : 0 .. MaxRows, todo : SUBSET Package, budget : 0 .. Limit]
          /\ runs \in [RowId -> [Package -> 0 .. 2]]
      BY <2>2, EventsAssumption DEF NoTask, Places
    <2>4. QED
      BY <1>2, <2>1, <2>2, <2>3 DEF TypeOK
  <1>4. ClaimIsExclusive
    BY EventsAssumption DEF Init, ClaimIsExclusive, Claimed
  <1>5. RowsInv
    BY <1>2, EventsAssumption DEF RowsInv, KeysUnique, AttemptsLeft, SqliteRows
  <1>6. DOMAIN rows \subseteq RowId
    BY <1>3, TableDomain
  <1>7. BusInv
    <2>1. Fresh
      BY <1>6 DEF Init, Fresh
    <2>2. InProgress /\ Reserved
      BY DEF Init, InProgress, Reserved
    <2>3. Once /\ DispatchedWasHandled
      BY <1>2 DEF Once, Keyed, DispatchedWasHandled
    <2>4. SqliteInOrder
      BY <1>2 DEF SqliteInOrder, InOrder
    <2>5. QED
      BY <2>1, <2>2, <2>3, <2>4 DEF BusInv
  <1>8. QED
    BY <1>3, <1>4, <1>5, <1>7 DEF Inv

LEMMA SoleClaim ==
    ASSUME ClaimIsExclusive, NEW t \in Thread, pc[t] \in Claimed,
           NEW u \in Thread, pc[u] \in Claimed
    PROVE  u = t
  BY DEF ClaimIsExclusive

LEMMA WaitingSteps ==
    ASSUME Inv, NEW t \in Thread,
           \/ t \in Syncer /\ DeferDispatch(t)
           \/ DeferDispatchDone(t) \/ SyncEnabled(t) \/ SyncRaises(t)
           \/ EnableLiveDispatch(t) \/ Drained(t) \/ ReleaseDispatch(t)
    PROVE  Inv'
  <1>1. TypeOK'
    <2>1. pc' \in [Thread -> Places]
      BY DEF Inv, TypeOK, DeferDispatch, DeferDispatchDone, SyncEnabled, SyncRaises,
          EnableLiveDispatch, Drained, ReleaseDispatch, Go, Places, Claimed
    <2>2. task' \in [row : 0 .. MaxRows, todo : SUBSET Package, budget : 0 .. Limit]
      BY EventsAssumption DEF Inv, TypeOK, DeferDispatch, DeferDispatchDone, SyncEnabled, SyncRaises,
          EnableLiveDispatch, Drained, ReleaseDispatch, NoTask, claim, bus, counters, table
    <2>3. /\ dispatcher' \in Thread \cup {None}
          /\ syncs' \in 0 .. MaxSyncs /\ crashes' \in 0 .. MaxCrashes
      BY EventsAssumption DEF Inv, TypeOK, DeferDispatch, DeferDispatchDone, SyncEnabled, SyncRaises,
          EnableLiveDispatch, Drained, ReleaseDispatch, claim, bus, counters, table
    <2>4. live' \in BOOLEAN /\ owed' \in BOOLEAN
      <3>1. live' \in {live, TRUE, FALSE} /\ owed' \in {owed, TRUE, (Ready # {})}
        BY Zenon DEF DeferDispatch, DeferDispatchDone, SyncEnabled, SyncRaises,
          EnableLiveDispatch, Resume, Drained, ReleaseDispatch, claim
      <3>2. QED
        BY <3>1 DEF Inv, TypeOK
    <2>5. UNCHANGED <<rows, active, idempotency, audience, runs, excused>>
      BY DEF DeferDispatch, DeferDispatchDone, SyncEnabled, SyncRaises,
          EnableLiveDispatch, Drained, ReleaseDispatch, claim, bus, counters, table
    <2>6. resumed' \subseteq Thread
      <3>1. \/ resumed' = resumed \/ resumed' = resumed \ {t}
            \/ resumed' = {u \in Thread \ {t} : pc[u] \in {"deferring", "deferred"}}
        BY Zenon DEF DeferDispatch, DeferDispatchDone, SyncEnabled, SyncRaises,
          EnableLiveDispatch, Resume, Drained, ReleaseDispatch, claim
      <3>2. QED
        BY <3>1 DEF Inv, TypeOK
    <2>7. QED
      BY <2>1, <2>2, <2>3, <2>4, <2>5, <2>6 DEF Inv, TypeOK
  <1>2. ClaimIsExclusive'
    BY EventsAssumption
    DEF Inv, TypeOK, ClaimIsExclusive, DeferDispatch, DeferDispatchDone, SyncEnabled,
        SyncRaises, EnableLiveDispatch, Drained, ReleaseDispatch, Go, Claimed,
        table, claim, bus, counters
  <1>3. UNCHANGED <<rows, audience, runs, excused, idempotency>>
    BY DEF DeferDispatch, DeferDispatchDone, SyncEnabled, SyncRaises,
        EnableLiveDispatch, Drained, ReleaseDispatch, table, claim, bus, counters
  <1>4. RowsInv'
    BY <1>3 DEF Inv, RowsInv, KeysUnique, AttemptsLeft, SqliteRows, BusKey
  <1>5. NoNewDelivery /\ Finishes
    BY SoleClaim
    DEF Inv, TypeOK, NoNewDelivery, Finishes, Claimed, DeferDispatch, DeferDispatchDone,
        SyncEnabled, SyncRaises, EnableLiveDispatch, Drained, ReleaseDispatch, Go,
        table, claim, bus, counters
  <1>6. QED
    BY <1>1, <1>2, <1>3, <1>4, <1>5, BusInvFrame DEF Inv

LEMMA ClaimingSteps ==
    ASSUME Inv, NEW t \in Thread, Drain(t) \/ RecoverSubscribers(t)
    PROVE  Inv'
  <1>1. TypeOK'
    <2>1. pc' \in [Thread -> Places]
      BY DEF Inv, TypeOK, Drain, RecoverSubscribers, TakeClaim, Go, Places, Claimed
    <2>2. task' \in [row : 0 .. MaxRows, todo : SUBSET Package, budget : 0 .. Limit]
      BY EventsAssumption DEF Inv, TypeOK, Drain, RecoverSubscribers, TakeClaim, NoTask, claim, bus, counters, table
    <2>3. /\ live' \in BOOLEAN /\ owed' \in BOOLEAN
          /\ dispatcher' \in Thread \cup {None} /\ resumed' \subseteq Thread
          /\ syncs' \in 0 .. MaxSyncs /\ crashes' \in 0 .. MaxCrashes
      BY EventsAssumption DEF Inv, TypeOK, Drain, RecoverSubscribers, Resume, TakeClaim, claim, bus, counters, table
    <2>4. UNCHANGED <<rows, active, idempotency, audience, runs, excused>>
      BY DEF Drain, RecoverSubscribers, TakeClaim, claim, bus, counters, table
    <2>5. QED
      BY <2>1, <2>2, <2>3, <2>4 DEF Inv, TypeOK
  <1>2. ClaimIsExclusive'
    BY EventsAssumption
    DEF Inv, TypeOK, ClaimIsExclusive, Drain, RecoverSubscribers, TakeClaim, Go, Claimed,
        table, claim, bus, counters
  <1>3. UNCHANGED <<rows, audience, runs, excused, idempotency>>
    BY DEF Drain, RecoverSubscribers, table, bus
  <1>4. RowsInv'
    BY <1>3 DEF Inv, RowsInv, KeysUnique, AttemptsLeft, SqliteRows, BusKey
  <1>5. NoNewDelivery /\ Finishes
    <2>1. \A u \in Thread : pc[u] # "deliver"
      BY EventsAssumption DEF Inv, ClaimIsExclusive, Claimed, Drain, RecoverSubscribers
    <2>2. \A u \in Thread : pc'[u] # "deliver"
      BY <2>1 DEF Inv, TypeOK, Drain, RecoverSubscribers, TakeClaim, Go
    <2>3. QED
      BY <2>1, <2>2 DEF NoNewDelivery, Finishes
  <1>6. QED
    BY <1>1, <1>2, <1>3, <1>4, <1>5, BusInvFrame DEF Inv
LEMMA PublishSteps ==
    ASSUME Inv, NEW t \in Thread, NEW o \in Owner, NEW k \in Key \cup {None},
           Publish(t, o, k) \/ PublishFromHandler(t, o, k)
    PROVE  Inv'
  <1>1. /\ UNCHANGED <<live, dispatcher, resumed, task, active, idempotency, syncs, crashes,
                       audience, runs, excused, owed>>
        /\ pc' \in [Thread -> Places]
        /\ \A u \in Thread : pc'[u] = pc[u] \/ (u = t /\ pc[t] = "idle" /\ pc'[t] = "drain")
    <2>1. UNCHANGED <<live, dispatcher, resumed, task, active, idempotency, syncs, crashes,
                      audience, runs, excused, owed>>
      BY DEF Publish, PublishFromHandler, claim, bus, counters
    <2>2. pc' = pc \/ (pc[t] = "idle" /\ pc' = [pc EXCEPT ![t] = "drain"])
      BY Zenon DEF Publish, PublishFromHandler, Go
    <2>3. pc \in [Thread -> Places]
      BY DEF Inv, TypeOK
    <2>4. pc' \in [Thread -> Places]
      BY <2>2, <2>3 DEF Places
    <2>5. \A u \in Thread : pc'[u] = pc[u] \/ (u = t /\ pc[t] = "idle" /\ pc'[t] = "drain")
      BY <2>2, <2>3
    <2>6. QED
      BY <2>1, <2>4, <2>5
  <1>2. ClaimIsExclusive'
    BY <1>1 DEF Inv, ClaimIsExclusive, Claimed
  <1>3. CASE rows' = rows
    <2>1. TypeOK' /\ RowsInv'
      BY <1>1, <1>3 DEF Inv, TypeOK, RowsInv, KeysUnique, AttemptsLeft, SqliteRows, BusKey
    <2>2. NoNewDelivery /\ Finishes
      BY <1>1 DEF NoNewDelivery, Finishes
    <2>3. QED
      BY <1>1, <1>2, <1>3, <2>1, <2>2, BusInvFrame DEF Inv
  <1>4. CASE ~Known(o, k) /\ Len(rows) < MaxRows /\ rows' = Append(rows, NewRow(o, k, TRUE))
    <2>1. rows' \in Seq(Row) /\ Len(rows') = Len(rows) + 1
      <3>1. NewRow(o, k, TRUE) \in Row
        BY NewRowType
      <3>2. QED
        BY <1>4, <3>1, AppendRow DEF Inv
    <2>2. Len(rows') <= MaxRows
      BY <1>4, <2>1, TableDomain, EventsAssumption DEF Inv
    <2>3. TypeOK'
      BY <1>1, <2>1, <2>2 DEF Inv, TypeOK
    <2>4. RowsInv'
      BY <1>4, RowsInvAppend DEF Inv
    <2>5. BusInv'
      BY <1>1, <1>4, BusInvAppend DEF Inv
    <2>6. QED
      BY <1>2, <2>3, <2>4, <2>5 DEF Inv
  <1>5. QED
    BY <1>3, <1>4 DEF Publish, PublishFromHandler, Enqueue

\* Row i is pending, and a failure of its delivery is recorded (PostgreSQL) or
\* raised (SQLite).
LEMMA FailedDelivery ==
    ASSUME Inv, NEW t \in Thread, NEW i \in DOMAIN rows, rows[i].status = "pending",
           pc[t] \in Claimed, task.budget > 0,
           FailPermanently(t, i) \/ FailForNow(t, i)
    PROVE  /\ rows' \in Seq(Row) /\ Len(rows') = Len(rows)
           /\ RowsInv'
           /\ \/ rows' = rows
              \/ /\ PostgreSQL
                 /\ \E r \in Row : /\ rows' = [rows EXCEPT ![i] = r]
                                   /\ r.owner = rows[i].owner /\ r.key = rows[i].key
                                   /\ r.status \in {"pending", "dead"}
           /\ task' \in [row : 0 .. MaxRows, todo : SUBSET Package, budget : 0 .. Limit]
           /\ owed' \in BOOLEAN
           /\ \E place \in {"fetch", "release"} : pc' = [pc EXCEPT ![t] = place]
  <1>1. CASE ~PostgreSQL
    <2>1. rows' = rows /\ task' = task /\ owed' = TRUE /\ pc' = [pc EXCEPT ![t] = "release"]
      BY <1>1 DEF FailPermanently, FailForNow, Raise, Go
    <2>2. RowsInv'
      BY <2>1 DEF Inv, RowsInv, KeysUnique, AttemptsLeft, SqliteRows, BusKey
    <2>3. QED
      BY <2>1, <2>2 DEF Inv, TypeOK
  <1>2. CASE PostgreSQL
    <2>1. PICK limit \in {rows[i].attempts + 1, MaxAttempts} : RecordFailure(t, i, limit)
      BY <1>2 DEF FailPermanently, FailForNow
    <2>2. rows[i] \in Row /\ rows[i].attempts < MaxAttempts
      BY TableDomain DEF Inv, RowsInv, AttemptsLeft
    <2> DEFINE r == Failed(rows[i], limit)
    <2>3. /\ r \in Row /\ r.owner = rows[i].owner /\ r.key = rows[i].key
          /\ r.status \in {"pending", "dead"}
          /\ r.status = "pending" => r.attempts < MaxAttempts
      BY <2>1, <2>2, FailedType
    <2>4. /\ rows' = [rows EXCEPT ![i] = r] /\ owed' = owed
          /\ task' = [NoTask EXCEPT !.budget = task.budget - 1]
          /\ pc' = [pc EXCEPT ![t] = "fetch"]
      BY <2>1 DEF RecordFailure, Go
    <2> HIDE DEF r
    <2>5. rows' \in Seq(Row) /\ Len(rows') = Len(rows)
      BY <2>3, <2>4, UpdateRow DEF Inv
    <2>6. RowsInv'
      BY <1>2, <2>3, <2>4, RowsInvUpdate DEF Inv
    <2>7. task' \in [row : 0 .. MaxRows, todo : SUBSET Package, budget : 0 .. Limit]
      <3>1. task.budget - 1 \in 0 .. Limit
        BY EventsAssumption DEF Inv, TypeOK
      <3>2. QED
        BY <2>4, <3>1, EventsAssumption DEF NoTask
    <2>8. QED
      BY <1>2, <2>3, <2>4, <2>5, <2>6, <2>7 DEF Inv, TypeOK
  <1>3. QED
    BY <1>1, <1>2, EventsAssumption
\* What Fetch tells of the row it names.
LEMMA Fetched ==
    ASSUME Inv, NEW t \in Thread, NEW i \in DOMAIN rows, Fetch(t, i)
    PROVE  /\ pc[t] \in Claimed /\ pc[t] = "fetch" /\ task.budget > 0
           /\ i \in RowId /\ rows[i].status = "pending"
           /\ \A u \in Thread : pc[u] # "deliver"
           /\ ~PostgreSQL => \A j \in DOMAIN rows : j < i => rows[j].status # "pending"
  <1>1. pc[t] = "fetch" /\ task.budget > 0 /\ i \in Ready
    BY DEF Fetch, First
  <1>2. \A u \in Thread : pc[u] # "deliver"
    BY <1>1, SoleClaim DEF Inv, Claimed
  <1>3. ASSUME ~PostgreSQL, NEW j \in DOMAIN rows, j < i
        PROVE  rows[j].status # "pending"
    <2>1. \A l \in Ready : i <= l
      BY <1>3 DEF Fetch, First
    <2>2. j \notin Ready
      BY <1>3, <2>1, TableDomain DEF Inv
    <2>3. rows[j].due = TRUE
      BY <1>3, TableDomain DEF Inv, RowsInv, SqliteRows, Row
    <2>4. QED
      BY <2>2, <2>3 DEF Ready
  <1>4. QED
    BY <1>1, <1>2, <1>3, TableDomain DEF Inv, Ready, Claimed

LEMMA RefusedSteps ==
    ASSUME Inv, NEW t \in Thread, NEW i \in DOMAIN rows,
           \/ Quarantine(t, i) \/ CapacityExceeded(t, i) \/ ContractInactive(t, i)
    PROVE  Inv'
  <1>1. /\ Fetch(t, i)
        /\ UNCHANGED <<live, dispatcher, resumed, active, idempotency, syncs, crashes,
                       audience, runs, excused>>
    BY DEF Quarantine, CapacityExceeded, ContractInactive, claim, bus, counters
  <1>2. /\ pc[t] = "fetch" /\ pc[t] \in Claimed /\ task.budget > 0
        /\ rows[i].status = "pending" /\ \A u \in Thread : pc[u] # "deliver"
    BY <1>1, Fetched
  <1>3. CASE FailPermanently(t, i) \/ FailForNow(t, i)
    <2>1. /\ rows' \in Seq(Row) /\ Len(rows') = Len(rows)
          /\ RowsInv'
          /\ \/ rows' = rows
             \/ /\ PostgreSQL
                /\ \E r \in Row : /\ rows' = [rows EXCEPT ![i] = r]
                                  /\ r.owner = rows[i].owner /\ r.key = rows[i].key
                                  /\ r.status \in {"pending", "dead"}
          /\ task' \in [row : 0 .. MaxRows, todo : SUBSET Package, budget : 0 .. Limit]
          /\ owed' \in BOOLEAN
          /\ \E place \in {"fetch", "release"} : pc' = [pc EXCEPT ![t] = place]
      BY <1>2, <1>3, FailedDelivery
    <2>2. /\ pc' \in [Thread -> Places] /\ \A u \in Thread : pc'[u] # "deliver"
          /\ pc'[t] \in Claimed /\ \A u \in Thread : u # t => pc'[u] = pc[u]
      BY <1>2, <2>1 DEF Inv, TypeOK, Places, Claimed
    <2>3. TypeOK'
      BY <1>1, <2>1, <2>2 DEF Inv, TypeOK
    <2>4. ClaimIsExclusive'
      BY <1>1, <1>2, <2>2 DEF Inv, ClaimIsExclusive
    <2>5. NoNewDelivery /\ Finishes
      BY <1>2, <2>2 DEF NoNewDelivery, Finishes
    <2>6. BusInv'
      <3>1. CASE rows' = rows
        BY <1>1, <2>5, <3>1, BusInvFrame DEF Inv
      <3>2. ASSUME PostgreSQL, NEW r \in Row, rows' = [rows EXCEPT ![i] = r],
                   r.owner = rows[i].owner, r.key = rows[i].key,
                   r.status \in {"pending", "dead"}
            PROVE  BusInv'
        BY <1>1, <2>2, <2>5, <3>2, BusInvUpdate DEF Inv
      <3>3. QED
        BY <2>1, <3>1, <3>2
    <2>7. QED
      BY <2>1, <2>3, <2>4, <2>6 DEF Inv
  <1>4. CASE ~PostgreSQL /\ Settle(t, i, "quarantined", 0) /\ owed' = owed
    <2> DEFINE r == [rows[i] EXCEPT !.status = "quarantined"]
    <2>1. rows[i] \in Row
      BY TableDomain DEF Inv
    <2>2. /\ r \in Row /\ r.owner = rows[i].owner /\ r.key = rows[i].key
          /\ r.status = "quarantined" /\ r.due = rows[i].due
      BY <2>1 DEF Row, Status
    <2>3. /\ rows' = [rows EXCEPT ![i] = r] /\ pc' = [pc EXCEPT ![t] = "fetch"]
          /\ task' = [NoTask EXCEPT !.budget = task.budget - 0]
      BY <1>4 DEF Settle, Go
    <2> HIDE DEF r
    <2>4. task' \in [row : 0 .. MaxRows, todo : SUBSET Package, budget : 0 .. Limit]
      <3>1. task.budget - 0 \in 0 .. Limit
        BY EventsAssumption DEF Inv, TypeOK
      <3>2. QED
        BY <2>3, <3>1, EventsAssumption DEF NoTask
    <2>5. pc' = pc
      BY <1>2, <2>3 DEF Inv, TypeOK
    <2>6. TypeOK'
      BY <1>1, <1>4, <2>2, <2>3, <2>4, <2>5, UpdateRow DEF Inv, TypeOK
    <2>7. ClaimIsExclusive'
      BY <1>1, <2>5 DEF Inv, ClaimIsExclusive
    <2>8. RowsInv'
      <3>1. ~PostgreSQL => r.due
        BY <2>2 DEF Inv, RowsInv, SqliteRows
      <3>2. QED
        BY <2>2, <2>3, <3>1, RowsInvUpdate DEF Inv
    <2>9. NoNewDelivery /\ Finishes
      BY <1>2, <2>5 DEF NoNewDelivery, Finishes
    <2>10. BusInv'
      <3>1. r.status # "dispatched" /\ r.status # "pending"
        BY <2>2
      <3>2. \A u \in Thread : pc'[u] # "deliver"
        BY <1>2, <2>5
      <3>3. QED
        BY <1>1, <2>2, <2>3, <2>9, <3>1, <3>2, BusInvUpdate DEF Inv
    <2>11. QED
      BY <2>6, <2>7, <2>8, <2>10 DEF Inv
  <1>5. QED
    BY <1>3, <1>4 DEF Quarantine, CapacityExceeded, ContractInactive

LEMMA DeliverySteps ==
    ASSUME Inv, NEW t \in Thread, NEW i \in DOMAIN rows,
           AlreadyDelivered(t, i) \/ Deliver(t, i)
    PROVE  Inv'
  <1>1. /\ Fetch(t, i) /\ pc' = [pc EXCEPT ![t] = "deliver"]
        /\ UNCHANGED <<rows, live, dispatcher, resumed, active, syncs, crashes, runs, excused, owed>>
        /\ task' = [task EXCEPT !.row = i, !.todo = task'.todo]
    BY DEF AlreadyDelivered, Deliver, Go, Inv, TypeOK, table, claim, bus, counters
  <1>2. /\ pc[t] \in Claimed /\ pc[t] = "fetch" /\ task.budget > 0
        /\ i \in RowId /\ rows[i].status = "pending"
        /\ \A u \in Thread : pc[u] # "deliver"
        /\ ~PostgreSQL => \A j \in DOMAIN rows : j < i => rows[j].status # "pending"
    BY <1>1, Fetched
  <1>3. /\ pc' \in [Thread -> Places] /\ pc'[t] = "deliver" /\ pc'[t] \in Claimed
        /\ \A u \in Thread : u # t => pc'[u] = pc[u]
    BY <1>1 DEF Inv, TypeOK, Places, Claimed
  <1>4. ClaimIsExclusive'
    BY <1>1, <1>2, <1>3 DEF Inv, ClaimIsExclusive
  <1>5. RowsInv'
    BY <1>1 DEF Inv, RowsInv, KeysUnique, AttemptsLeft, SqliteRows, BusKey
  <1>6. task'.row = i /\ task'.budget = task.budget
    BY <1>1 DEF Inv, TypeOK
  <1>7. SqliteInOrder'
    BY <1>1 DEF Inv, BusInv, SqliteInOrder, InOrder
  <1>8. \A j \in DOMAIN rows : BusKey(j)' = BusKey(j) /\ Keyed(j)' = Keyed(j)
    BY <1>1 DEF BusKey, Keyed
  <1>9. CASE AlreadyDelivered(t, i)
    <2>1. /\ UNCHANGED <<audience, idempotency>> /\ BusKey(i) \in idempotency
          /\ task'.todo = {}
      BY <1>9 DEF AlreadyDelivered, table, bus, Inv, TypeOK
    <2>2. TypeOK'
      <3>1. task' \in [row : 0 .. MaxRows, todo : SUBSET Package, budget : 0 .. Limit]
        <4>1. task \in [row : 0 .. MaxRows, todo : SUBSET Package, budget : 0 .. Limit]
          BY DEF Inv, TypeOK
        <4>2. i \in 0 .. MaxRows /\ active \subseteq Package
          BY <1>2, EventsAssumption DEF RowId, Inv, TypeOK
        <4>3. task' = [task EXCEPT !.row = i, !.todo = {}]
          BY <1>9 DEF AlreadyDelivered
        <4>4. QED
          BY <4>1, <4>2, <4>3
      <3>2. QED
        BY <1>1, <1>3, <2>1, <3>1 DEF Inv, TypeOK
    <2>3. \A s \in audience[i] : runs[i][s] > 0
      BY <1>2, <2>1 DEF Inv, BusInv, Reserved
    <2>4. Fresh' /\ DispatchedWasHandled'
      BY <1>1, <2>1 DEF Inv, BusInv, Fresh, DispatchedWasHandled
    <2>5. InProgress'
      BY <1>1, <1>2, <1>3, <1>6, <2>1, <2>3 DEF InProgress
    <2>6. Reserved'
      BY <1>1, <1>2, <1>8, <2>1 DEF Inv, BusInv, Reserved
    <2>7. Once'
      BY <1>1, <1>2, <1>3, <1>6, <1>8, <2>1 DEF Inv, BusInv, Once
    <2>8. QED
      BY <1>4, <1>5, <1>7, <2>2, <2>4, <2>5, <2>6, <2>7 DEF Inv, BusInv
  <1>10. CASE Deliver(t, i)
    <2>1. /\ idempotency' = idempotency \cup (IF Keyed(i) THEN {BusKey(i)} ELSE {})
          /\ audience' = [audience EXCEPT ![i] = active]
          /\ task'.todo = active /\ BusKey(i) \notin idempotency
      BY <1>10 DEF Deliver, Inv, TypeOK
    <2>2. /\ audience' \in [RowId -> SUBSET Package] /\ audience'[i] = active
          /\ \A j \in RowId : j # i => audience'[j] = audience[j]
      BY <1>2, <2>1 DEF Inv, TypeOK
    <2>3. idempotency' \subseteq Owner \X Key
      <3>1. rows[i] \in Row
        BY TableDomain DEF Inv
      <3>2. Keyed(i) => BusKey(i) \in Owner \X Key
        BY <3>1 DEF Keyed, BusKey, Row
      <3>3. QED
        BY <2>1, <3>2 DEF Inv, TypeOK
    <2>4. TypeOK'
      <3>1. task' \in [row : 0 .. MaxRows, todo : SUBSET Package, budget : 0 .. Limit]
        <4>1. task \in [row : 0 .. MaxRows, todo : SUBSET Package, budget : 0 .. Limit]
          BY DEF Inv, TypeOK
        <4>2. i \in 0 .. MaxRows /\ active \subseteq Package
          BY <1>2, EventsAssumption DEF RowId, Inv, TypeOK
        <4>3. task' = [task EXCEPT !.row = i, !.todo = active]
          BY <1>10 DEF Deliver
        <4>4. QED
          BY <4>1, <4>2, <4>3
      <3>2. QED
        BY <1>1, <1>3, <2>2, <2>3, <3>1 DEF Inv, TypeOK
    <2>5. Fresh' /\ DispatchedWasHandled'
      BY <1>1, <1>2, <2>2, TableDomain DEF Inv, BusInv, Fresh, DispatchedWasHandled
    <2>6. InProgress'
      BY <1>1, <1>2, <1>3, <1>6, <2>1, <2>2 DEF InProgress
    <2>7. \A j \in DOMAIN rows : j # i => (BusKey(j) \in idempotency' => BusKey(j) \in idempotency)
      BY <2>1 DEF Inv, RowsInv, KeysUnique, Keyed
    <2>8. Reserved'
      <3>1. ASSUME NEW j \in DOMAIN rows, j # i, BusKey(j) \in idempotency'
            PROVE  \A s \in audience'[j] : runs'[j][s] > 0
        BY <1>1, <1>2, <2>2, <2>7, <3>1, TableDomain DEF Inv, BusInv, Reserved
      <3>2. QED
        BY <1>1, <1>3, <1>6, <1>8, <3>1 DEF Reserved
    <2>9. Once'
      <3>1. ASSUME Keyed(i), ~excused[i]
            PROVE  BusKey(i) \in idempotency' /\ \A s \in Package : runs[i][s] = 0
        BY <2>1, <3>1 DEF Inv, BusInv, Once
      <3>2. idempotency \subseteq idempotency' /\ task'.todo \subseteq Package
        BY <2>1 DEF Inv, TypeOK
      <3>3. QED
        BY <1>1, <1>2, <1>3, <1>6, <1>8, <3>1, <3>2 DEF Inv, BusInv, Once
    <2>10. QED
      BY <1>4, <1>5, <1>7, <2>4, <2>5, <2>6, <2>8, <2>9 DEF Inv, BusInv
  <1>11. QED
    BY <1>9, <1>10
\* What InProgress tells of the row the dispatcher is working on.
LEMMA Delivering ==
    ASSUME Inv, NEW t \in Thread, pc[t] = "deliver"
    PROVE  /\ task.row \in DOMAIN rows /\ task.row \in RowId /\ task.budget > 0
           /\ rows[task.row] \in Row /\ rows[task.row].status = "pending"
           /\ \A s \in audience[task.row] \ task.todo : runs[task.row][s] > 0
           /\ ~PostgreSQL => \A j \in DOMAIN rows : j < task.row => rows[j].status # "pending"
           /\ pc[t] \in Claimed /\ \A u \in Thread : pc[u] \in Claimed => u = t
  <1>1. pc[t] \in Claimed
    BY DEF Claimed
  <1>2. QED
    BY <1>1, TableDomain, SoleClaim DEF Inv, BusInv, InProgress

LEMMA HandlerReturnsStep ==
    ASSUME Inv, NEW t \in Thread, NEW s \in Package, HandlerReturns(t, s)
    PROVE  Inv'
  <1> DEFINE i == task.row
  <1>1. /\ pc[t] = "deliver" /\ s \in task.todo
        /\ UNCHANGED <<rows, live, dispatcher, resumed, pc, active, idempotency, syncs, crashes,
                       audience, excused, owed>>
        /\ task' = [task EXCEPT !.todo = @ \ {s}]
        /\ runs' = [runs EXCEPT ![i][s] = IF @ < 2 THEN @ + 1 ELSE @]
    BY DEF HandlerReturns, claim, bus, counters
  <1>2. /\ i \in DOMAIN rows /\ i \in RowId /\ task.budget > 0
        /\ rows[i].status = "pending"
        /\ \A q \in audience[i] \ task.todo : runs[i][q] > 0
        /\ ~PostgreSQL => \A j \in DOMAIN rows : j < i => rows[j].status # "pending"
    BY <1>1, Delivering
  <1>3. /\ task'.row = i /\ task'.todo = task.todo \ {s} /\ task'.budget = task.budget
        /\ task' \in [row : 0 .. MaxRows, todo : SUBSET Package, budget : 0 .. Limit]
    BY <1>1 DEF Inv, TypeOK
  <1>4. /\ runs' \in [RowId -> [Package -> 0 .. 2]]
        /\ \A j \in RowId : j # i => runs'[j] = runs[j]
        /\ \A q \in Package : q # s => runs'[i][q] = runs[i][q]
        /\ runs'[i][s] > 0 /\ (runs[i][s] = 0 => runs'[i][s] = 1)
    <2>1. runs \in [RowId -> [Package -> 0 .. 2]] /\ runs[i] \in [Package -> 0 .. 2]
          /\ runs[i][s] \in 0 .. 2
      BY <1>2 DEF Inv, TypeOK
    <2> DEFINE c == IF runs[i][s] < 2 THEN runs[i][s] + 1 ELSE runs[i][s]
    <2>2. c \in 0 .. 2 /\ c > 0 /\ (runs[i][s] = 0 => c = 1)
      BY <2>1
    <2>3. runs' = [runs EXCEPT ![i] = [runs[i] EXCEPT ![s] = c]]
      BY <1>1
    <2> HIDE DEF c, i
    <2>4. [runs[i] EXCEPT ![s] = c] \in [Package -> 0 .. 2]
      BY <2>1, <2>2
    <2>5. QED
      BY <1>2, <2>1, <2>2, <2>3, <2>4
  <1> HIDE DEF i
  <1>5. TypeOK' /\ ClaimIsExclusive'
    BY <1>1, <1>3, <1>4 DEF Inv, TypeOK, ClaimIsExclusive
  <1>6. RowsInv'
    BY <1>1 DEF Inv, RowsInv, KeysUnique, AttemptsLeft, SqliteRows, BusKey
  <1>7. \A j \in DOMAIN rows : BusKey(j)' = BusKey(j) /\ Keyed(j)' = Keyed(j)
    BY <1>1 DEF BusKey, Keyed
  <1>8. DOMAIN rows \subseteq RowId /\ \A j \in RowId : audience[j] \subseteq Package
    BY TableDomain DEF Inv, TypeOK
  <1>9. \A j \in RowId : \A q \in Package : runs[j][q] > 0 => runs'[j][q] > 0
    BY <1>4
  <1>10. Fresh'
    BY <1>1, <1>2, <1>4 DEF Inv, BusInv, Fresh
  <1>11. DispatchedWasHandled' /\ SqliteInOrder'
    BY <1>1, <1>8, <1>9 DEF Inv, BusInv, DispatchedWasHandled, SqliteInOrder, InOrder
  <1>12. InProgress'
    BY <1>1, <1>2, <1>3, <1>4, <1>8, <1>9 DEF InProgress
  <1>13. Reserved'
    BY <1>1, <1>3, <1>7, <1>8, <1>9 DEF Inv, BusInv, Reserved, i
  <1>14. Once'
    <2> SUFFICES ASSUME NEW j \in DOMAIN rows, Keyed(j), ~excused[j]
                 PROVE  /\ \A q \in Package : runs'[j][q] <= 1
                        /\ BusKey(j) \notin idempotency =>
                              \A q \in Package : runs'[j][q] = 0
                        /\ \A u \in Thread : pc[u] = "deliver" /\ i = j =>
                              \A q \in task'.todo :
                                 BusKey(j) \in idempotency /\ runs'[j][q] = 0
      BY <1>1, <1>3, <1>7 DEF Once
    <2>1. /\ \A q \in Package : runs[j][q] <= 1
          /\ BusKey(j) \notin idempotency => \A q \in Package : runs[j][q] = 0
          /\ i = j => \A q \in task.todo : BusKey(j) \in idempotency /\ runs[j][q] = 0
      BY <1>1 DEF Inv, BusInv, Once, i
    <2>2. task.todo \subseteq Package
      BY DEF Inv, TypeOK
    <2>3. CASE j = i
      <3>1. BusKey(j) \in idempotency /\ runs'[j][s] = 1
        BY <1>1, <1>4, <2>1, <2>3
      <3>2. QED
        BY <1>3, <1>4, <2>1, <2>2, <2>3, <3>1
    <2>4. CASE j # i
      BY <1>4, <1>8, <2>1, <2>4
    <2>5. QED
      BY <2>3, <2>4
  <1>15. QED
    BY <1>5, <1>6, <1>10, <1>11, <1>12, <1>13, <1>14 DEF Inv, BusInv

LEMMA HandlerFailsStep ==
    ASSUME Inv, NEW t \in Thread, HandlerFails(t)
    PROVE  Inv'
  <1> DEFINE i == task.row
  <1>1. /\ pc[t] = "deliver" /\ FailForNow(t, i)
        /\ UNCHANGED <<live, dispatcher, resumed, active, syncs, crashes, audience, runs>>
        /\ idempotency' = idempotency \ {BusKey(i)}
        /\ excused' = [excused EXCEPT ![i] = TRUE]
    BY DEF HandlerFails, claim, counters
  <1>2. /\ i \in DOMAIN rows /\ i \in RowId /\ task.budget > 0
        /\ rows[i].status = "pending" /\ pc[t] \in Claimed
        /\ \A u \in Thread : pc[u] \in Claimed => u = t
    BY <1>1, Delivering
  <1> HIDE DEF i
  <1>3. /\ rows' \in Seq(Row) /\ Len(rows') = Len(rows)
        /\ RowsInv'
        /\ \/ rows' = rows
           \/ /\ PostgreSQL
              /\ \E r \in Row : /\ rows' = [rows EXCEPT ![i] = r]
                                /\ r.owner = rows[i].owner /\ r.key = rows[i].key
                                /\ r.status \in {"pending", "dead"}
        /\ task' \in [row : 0 .. MaxRows, todo : SUBSET Package, budget : 0 .. Limit]
        /\ owed' \in BOOLEAN
        /\ \E place \in {"fetch", "release"} : pc' = [pc EXCEPT ![t] = place]
    BY <1>1, <1>2, FailedDelivery
  <1>4. /\ pc' \in [Thread -> Places] /\ \A u \in Thread : pc'[u] # "deliver"
        /\ pc'[t] \in Claimed /\ \A u \in Thread : u # t => pc'[u] = pc[u]
    BY <1>2, <1>3 DEF Inv, TypeOK, Places, Claimed
  <1>5. /\ DOMAIN rows' = DOMAIN rows
        /\ \A j \in DOMAIN rows :
              /\ rows'[j].owner = rows[j].owner /\ rows'[j].key = rows[j].key
              /\ rows'[j].status = "dispatched" => rows[j].status = "dispatched"
              /\ rows'[j].status = "pending" => rows[j].status = "pending"
    <2>1. CASE rows' = rows
      BY <2>1
    <2>2. ASSUME NEW r \in Row, rows' = [rows EXCEPT ![i] = r],
                 r.owner = rows[i].owner, r.key = rows[i].key,
                 r.status \in {"pending", "dead"}
          PROVE  <1>5!1 /\ <1>5!2
      <3>1. /\ DOMAIN rows' = DOMAIN rows /\ rows'[i] = r
            /\ \A j \in DOMAIN rows : j # i => rows'[j] = rows[j]
        BY <1>2, <2>2, UpdateRow DEF Inv
      <3>2. QED
        BY <1>2, <2>2, <3>1
    <2>3. QED
      BY <1>3, <2>1, <2>2
  <1>6. excused' \in [RowId -> BOOLEAN] /\ excused'[i]
        /\ \A j \in RowId : excused[j] => excused'[j]
    BY <1>1, <1>2 DEF Inv, TypeOK
  <1>7. TypeOK'
    BY <1>1, <1>3, <1>4, <1>6 DEF Inv, TypeOK
  <1>8. ClaimIsExclusive'
    BY <1>1, <1>2, <1>4 DEF Inv, ClaimIsExclusive
  <1>9. \A j \in DOMAIN rows : BusKey(j)' = BusKey(j) /\ Keyed(j)' = Keyed(j)
    BY <1>5 DEF BusKey, Keyed
  <1>10. Fresh' /\ DispatchedWasHandled' /\ SqliteInOrder'
    BY <1>1, <1>5 DEF Inv, BusInv, Fresh, DispatchedWasHandled, SqliteInOrder, InOrder
  <1>11. InProgress'
    BY <1>4 DEF InProgress
  <1>12. Reserved'
    <2> SUFFICES ASSUME NEW j \in DOMAIN rows, BusKey(j) \in idempotency'
                 PROVE  \A s \in audience[j] : runs[j][s] > 0
      BY <1>1, <1>5, <1>9 DEF Reserved
    <2>1. j # i /\ BusKey(j) \in idempotency
      BY <1>1
    <2>2. QED
      BY <2>1 DEF Inv, BusInv, Reserved, i
  <1>13. Once'
    <2> SUFFICES ASSUME NEW j \in DOMAIN rows, Keyed(j), ~excused'[j]
                 PROVE  /\ \A q \in Package : runs[j][q] <= 1
                        /\ BusKey(j) \notin idempotency' =>
                              \A q \in Package : runs[j][q] = 0
      BY <1>1, <1>4, <1>5, <1>9 DEF Once
    <2>1. j # i /\ ~excused[j]
      BY <1>6, TableDomain DEF Inv
    <2>2. BusKey(j) # BusKey(i)
      BY <1>2, <2>1 DEF Inv, RowsInv, KeysUnique, Keyed
    <2>3. QED
      BY <1>1, <2>1, <2>2 DEF Inv, BusInv, Once
  <1>14. QED
    BY <1>3, <1>7, <1>8, <1>10, <1>11, <1>12, <1>13 DEF Inv, BusInv

LEMMA MarkSteps ==
    ASSUME Inv, NEW t \in Thread, MarkDispatched(t) \/ MarkFails(t)
    PROVE  Inv'
  <1> DEFINE i == task.row
  <1>1. /\ pc[t] = "deliver" /\ task.todo = {}
        /\ UNCHANGED <<live, dispatcher, resumed, active, idempotency, syncs, crashes,
                       audience, runs, excused>>
    BY DEF MarkDispatched, MarkFails, claim, bus, counters
  <1>2. /\ i \in DOMAIN rows /\ i \in RowId /\ task.budget > 0
        /\ rows[i] \in Row /\ rows[i].status = "pending" /\ pc[t] \in Claimed
        /\ \A s \in audience[i] \ task.todo : runs[i][s] > 0
        /\ ~PostgreSQL => \A j \in DOMAIN rows : j < i => rows[j].status # "pending"
        /\ \A u \in Thread : pc[u] \in Claimed => u = t
    BY <1>1, Delivering
  <1>3. \A s \in audience[i] : runs[i][s] > 0
    BY <1>1, <1>2
  <1>4. Finishes
    BY <1>1, <1>2, <1>3 DEF Finishes, Claimed
  <1>5. \E place \in {"fetch", "release"} : pc' = [pc EXCEPT ![t] = place]
    BY DEF MarkDispatched, MarkFails, Settle, Raise, Go
  <1>6. /\ pc' \in [Thread -> Places] /\ \A u \in Thread : pc'[u] # "deliver"
        /\ pc'[t] \in Claimed /\ \A u \in Thread : u # t => pc'[u] = pc[u]
    BY <1>2, <1>5 DEF Inv, TypeOK, Places, Claimed
  <1>7. ClaimIsExclusive' /\ NoNewDelivery
    BY <1>1, <1>2, <1>6 DEF Inv, ClaimIsExclusive, NoNewDelivery
  <1>8. CASE MarkFails(t)
    <2>1. rows' = rows /\ task' = task /\ owed' = TRUE
      BY <1>8 DEF MarkFails, Raise
    <2>2. TypeOK' /\ RowsInv'
      BY <1>1, <1>6, <2>1
      DEF Inv, TypeOK, RowsInv, KeysUnique, AttemptsLeft, SqliteRows, BusKey
    <2>3. QED
      BY <1>1, <1>4, <1>7, <2>1, <2>2, BusInvFrame DEF Inv
  <1>9. CASE MarkDispatched(t)
    <2> DEFINE r == [rows[i] EXCEPT !.status = "dispatched"]
    <2>1. /\ r \in Row /\ r.owner = rows[i].owner /\ r.key = rows[i].key
          /\ r.status = "dispatched" /\ r.due = rows[i].due
      BY <1>2 DEF Row, Status
    <2>2. /\ rows' = [rows EXCEPT ![i] = r] /\ owed' = owed
          /\ task' = [NoTask EXCEPT !.budget = task.budget - 1]
      BY <1>9 DEF MarkDispatched, Settle
    <2> HIDE DEF r, i
    <2>3. task' \in [row : 0 .. MaxRows, todo : SUBSET Package, budget : 0 .. Limit]
      <3>1. task.budget - 1 \in 0 .. Limit
        BY <1>2, EventsAssumption DEF Inv, TypeOK
      <3>2. QED
        BY <2>2, <3>1, EventsAssumption DEF NoTask
    <2>4. TypeOK'
      BY <1>1, <1>2, <1>6, <2>1, <2>2, <2>3, UpdateRow DEF Inv, TypeOK
    <2>5. RowsInv'
      <3>1. ~PostgreSQL => r.due
        BY <1>2, <2>1 DEF Inv, RowsInv, SqliteRows
      <3>2. QED
        BY <1>2, <2>1, <2>2, <3>1, RowsInvUpdate DEF Inv
    <2>6. BusInv'
      <3>1. r.status # "pending"
        BY <2>1
      <3>2. QED
        BY <1>1, <1>2, <1>3, <1>4, <1>6, <1>7, <2>1, <2>2, <3>1, BusInvUpdate DEF Inv
    <2>7. QED
      BY <1>7, <2>4, <2>5, <2>6 DEF Inv
  <1>10. QED
    BY <1>8, <1>9
LEMMA RetrySteps ==
    ASSUME Inv, NEW i \in DOMAIN rows, BackoffElapses(i) \/ RequeueDeadLetter(i)
    PROVE  Inv'
  <1>1. /\ UNCHANGED <<live, dispatcher, resumed, pc, task, active, idempotency, syncs, crashes,
                       audience, runs, excused>>
        /\ owed' = TRUE
    BY DEF BackoffElapses, RequeueDeadLetter, claim, bus, counters
  <1>2. rows[i] \in Row
    BY TableDomain DEF Inv
  <1>3. PICK r \in Row :
          /\ rows' = [rows EXCEPT ![i] = r]
          /\ r.owner = rows[i].owner /\ r.key = rows[i].key /\ r.due = TRUE
          /\ \/ r.status = rows[i].status /\ r.attempts = rows[i].attempts
             \/ rows[i].status = "dead" /\ r.status = "pending" /\ r.attempts = 0
    <2>1. CASE BackoffElapses(i)
      <3> DEFINE r == [rows[i] EXCEPT !.due = TRUE]
      <3>1. rows' = [rows EXCEPT ![i] = r]
        BY <2>1 DEF BackoffElapses
      <3>2. /\ r \in Row /\ r.owner = rows[i].owner /\ r.key = rows[i].key /\ r.due = TRUE
            /\ r.status = rows[i].status /\ r.attempts = rows[i].attempts
        BY <1>2 DEF Row
      <3>3. QED
        BY <3>1, <3>2
    <2>2. CASE RequeueDeadLetter(i)
      <3> DEFINE r == [rows[i] EXCEPT !.status = "pending", !.attempts = 0, !.due = TRUE]
      <3>1. rows' = [rows EXCEPT ![i] = r] /\ rows[i].status = "dead"
        BY <2>2 DEF RequeueDeadLetter
      <3>2. /\ r \in Row /\ r.owner = rows[i].owner /\ r.key = rows[i].key /\ r.due = TRUE
            /\ r.status = "pending" /\ r.attempts = 0
        <4>1. 0 \in 0 .. MaxAttempts /\ "pending" \in Status /\ TRUE \in BOOLEAN
          BY EventsAssumption DEF Status
        <4>2. QED
          BY <1>2, <4>1 DEF Row
      <3>3. QED
        BY <3>1, <3>2
    <2>3. QED
      BY <2>1, <2>2
  <1>4. /\ rows[i].status = "pending" => rows[i].attempts < MaxAttempts
        /\ ~PostgreSQL => rows[i].status # "dead"
    BY DEF Inv, RowsInv, AttemptsLeft, SqliteRows
  <1>5. /\ r.status = "pending" => r.attempts < MaxAttempts
        /\ ~PostgreSQL => r.due /\ r.status # "dead"
        /\ r.status = "pending" => rows[i].status = "pending" \/ PostgreSQL
    BY <1>3, <1>4, EventsAssumption
  <1>6. TypeOK' /\ ClaimIsExclusive'
    BY <1>1, <1>3, UpdateRow DEF Inv, TypeOK, ClaimIsExclusive
  <1>7. RowsInv'
    BY <1>3, <1>5, RowsInvUpdate DEF Inv
  <1>8. NoNewDelivery /\ Finishes
    BY <1>1 DEF NoNewDelivery, Finishes
  <1>9. BusInv'
    <2>1. \A t \in Thread : pc'[t] = "deliver" /\ task.row = i => r.status = "pending"
      <3> SUFFICES ASSUME NEW t \in Thread, pc[t] = "deliver", task.row = i
                   PROVE  r.status = "pending"
        BY <1>1
      <3>1. rows[i].status = "pending"
        BY Delivering
      <3>2. QED
        BY <1>3, <3>1
    <2>2. r.status = "dispatched" =>
             /\ rows[i].status = "dispatched"
             /\ ~PostgreSQL => \A j \in DOMAIN rows : j < i => rows[j].status # "pending"
      BY <1>3 DEF Inv, BusInv, SqliteInOrder, InOrder
    <2>3. QED
      BY <1>1, <1>3, <1>5, <1>8, <2>1, <2>2, BusInvUpdate DEF Inv
  <1>10. QED
    BY <1>6, <1>7, <1>9 DEF Inv

LEMMA BindingSteps ==
    ASSUME Inv, NEW p \in Package, ActivateOwner(p) \/ DeactivateOwner(p)
    PROVE  Inv'
  <1>1. /\ UNCHANGED <<rows, live, dispatcher, resumed, pc, task, idempotency, syncs, crashes,
                       audience, runs, excused, owed>>
        /\ active' \subseteq Package
    BY DEF ActivateOwner, DeactivateOwner, table, claim, counters, Inv, TypeOK
  <1>2. TypeOK' /\ ClaimIsExclusive'
    BY <1>1 DEF Inv, TypeOK, ClaimIsExclusive
  <1>3. RowsInv'
    BY <1>1 DEF Inv, RowsInv, KeysUnique, AttemptsLeft, SqliteRows, BusKey
  <1>4. NoNewDelivery /\ Finishes
    BY <1>1 DEF NoNewDelivery, Finishes
  <1>5. QED
    BY <1>1, <1>2, <1>3, <1>4, BusInvFrame DEF Inv

LEMMA DropOwnerStep ==
    ASSUME Inv, NEW p \in Package, DropOwner(p)
    PROVE  Inv'
  <1>1. /\ UNCHANGED <<rows, live, dispatcher, resumed, pc, task, syncs, crashes, audience, runs, owed>>
        /\ active' = active \ {p}
        /\ idempotency' = {k \in idempotency : k[1] # p}
        /\ excused' = [i \in RowId |->
                         excused[i] \/ (i \in DOMAIN rows /\ rows[i].owner = p)]
    BY DEF DropOwner, claim, counters
  <1>2. /\ excused' \in [RowId -> BOOLEAN]
        /\ \A i \in DOMAIN rows : ~excused'[i] => ~excused[i] /\ rows[i].owner # p
    BY <1>1, TableDomain DEF Inv, TypeOK
  <1>3. TypeOK'
    BY <1>1, <1>2 DEF Inv, TypeOK
  <1>4. ClaimIsExclusive' /\ RowsInv'
    BY <1>1 DEF Inv, ClaimIsExclusive, RowsInv, KeysUnique, AttemptsLeft, SqliteRows, BusKey
  <1>5. Fresh' /\ InProgress' /\ DispatchedWasHandled' /\ SqliteInOrder'
    BY <1>1 DEF Inv, BusInv, Fresh, InProgress, DispatchedWasHandled, SqliteInOrder, InOrder
  <1>6. \A i \in DOMAIN rows : BusKey(i)' = BusKey(i) /\ Keyed(i)' = Keyed(i)
    BY <1>1 DEF BusKey, Keyed
  <1>7. Reserved'
    BY <1>1, <1>6 DEF Inv, BusInv, Reserved
  <1>8. Once'
    <2>1. \A i \in DOMAIN rows : ~excused'[i] =>
             (BusKey(i) \in idempotency' <=> BusKey(i) \in idempotency)
      BY <1>1, <1>2 DEF BusKey
    <2>2. QED
      BY <1>1, <1>2, <1>6, <2>1 DEF Inv, BusInv, Once
  <1>9. QED
    BY <1>3, <1>4, <1>5, <1>7, <1>8 DEF Inv, BusInv

LEMMA CrashStep ==
    ASSUME Inv, Crash
    PROVE  Inv'
  <1>1. /\ UNCHANGED <<rows, audience, runs, syncs>>
        /\ live' = FALSE /\ dispatcher' = None /\ resumed' = {} /\ task' = NoTask
        /\ pc' = [t \in Thread |-> "idle"] /\ active' = {} /\ idempotency' = {}
        /\ excused' = [i \in RowId |-> i \in DOMAIN rows] /\ owed' = TRUE
        /\ crashes' \in 0 .. MaxCrashes
    BY EventsAssumption DEF Crash, Inv, TypeOK
  <1>2. /\ pc' \in [Thread -> Places] /\ excused' \in [RowId -> BOOLEAN]
        /\ task' \in [row : 0 .. MaxRows, todo : SUBSET Package, budget : 0 .. Limit]
    BY <1>1, EventsAssumption DEF NoTask, Places
  <1>3. TypeOK'
    BY <1>1, <1>2 DEF Inv, TypeOK
  <1>4. ClaimIsExclusive'
    BY <1>1, EventsAssumption DEF ClaimIsExclusive, Claimed
  <1>5. RowsInv'
    BY <1>1 DEF Inv, RowsInv, KeysUnique, AttemptsLeft, SqliteRows, BusKey
  <1>6. Fresh' /\ DispatchedWasHandled' /\ SqliteInOrder'
    BY <1>1 DEF Inv, BusInv, Fresh, DispatchedWasHandled, SqliteInOrder, InOrder
  <1>7. InProgress' /\ Reserved'
    BY <1>1 DEF InProgress, Reserved
  <1>8. Once'
    <2>1. \A i \in DOMAIN rows : excused'[i]
      BY <1>1, TableDomain DEF Inv
    <2>2. QED
      BY <1>1, <2>1 DEF Once
  <1>9. QED
    BY <1>3, <1>4, <1>5, <1>6, <1>7, <1>8 DEF Inv, BusInv

LEMMA Step == Inv /\ [Next]_vars => Inv'
  <1> SUFFICES ASSUME Inv, [Next]_vars PROVE Inv'
    OBVIOUS
  <1>1. ASSUME NEW t \in Thread, NEW o \in Owner, NEW k \in Key \cup {None},
               Publish(t, o, k) \/ PublishFromHandler(t, o, k)
        PROVE  Inv'
    BY <1>1, PublishSteps
  <1>2. ASSUME NEW t \in Syncer, DeferDispatch(t)
        PROVE  Inv'
    BY <1>2, WaitingSteps, EventsAssumption
  <1>3. ASSUME NEW t \in Thread, Drain(t) \/ Sync(t)
        PROVE  Inv'
    BY <1>3, WaitingSteps, ClaimingSteps DEF Sync
  <1>4. ASSUME NEW t \in Thread, Dispatch(t)
        PROVE  Inv'
    BY <1>4, WaitingSteps, RefusedSteps, DeliverySteps, HandlerReturnsStep,
       HandlerFailsStep, MarkSteps DEF Dispatch
  <1>5. CASE Environment
    <2>1. ASSUME NEW i \in RowId, BackoffElapses(i) \/ RequeueDeadLetter(i)
          PROVE  Inv'
      <3>1. i \in DOMAIN rows
        BY <2>1 DEF BackoffElapses, RequeueDeadLetter
      <3>2. QED
        BY <2>1, <3>1, RetrySteps
    <2>2. QED
      BY <1>5, <2>1, BindingSteps, DropOwnerStep, CrashStep DEF Environment
  <1>6. CASE UNCHANGED vars
    <2>1. TypeOK' /\ ClaimIsExclusive' /\ RowsInv'
      BY <1>6 DEF vars, Inv, TypeOK, ClaimIsExclusive, RowsInv, KeysUnique, AttemptsLeft,
         SqliteRows, BusKey
    <2>2. NoNewDelivery /\ Finishes
      BY <1>6 DEF vars, NoNewDelivery, Finishes
    <2>3. QED
      BY <1>6, <2>1, <2>2, BusInvFrame DEF vars, Inv
  <1>7. QED
    BY <1>1, <1>2, <1>3, <1>4, <1>5, <1>6 DEF Next
-----------------------------------------------------------------------------
(* The theorems.                                                            *)

(* The inductive invariant holds throughout.                                *)
THEOREM Invariance == Spec => []Inv
  BY Initially, Step, PTL DEF Spec

(* The variables of the outbox, the claim and the bus keep their types: the *)
(* drain never exceeds its limit and record_failure its attempts.           *)
THEOREM TypeCorrect == Spec => []TypeOK
  <1>1. Inv => TypeOK
    BY DEF Inv
  <1>2. QED
    BY <1>1, Invariance, PTL

(* _claim_dispatch_locked and _release_dispatch: the claim is held exactly  *)
(* by the one thread that is inside the drain.                              *)
THEOREM ClaimCorrect == Spec => []ClaimIsExclusive
  <1>1. Inv => ClaimIsExclusive
    BY DEF Inv
  <1>2. QED
    BY <1>1, Invariance, PTL

(* dispatch: a row is marked only after every subscriber it was handed to   *)
(* has run, for both backends and through crashes.                          *)
THEOREM NothingLost == Spec => []DispatchedWasHandled
  <1>1. Inv => DispatchedWasHandled
    BY DEF Inv, BusInv
  <1>2. QED
    BY <1>1, Invariance, PTL

(* EventBus.publish: a keyed event runs a handler a second time only after  *)
(* a failed delivery, a crash, or the loss of the owner's reservations.     *)
THEOREM DeliveredOnce == Spec => []KeyedOnceUnlessExcused
  <1>1. Inv => KeyedOnceUnlessExcused
    BY DEF Inv, BusInv, Once, KeyedOnceUnlessExcused
  <1>2. QED
    BY <1>1, Invariance, PTL

(* The SQLite outbox delivers in the order of publication.                  *)
THEOREM DeliveredInOrder ==
    ASSUME ~PostgreSQL
    PROVE  Spec => []InOrder
  <1>1. Inv => InOrder
    BY DEF Inv, BusInv, SqliteInOrder
  <1>2. QED
    BY <1>1, Invariance, PTL

(* drain, recover_subscribers: a row that is due while dispatch is live is  *)
(* on some thread's way, or a drain gave up on it; no wake-up is lost.      *)
THEOREM NoWakeupLost == Spec => []NoLostWakeup
  <1>1. Init => NoLostWakeup
    BY DEF Init, NoLostWakeup
  <1>2. Inv /\ NoLostWakeup /\ [Next]_vars => NoLostWakeup'
    <2> SUFFICES ASSUME Inv, NoLostWakeup, [Next]_vars PROVE NoLostWakeup'
      OBVIOUS
    <2>0. pc \in [Thread -> Places]
      BY DEF Inv, TypeOK
    <2>1. ASSUME NEW t \in Thread, pc'[t] \in {"drain", "recover", "fetch", "deliver"}
          PROVE  NoLostWakeup'
      BY <2>1 DEF NoLostWakeup
    <2>2. CASE ~live' \/ owed'
      BY <2>2 DEF NoLostWakeup
    <2>3. ASSUME NEW t \in Thread, UNCHANGED <<rows, live, owed>>,
                 pc[t] \notin {"drain", "recover", "fetch", "deliver"},
                 \A u \in Thread : u # t => pc'[u] = pc[u]
          PROVE  NoLostWakeup'
      BY <2>3 DEF NoLostWakeup, Ready
    <2>4. ASSUME UNCHANGED <<rows, live, owed, pc>>
          PROVE  NoLostWakeup'
      BY <2>4 DEF NoLostWakeup, Ready
    <2>5. ASSUME NEW t \in Thread, NEW o \in Owner, NEW k \in Key \cup {None},
                 Publish(t, o, k) \/ PublishFromHandler(t, o, k)
          PROVE  NoLostWakeup'
      <3>1. pc'[t] \in {"drain", "deliver"}
        BY <2>0, <2>5 DEF Publish, PublishFromHandler, Go
      <3>2. QED
        BY <2>1, <3>1
    <2>6. ASSUME NEW t \in Thread, DeferDispatch(t)
          PROVE  NoLostWakeup'
      BY <2>2, <2>6 DEF DeferDispatch
    <2>7. ASSUME NEW t \in Thread, Drain(t)
          PROVE  NoLostWakeup'
      <3>1. pc'[t] = "fetch" \/ ~live'
        BY <2>0, <2>7 DEF Drain, TakeClaim, Go
      <3>2. QED
        BY <2>1, <2>2, <3>1
    <2>8. ASSUME NEW t \in Thread, Sync(t)
          PROVE  NoLostWakeup'
      <3>1. CASE EnableLiveDispatch(t)
        BY <2>2, <3>1 DEF EnableLiveDispatch
      <3>2. CASE SyncEnabled(t) \/ RecoverSubscribers(t)
        <4>1. pc'[t] \in {"recover", "fetch"}
          BY <2>0, <3>2 DEF SyncEnabled, RecoverSubscribers, TakeClaim, Go
        <4>2. QED
          BY <2>1, <4>1
      <3>3. CASE DeferDispatchDone(t) \/ SyncRaises(t)
        <4>1. /\ UNCHANGED <<rows, live, owed>>
              /\ pc[t] \notin {"drain", "recover", "fetch", "deliver"}
              /\ \A u \in Thread : u # t => pc'[u] = pc[u]
          BY <2>0, <3>3 DEF DeferDispatchDone, SyncRaises, Go, table, claim
        <4>2. QED
          BY <2>3, <4>1
      <3>4. QED
        BY <2>8, <3>1, <3>2, <3>3 DEF Sync
    <2>9. ASSUME NEW t \in Thread, Dispatch(t)
          PROVE  NoLostWakeup'
      <3>1. CASE Drained(t)
        BY <3>1 DEF Drained, NoLostWakeup, Ready, table
      <3>2. CASE ReleaseDispatch(t)
        <4>1. /\ UNCHANGED <<rows, live, owed>>
              /\ pc[t] \notin {"drain", "recover", "fetch", "deliver"}
              /\ \A u \in Thread : u # t => pc'[u] = pc[u]
          BY <2>0, <3>2 DEF ReleaseDispatch, Go, table
        <4>2. QED
          BY <2>3, <4>1
      <3>3. ASSUME NEW i \in DOMAIN rows,
                   \/ Quarantine(t, i) \/ AlreadyDelivered(t, i) \/ CapacityExceeded(t, i)
                   \/ ContractInactive(t, i) \/ Deliver(t, i)
            PROVE  NoLostWakeup'
        <4>1. pc'[t] \in {"fetch", "deliver"} \/ owed' = TRUE
          BY <2>0, <3>3
          DEF Quarantine, AlreadyDelivered, CapacityExceeded, ContractInactive, Deliver,
              FailPermanently, FailForNow, RecordFailure, Raise, Settle, Go
        <4>2. QED
          BY <2>1, <2>2, <4>1
      <3>4. CASE \/ \E s \in Package : HandlerReturns(t, s)
                 \/ HandlerFails(t) \/ MarkDispatched(t) \/ MarkFails(t)
        <4>1. pc'[t] \in {"fetch", "deliver"} \/ owed' = TRUE
          BY <2>0, <3>4
          DEF HandlerReturns, HandlerFails, MarkDispatched, MarkFails, FailForNow,
              RecordFailure, Raise, Settle, Go
        <4>2. QED
          BY <2>1, <2>2, <4>1
      <3>5. QED
        BY <2>9, <3>1, <3>2, <3>3, <3>4 DEF Dispatch
    <2>10. CASE Environment
      <3>1. CASE Crash \/ \E i \in RowId : BackoffElapses(i) \/ RequeueDeadLetter(i)
        <4>1. ~live' \/ owed'
          BY <3>1 DEF Crash, BackoffElapses, RequeueDeadLetter
        <4>2. QED
          BY <2>2, <4>1
      <3>2. CASE \E p \in Package : ActivateOwner(p) \/ DeactivateOwner(p) \/ DropOwner(p)
        <4>1. UNCHANGED <<rows, live, owed, pc>>
          BY <3>2 DEF ActivateOwner, DeactivateOwner, DropOwner, table, claim
        <4>2. QED
          BY <2>4, <4>1
      <3>3. QED
        BY <2>10, <3>1, <3>2 DEF Environment
    <2>11. CASE UNCHANGED vars
      BY <2>4, <2>11 DEF vars
    <2>12. QED
      BY <2>5, <2>6, <2>7, <2>8, <2>9, <2>10, <2>11, EventsAssumption DEF Next
  <1>3. QED
    BY <1>1, <1>2, Invariance, PTL DEF Spec
(* mark_dispatched, record_failure, quarantine and requeue_dead_letter: a   *)
(* settled row is never touched again, except a dead letter that is         *)
(* requeued with a clean count.                                             *)
THEOREM SettledForGood == Spec => SettledStaysSettled
  <1>1. Inv /\ [Next]_vars =>
          [\A i \in DOMAIN rows : rows[i].status # "pending" =>
              \/ rows'[i] = rows[i]
              \/ rows[i].status = "dead" /\ rows'[i].attempts = 0]_rows
    <2> DEFINE Kept(i) == rows[i].status # "pending" =>
                             \/ rows'[i] = rows[i]
                             \/ rows[i].status = "dead" /\ rows'[i].attempts = 0
    <2> SUFFICES ASSUME Inv, [Next]_vars, rows' # rows
                 PROVE  \A i \in DOMAIN rows : Kept(i)
      OBVIOUS
    <2> HIDE DEF Kept
    <2>0. ASSUME NEW i \in DOMAIN rows,
                 \/ rows[i].status = "pending" \/ rows'[i] = rows[i]
                 \/ rows[i].status = "dead" /\ rows'[i].attempts = 0
          PROVE  Kept(i)
      BY <2>0 DEF Kept
    <2>1. ASSUME NEW i \in DOMAIN rows, NEW r \in Row, rows' = [rows EXCEPT ![i] = r],
                 rows[i].status = "pending"
          PROVE  \A j \in DOMAIN rows : Kept(j)
      <3>1. \A j \in DOMAIN rows : j # i => rows'[j] = rows[j]
        BY <2>1, UpdateRow DEF Inv
      <3>2. QED
        BY <2>0, <2>1, <3>1
    <2>2. ASSUME NEW t \in Thread, NEW i \in DOMAIN rows, rows[i].status = "pending",
                 pc[t] \in Claimed, task.budget > 0,
                 FailPermanently(t, i) \/ FailForNow(t, i)
          PROVE  \A j \in DOMAIN rows : Kept(j)
      <3>1. \E r \in Row : rows' = [rows EXCEPT ![i] = r]
        BY <2>2, FailedDelivery
      <3>2. QED
        BY <2>1, <2>2, <3>1
    <2>3. ASSUME NEW t \in Thread, NEW i \in DOMAIN rows, NEW status \in Status,
                 NEW cost, rows[i].status = "pending", Settle(t, i, status, cost)
          PROVE  \A j \in DOMAIN rows : Kept(j)
      <3> DEFINE r == [rows[i] EXCEPT !.status = status]
      <3>1. r \in Row
        BY TableDomain DEF Inv, Row
      <3>2. rows' = [rows EXCEPT ![i] = r]
        BY <2>3 DEF Settle
      <3> HIDE DEF r
      <3>3. QED
        BY <2>1, <2>3, <3>1, <3>2
    <2>4. ASSUME NEW t \in Thread, NEW o \in Owner, NEW k \in Key \cup {None},
                 Publish(t, o, k) \/ PublishFromHandler(t, o, k)
          PROVE  \A j \in DOMAIN rows : Kept(j)
      <3>1. rows' = Append(rows, NewRow(o, k, TRUE))
        BY <2>4 DEF Publish, PublishFromHandler, Enqueue
      <3>2. NewRow(o, k, TRUE) \in Row
        BY NewRowType
      <3>3. QED
        BY <2>0, <3>1, <3>2, AppendRow DEF Inv
    <2>5. ASSUME NEW t \in Thread, NEW i \in DOMAIN rows,
                 \/ Quarantine(t, i) \/ AlreadyDelivered(t, i) \/ CapacityExceeded(t, i)
                 \/ ContractInactive(t, i) \/ Deliver(t, i)
          PROVE  \A j \in DOMAIN rows : Kept(j)
      <3>1. Fetch(t, i)
        BY <2>5
        DEF Quarantine, AlreadyDelivered, CapacityExceeded, ContractInactive, Deliver
      <3>2. pc[t] \in Claimed /\ task.budget > 0 /\ rows[i].status = "pending"
        BY <3>1, Fetched
      <3>3. \/ FailPermanently(t, i) \/ FailForNow(t, i)
            \/ Settle(t, i, "quarantined", 0)
        BY <2>5
        DEF Quarantine, AlreadyDelivered, CapacityExceeded, ContractInactive, Deliver, table
      <3>4. QED
        BY <2>2, <2>3, <3>2, <3>3 DEF Status
    <2>6. ASSUME NEW t \in Thread, HandlerFails(t) \/ MarkDispatched(t)
          PROVE  \A j \in DOMAIN rows : Kept(j)
      <3>1. pc[t] = "deliver"
        BY <2>6 DEF HandlerFails, MarkDispatched
      <3>2. /\ task.row \in DOMAIN rows /\ task.budget > 0
            /\ rows[task.row].status = "pending" /\ pc[t] \in Claimed
        BY <3>1, Delivering
      <3>3. FailForNow(t, task.row) \/ Settle(t, task.row, "dispatched", 1)
        BY <2>6 DEF HandlerFails, MarkDispatched
      <3>4. QED
        BY <2>2, <2>3, <3>2, <3>3 DEF Status
    <2>7. ASSUME NEW i \in RowId, BackoffElapses(i) \/ RequeueDeadLetter(i)
          PROVE  \A j \in DOMAIN rows : Kept(j)
      <3>1. i \in DOMAIN rows
        BY <2>7 DEF BackoffElapses, RequeueDeadLetter
      <3>2. rows[i] \in Row
        BY <3>1, TableDomain DEF Inv
      <3>3. CASE BackoffElapses(i)
        <4> DEFINE r == [rows[i] EXCEPT !.due = TRUE]
        <4>1. r \in Row /\ rows' = [rows EXCEPT ![i] = r] /\ rows[i].status = "pending"
          BY <3>2, <3>3 DEF BackoffElapses, Row
        <4> HIDE DEF r
        <4>2. QED
          BY <2>1, <3>1, <4>1
      <3>4. CASE RequeueDeadLetter(i)
        <4> DEFINE r == [rows[i] EXCEPT !.status = "pending", !.attempts = 0, !.due = TRUE]
        <4>1. rows' = [rows EXCEPT ![i] = r] /\ rows[i].status = "dead"
          BY <3>4 DEF RequeueDeadLetter
        <4>2. 0 \in 0 .. MaxAttempts /\ "pending" \in Status /\ TRUE \in BOOLEAN
          BY EventsAssumption DEF Status
        <4>3. r \in Row /\ r.attempts = 0
          BY <3>2, <4>2 DEF Row
        <4> HIDE DEF r
        <4>4. rows'[i].attempts = 0 /\ \A j \in DOMAIN rows : j # i => rows'[j] = rows[j]
          BY <3>1, <4>1, <4>3, UpdateRow DEF Inv
        <4>5. QED
          BY <2>0, <3>1, <4>1, <4>4
      <3>5. QED
        BY <2>7, <3>3, <3>4
    <2>8. ASSUME NEW t \in Thread, DeferDispatch(t) \/ Drain(t) \/ Sync(t) \/ Drained(t)
                                  \/ ReleaseDispatch(t) \/ MarkFails(t)
          PROVE  FALSE
      BY <2>8
      DEF DeferDispatch, Drain, Sync, DeferDispatchDone, SyncEnabled, SyncRaises,
          EnableLiveDispatch, RecoverSubscribers, Drained, ReleaseDispatch, MarkFails,
          Raise, table
    <2>9. ASSUME NEW t \in Thread, Dispatch(t)
          PROVE  \A j \in DOMAIN rows : Kept(j)
      <3>1. ASSUME NEW s \in Package, HandlerReturns(t, s)
            PROVE  FALSE
        BY <3>1 DEF HandlerReturns
      <3>2. QED
        BY <2>5, <2>6, <2>8, <2>9, <3>1 DEF Dispatch
    <2>10. CASE Environment
      <3>1. ASSUME Crash \/ \E p \in Package : \/ ActivateOwner(p) \/ DeactivateOwner(p)
                                               \/ DropOwner(p)
            PROVE  FALSE
        BY <3>1 DEF Crash, ActivateOwner, DeactivateOwner, DropOwner, table
      <3>2. QED
        BY <2>7, <2>10, <3>1 DEF Environment
    <2>11. QED
      BY <2>4, <2>8, <2>9, <2>10, EventsAssumption DEF Next, vars
  <1>2. QED
    BY <1>1, Invariance, PTL DEF SettledStaysSettled, Spec
\* A thread that waits in defer_dispatch, or binds, and whom no end of another
\* sync has overtaken finds dispatch deferred, and from the moment
\* defer_dispatch returns nobody holds the claim.
Deferred == \A t \in Thread \ resumed :
    /\ pc[t] \in {"deferring", "deferred"} => live = FALSE
    /\ pc[t] = "deferred" => dispatcher = None

(* defer_dispatch: whatever syncs overlap, nothing is delivered while a      *)
(* thread binds subscribers before another sync has ended; no publication,   *)
(* retry or drain that was under way gets past the hold.                     *)
THEOREM NothingDuringSync == Spec => []HeldDuringSync
  <1>1. Init => Deferred
    BY DEF Init, Deferred
  <1>2. Inv /\ Deferred /\ [Next]_vars => Deferred'
    <2> SUFFICES ASSUME Inv, Deferred, [Next]_vars PROVE Deferred'
      OBVIOUS
    <2> DEFINE Holding == {"deferring", "deferred"}
    <2>0. pc \in [Thread -> Places]
      BY DEF Inv, TypeOK
    <2>1. ASSUME live' = live \/ live' = FALSE, dispatcher' = dispatcher \/ dispatcher' = None,
                 resumed' = resumed,
                 \A u \in Thread : pc'[u] = pc[u] \/ pc'[u] \notin Holding
          PROVE  Deferred'
      BY <2>1 DEF Deferred
    <2>2. ASSUME NEW t \in Thread, NEW o \in Owner, NEW k \in Key \cup {None},
                 Publish(t, o, k) \/ PublishFromHandler(t, o, k)
          PROVE  Deferred'
      <3>1. UNCHANGED <<live, dispatcher, resumed>>
            /\ (pc' = pc \/ pc' = [pc EXCEPT ![t] = "drain"])
        BY <2>2, Zenon DEF Publish, PublishFromHandler, Go, claim
      <3>2. \A u \in Thread : pc'[u] = pc[u] \/ pc'[u] \notin Holding
        BY <2>0, <3>1
      <3>3. QED
        BY <2>1, <3>1, <3>2
    <2>3. ASSUME NEW t \in Syncer, DeferDispatch(t)
          PROVE  Deferred'
      <3>1. /\ live' = FALSE /\ dispatcher' = dispatcher /\ resumed' = resumed \ {t}
            /\ \A u \in Thread : pc'[u] = IF u = t THEN "deferring" ELSE pc[u]
        BY <2>0, <2>3, EventsAssumption DEF DeferDispatch, Go
      <3>2. QED
        BY <3>1 DEF Deferred
    <2>4. ASSUME NEW t \in Thread, Drain(t)
          PROVE  Deferred'
      <3>1. /\ live' = live /\ resumed' = resumed
            /\ dispatcher' = dispatcher \/ (live /\ dispatcher' = t)
            /\ pc' = [pc EXCEPT ![t] = "fetch"] \/ pc' = [pc EXCEPT ![t] = "idle"]
        BY <2>4 DEF Drain, TakeClaim, Go
      <3>2. \A u \in Thread : pc'[u] = pc[u] \/ pc'[u] \notin Holding
        BY <2>0, <3>1
      <3>3. QED
        BY <3>1, <3>2 DEF Deferred
    <2>5. ASSUME NEW t \in Thread, EnableLiveDispatch(t) \/ RecoverSubscribers(t)
          PROVE  Deferred'
      <3>1. /\ resumed' = {u \in Thread \ {t} : pc[u] \in Holding}
            /\ pc' = [pc EXCEPT ![t] = "idle"] \/ pc' = [pc EXCEPT ![t] = "fetch"]
        BY <2>5 DEF EnableLiveDispatch, RecoverSubscribers, Resume, TakeClaim, Go
      <3>2. \A u \in Thread \ resumed' : pc'[u] \notin Holding
        BY <2>0, <3>1
      <3>3. QED
        BY <3>2 DEF Deferred
    <2>6. ASSUME NEW t \in Thread, DeferDispatchDone(t)
          PROVE  Deferred'
      <3>1. /\ UNCHANGED <<live, dispatcher, resumed>>
            /\ pc[t] = "deferring" /\ dispatcher = None
            /\ \A u \in Thread : u # t => pc'[u] = pc[u]
        BY <2>0, <2>6 DEF DeferDispatchDone, Go, claim
      <3>2. QED
        BY <3>1 DEF Deferred
    <2>7. ASSUME NEW t \in Thread, SyncEnabled(t) \/ SyncRaises(t)
          PROVE  Deferred'
      <3>1. /\ UNCHANGED <<live, dispatcher, resumed>>
            /\ pc' = [pc EXCEPT ![t] = "recover"] \/ pc' = [pc EXCEPT ![t] = "idle"]
        BY <2>7 DEF SyncEnabled, SyncRaises, Go, claim
      <3>2. \A u \in Thread : pc'[u] = pc[u] \/ pc'[u] \notin Holding
        BY <2>0, <3>1
      <3>3. QED
        BY <2>1, <3>1, <3>2
    <2>8. ASSUME NEW t \in Thread, Dispatch(t)
          PROVE  Deferred'
      <3>1. /\ live' = live /\ (dispatcher' = dispatcher \/ dispatcher' = None)
            /\ resumed' = resumed
            /\ \/ pc' = pc
               \/ \E place \in {"fetch", "deliver", "release", "idle"} :
                     pc' = [pc EXCEPT ![t] = place]
        BY <2>8
        DEF Dispatch, Drained, Quarantine, AlreadyDelivered, CapacityExceeded,
            ContractInactive, Deliver, HandlerReturns, HandlerFails, MarkDispatched,
            MarkFails, ReleaseDispatch, FailPermanently, FailForNow, RecordFailure, Raise,
            Settle, Go, claim
      <3>2. \A u \in Thread : pc'[u] = pc[u] \/ pc'[u] \notin Holding
        BY <2>0, <3>1
      <3>3. QED
        BY <2>1, <3>1, <3>2
    <2>9. CASE Environment
      <3>1. CASE Crash
        <4>1. pc' = [t \in Thread |-> "idle"]
          BY <3>1 DEF Crash
        <4>2. QED
          BY <4>1 DEF Deferred
      <3>2. CASE ~Crash
        <4>1. UNCHANGED <<live, dispatcher, resumed, pc>>
          BY <2>9, <3>2
          DEF Environment, BackoffElapses, RequeueDeadLetter, ActivateOwner, DeactivateOwner,
              DropOwner, claim
        <4>2. QED
          BY <2>1, <4>1
      <3>3. QED
        BY <3>1, <3>2
    <2>10. CASE UNCHANGED vars
      BY <2>1, <2>10 DEF vars
    <2>11. QED
      BY <2>2, <2>3, <2>4, <2>5, <2>6, <2>7, <2>8, <2>9, <2>10 DEF Next, Sync
  <1>3. Deferred => HeldDuringSync
    BY DEF Deferred, HeldDuringSync
  <1>4. QED
    BY <1>1, <1>2, <1>3, Invariance, PTL DEF Spec
================================================================================
