----------------------------- MODULE DurableEvents -----------------------------
(***************************************************************************)
(* Durable event publication: the outbox table, the claim that lets one    *)
(* thread of the process drain it, and the in-process event bus the rows   *)
(* are delivered on (event_outbox.py, postgresql_outbox_*.py, EventBus in  *)
(* extension_runtime.py).                                                  *)
(*                                                                         *)
(* The two backends share the claim protocol and differ in what a failed   *)
(* delivery does.  SQLite takes the oldest row and raises out of the drain *)
(* when a handler fails; PostgreSQL takes any row that is due, counts the  *)
(* failure, and after a backoff or MaxAttempts failures retries it or      *)
(* leaves it as a dead letter.                                             *)
(*                                                                         *)
(* A thread that waits on the condition variable is one whose next action  *)
(* needs dispatcher = None: release notifies every waiter, and a waiter    *)
(* that finds the claim taken again waits again.                           *)
(*                                                                         *)
(* Of an event only its owner, its idempotency key and whether the stored  *)
(* row is a valid envelope are kept.  The bus is asked only whether a      *)
(* package is active: its declarations and its subscriptions are switched  *)
(* together.  The priority order of subscribers is any order.              *)
(***************************************************************************)
EXTENDS Naturals, Sequences, FiniteSets

CONSTANTS
    Thread,             \* threads of the server process
    Syncer,             \* those that handle a request that re-syncs the host
    Package,            \* packages that may be bound to the bus
    Owner,              \* those that publish events
    Key,                \* idempotency keys
    None,               \* no key, no thread
    PostgreSQL,         \* which backend
    Limit,              \* rows one drain may deliver
    MaxAttempts,        \* failures after which PostgreSQL gives up on a row
    IdempotencyCap,     \* MAX_EVENT_IDEMPOTENCY_KEYS
    MaxRows,            \* bound: rows ever written
    MaxSyncs,           \* bound: host syncs
    MaxCrashes          \* bound: crashes of the process

ASSUME EventsAssumption ==
    /\ Syncer \subseteq Thread /\ Owner \subseteq Package
    /\ None \notin Thread /\ None \notin Key
    /\ PostgreSQL \in BOOLEAN
    /\ Limit \in Nat \ {0} /\ MaxAttempts \in Nat \ {0}
    /\ IdempotencyCap \in Nat /\ MaxRows \in Nat \ {0}
    /\ MaxSyncs \in Nat /\ MaxCrashes \in Nat

VARIABLES
    rows,           \* the outbox table, in the order of created_at
    live,           \* _dispatch_after_enqueue
    dispatcher,     \* _dispatch_thread while _dispatching, else None
    pc,             \* where each thread is
    task,           \* what the dispatcher is working on
    active,         \* packages whose contracts are active on the bus
    idempotency,    \* keys the bus has reserved
    syncs, crashes,
    audience,       \* history: the subscribers a row was last handed to
    runs,           \* history: completed handler runs (0, 1, or 2 for more)
    excused,        \* history: the row failed, or lost its reservation
    owed,           \* history: a drain gave up with rows left
    resumed         \* history: threads during whose sync another one ended
                    \* and resumed dispatch

table == <<rows, audience, runs, excused>>
claim == <<live, dispatcher, resumed>>
bus == <<active, idempotency>>
counters == <<syncs, crashes>>
vars == <<rows, live, dispatcher, resumed, pc, task, active, idempotency, syncs,
          crashes, audience, runs, excused, owed>>

RowId == 1 .. MaxRows
Status == {"pending", "dispatched", "quarantined", "dead"}
Row == [owner : Owner, key : Key \cup {None}, valid : BOOLEAN,
        status : Status, attempts : 0 .. MaxAttempts, due : BOOLEAN]
NoTask == [row |-> 0, todo |-> {}, budget |-> 0]

\* The thread holds the dispatch claim.
Claimed == {"fetch", "deliver", "release"}
Places == {"idle", "drain", "deferring", "deferred", "recover"} \cup Claimed

TypeOK ==
    /\ rows \in Seq(Row) /\ Len(rows) <= MaxRows
    /\ live \in BOOLEAN
    /\ dispatcher \in Thread \cup {None} /\ resumed \subseteq Thread
    /\ pc \in [Thread -> Places]
    /\ task \in [row : 0 .. MaxRows, todo : SUBSET Package, budget : 0 .. Limit]
    /\ active \subseteq Package
    /\ idempotency \subseteq Owner \X Key
    /\ syncs \in 0 .. MaxSyncs /\ crashes \in 0 .. MaxCrashes
    /\ audience \in [RowId -> SUBSET Package]
    /\ runs \in [RowId -> [Package -> 0 .. 2]]
    /\ excused \in [RowId -> BOOLEAN]
    /\ owed \in BOOLEAN

NewRow(o, k, ok) == [owner |-> o, key |-> k, valid |-> ok, status |-> "pending",
                     attempts |-> 0, due |-> TRUE]

\* A new process on the table it finds, which may hold a row that is not a
\* valid envelope (written by an earlier version, or edited by hand).
Init ==
    /\ rows \in {<<>>} \cup {<<NewRow(o, None, FALSE)>> : o \in Owner}
    /\ live = FALSE /\ dispatcher = None /\ resumed = {}
    /\ pc = [t \in Thread |-> "idle"]
    /\ task = NoTask
    /\ active = {} /\ idempotency = {}
    /\ syncs = 0 /\ crashes = 0
    /\ audience = [i \in RowId |-> {}]
    /\ runs = [i \in RowId |-> [s \in Package |-> 0]]
    /\ excused = [i \in RowId |-> FALSE]
    /\ owed = TRUE

Go(t, place) == pc' = [pc EXCEPT ![t] = place]

-----------------------------------------------------------------------------
(* Writing a row.                                                          *)

Known(o, k) == k # None /\ \E i \in DOMAIN rows : rows[i].owner = o /\ rows[i].key = k

\* enqueue: a key that is already in the table names the row that has it.
Enqueue(o, k) ==
    \/ Known(o, k) /\ rows' = rows
    \/ /\ ~Known(o, k) /\ Len(rows) < MaxRows
       /\ rows' = Append(rows, NewRow(o, k, TRUE))

\* persist, then drain.
Publish(t, o, k) ==
    /\ pc[t] = "idle" /\ Enqueue(o, k)
    /\ Go(t, "drain")
    /\ UNCHANGED <<claim, task, bus, counters, audience, runs, excused, owed>>

\* A handler publishes.  Its thread holds the claim, so its drain returns at
\* once and the row is left to the drain the handler is called from.
PublishFromHandler(t, o, k) ==
    /\ pc[t] = "deliver" /\ task.todo # {} /\ Enqueue(o, k) /\ rows' # rows
    /\ UNCHANGED <<pc, claim, task, bus, counters, audience, runs, excused, owed>>

-----------------------------------------------------------------------------
(* The claim.                                                              *)

\* _claim_dispatch_locked, once no thread holds the claim.
TakeClaim(t) ==
    /\ dispatcher' = t
    /\ task' = [NoTask EXCEPT !.budget = Limit]
    /\ Go(t, "fetch")

\* Mutant: a thread that finds the claim taken does not wait for it.
DrainBusyReturns(t) ==
    /\ pc[t] = "drain"
    /\ \/ dispatcher = None /\ live /\ TakeClaim(t)
       \/ /\ dispatcher # None \/ ~live
          /\ Go(t, "idle") /\ UNCHANGED <<dispatcher, task>>
    /\ UNCHANGED <<live, resumed, table, bus, counters, owed>>

Drain(t) ==
    /\ pc[t] = "drain" /\ dispatcher = None
    /\ \/ live /\ TakeClaim(t)
       \/ ~live /\ Go(t, "idle") /\ UNCHANGED <<dispatcher, task>>
    /\ UNCHANGED <<live, resumed, table, bus, counters, owed>>

DeferDispatch(t) ==
    /\ pc[t] = "idle" /\ syncs < MaxSyncs
    /\ syncs' = syncs + 1
    /\ live' = FALSE /\ resumed' = resumed \ {t}
    /\ Go(t, "deferring")
    /\ UNCHANGED <<table, dispatcher, task, bus, crashes, owed>>

DeferDispatchDone(t) ==
    /\ pc[t] = "deferring" /\ dispatcher = None
    /\ Go(t, "deferred")
    /\ UNCHANGED <<table, claim, task, bus, counters, owed>>

\* What follows defer_dispatch in sync_extension_host: host.sync_enabled
\* returns, or it raises, or there is no configuration yet.
SyncEnabled(t) ==
    /\ pc[t] = "deferred"
    /\ Go(t, "recover")
    /\ UNCHANGED <<table, claim, task, bus, counters, owed>>

SyncRaises(t) ==
    /\ pc[t] = "deferred"
    /\ Go(t, "idle")
    /\ UNCHANGED <<table, claim, task, bus, counters, owed>>

\* Dispatch is live again, for every sync that is still under way too.
Resume(t) ==
    /\ live' = TRUE
    /\ resumed' = {u \in Thread \ {t} : pc[u] \in {"deferring", "deferred"}}

EnableLiveDispatch(t) ==
    /\ pc[t] = "deferred"
    /\ Resume(t) /\ owed' = TRUE
    /\ Go(t, "idle")
    /\ UNCHANGED <<table, dispatcher, task, bus, counters>>

RecoverSubscribers(t) ==
    /\ pc[t] = "recover" /\ dispatcher = None
    /\ Resume(t)
    /\ TakeClaim(t)
    /\ UNCHANGED <<table, bus, counters, owed>>

ReleaseDispatch(t) ==
    /\ pc[t] = "release"
    /\ dispatcher' = None /\ task' = NoTask
    /\ Go(t, "idle")
    /\ UNCHANGED <<table, live, resumed, bus, counters, owed>>

-----------------------------------------------------------------------------
(* The drain: one row after the other.                                     *)

Ready == {i \in DOMAIN rows : rows[i].status = "pending" /\ rows[i].due}

\* Mutant: the query has no ORDER BY.
FirstAny(i) == i \in Ready

\* SQLite takes rows in order; PostgreSQL orders them by available_at, which
\* a retry moves: any of them may be first.
First(i) == i \in Ready /\ (PostgreSQL \/ \A j \in Ready : i <= j)

\* The row is done with; the drain goes on.  PostgreSQL's budget counts the
\* rows it looks at, SQLite's those it delivers.
Settle(t, i, status, cost) ==
    /\ rows' = [rows EXCEPT ![i].status = status]
    /\ task' = [NoTask EXCEPT !.budget = task.budget - cost]
    /\ Go(t, "fetch")

\* record_failure.
Failed(r, limit) ==
    IF r.attempts + 1 >= limit
    THEN [r EXCEPT !.attempts = @ + 1, !.status = "dead"]
    ELSE [r EXCEPT !.attempts = @ + 1, !.due = FALSE]

\* Mutant: the failure is not recorded, and the row tried until it succeeds.
RetryAtOnce(t, i, limit) ==
    /\ task' = [NoTask EXCEPT !.budget = task.budget]
    /\ Go(t, "fetch")
    /\ UNCHANGED <<rows, owed>>

RecordFailure(t, i, limit) ==
    /\ rows' = [rows EXCEPT ![i] = Failed(@, limit)]
    /\ task' = [NoTask EXCEPT !.budget = task.budget - 1]
    /\ Go(t, "fetch")
    /\ owed' = owed

\* An exception leaves the drain; the row stays where it is.
Raise(t) ==
    /\ Go(t, "release")
    /\ owed' = TRUE
    /\ UNCHANGED <<rows, task>>

\* A delivery that cannot succeed before the contract is back.
FailPermanently(t, i) ==
    \/ PostgreSQL /\ RecordFailure(t, i, rows[i].attempts + 1)
    \/ ~PostgreSQL /\ Raise(t)

FailForNow(t, i) ==
    \/ PostgreSQL /\ RecordFailure(t, i, MaxAttempts)
    \/ ~PostgreSQL /\ Raise(t)

\* No row left, or the drain has had its share.
Drained(t) ==
    /\ pc[t] = "fetch" /\ (Ready = {} \/ task.budget = 0)
    /\ Go(t, "release")
    /\ owed' = (Ready # {})
    /\ UNCHANGED <<table, claim, task, bus, counters>>

Fetch(t, i) == pc[t] = "fetch" /\ task.budget > 0 /\ First(i)

Quarantine(t, i) ==
    /\ Fetch(t, i) /\ ~rows[i].valid
    /\ \/ ~PostgreSQL /\ Settle(t, i, "quarantined", 0) /\ owed' = owed
       \/ PostgreSQL /\ FailPermanently(t, i)
    /\ UNCHANGED <<claim, bus, counters, audience, runs, excused>>

(* EventBus.publish: the reservation, the capacity, the declaration, in     *)
(* this order.                                                              *)

BusKey(i) == <<rows[i].owner, rows[i].key>>
Keyed(i) == rows[i].key # None
Full == Cardinality(idempotency) >= IdempotencyCap

\* A reserved key was delivered before and is handed to nobody.
AlreadyDelivered(t, i) ==
    /\ Fetch(t, i) /\ rows[i].valid /\ BusKey(i) \in idempotency
    /\ task' = [task EXCEPT !.row = i, !.todo = {}]
    /\ Go(t, "deliver")
    /\ UNCHANGED <<table, claim, bus, counters, owed>>

CapacityExceeded(t, i) ==
    /\ Fetch(t, i) /\ rows[i].valid /\ BusKey(i) \notin idempotency
    /\ Keyed(i) /\ Full
    /\ FailForNow(t, i)
    /\ UNCHANGED <<claim, bus, counters, audience, runs, excused>>

ContractInactive(t, i) ==
    /\ Fetch(t, i) /\ rows[i].valid /\ BusKey(i) \notin idempotency
    /\ ~(Keyed(i) /\ Full)
    /\ rows[i].owner \notin active
    /\ FailPermanently(t, i)
    /\ UNCHANGED <<claim, bus, counters, audience, runs, excused>>

\* Mutant: the key is not reserved.
DeliverUnreserved(t, i) ==
    /\ Fetch(t, i) /\ rows[i].valid /\ rows[i].owner \in active
    /\ audience' = [audience EXCEPT ![i] = active]
    /\ task' = [task EXCEPT !.row = i, !.todo = active]
    /\ Go(t, "deliver")
    /\ UNCHANGED <<rows, claim, bus, counters, runs, excused, owed>>

\* The event goes to the subscribers of this moment.
Deliver(t, i) ==
    /\ Fetch(t, i) /\ rows[i].valid /\ BusKey(i) \notin idempotency
    /\ ~(Keyed(i) /\ Full)
    /\ rows[i].owner \in active
    /\ idempotency' = idempotency \cup (IF Keyed(i) THEN {BusKey(i)} ELSE {})
    /\ audience' = [audience EXCEPT ![i] = active]
    /\ task' = [task EXCEPT !.row = i, !.todo = active]
    /\ Go(t, "deliver")
    /\ UNCHANGED <<rows, claim, active, counters, runs, excused, owed>>

HandlerReturns(t, s) ==
    /\ pc[t] = "deliver" /\ s \in task.todo
    /\ task' = [task EXCEPT !.todo = @ \ {s}]
    /\ runs' = [runs EXCEPT ![task.row][s] = IF @ < 2 THEN @ + 1 ELSE @]
    /\ UNCHANGED <<rows, claim, pc, bus, counters, audience, excused, owed>>

\* Mutant: the reservation outlives the failed delivery.
HandlerFailsReserved(t) ==
    /\ pc[t] = "deliver" /\ task.todo # {}
    /\ excused' = [excused EXCEPT ![task.row] = TRUE]
    /\ FailForNow(t, task.row)
    /\ UNCHANGED <<claim, bus, counters, audience, runs>>

\* The bus forgets the reservation, so that a retry is delivered again.
HandlerFails(t) ==
    /\ pc[t] = "deliver" /\ task.todo # {}
    /\ idempotency' = idempotency \ {BusKey(task.row)}
    /\ excused' = [excused EXCEPT ![task.row] = TRUE]
    /\ FailForNow(t, task.row)
    /\ UNCHANGED <<claim, active, counters, audience, runs>>

MarkDispatched(t) ==
    /\ pc[t] = "deliver" /\ task.todo = {}
    /\ Settle(t, task.row, "dispatched", 1)
    /\ UNCHANGED <<claim, bus, counters, audience, runs, excused, owed>>

\* The update or its commit fails: delivered, and still pending.
MarkFails(t) ==
    /\ pc[t] = "deliver" /\ task.todo = {}
    /\ Raise(t)
    /\ UNCHANGED <<claim, bus, counters, audience, runs, excused>>

-----------------------------------------------------------------------------
(* Around the drain.                                                       *)

\* The delay record_failure stored in available_at is over.
BackoffElapses(i) ==
    /\ i \in DOMAIN rows /\ rows[i].status = "pending" /\ ~rows[i].due
    /\ rows' = [rows EXCEPT ![i].due = TRUE]
    /\ owed' = TRUE
    /\ UNCHANGED <<claim, pc, task, bus, counters, audience, runs, excused>>

\* Mutant: the update does not ask for a dead letter.
RequeueAnything(i) ==
    /\ i \in DOMAIN rows /\ rows[i].status # "pending"
    /\ rows' = [rows EXCEPT ![i].status = "pending", ![i].attempts = 0, ![i].due = TRUE]
    /\ owed' = TRUE
    /\ UNCHANGED <<claim, pc, task, bus, counters, audience, runs, excused>>

RequeueDeadLetter(i) ==
    /\ i \in DOMAIN rows /\ rows[i].status = "dead"
    /\ rows' = [rows EXCEPT ![i].status = "pending", ![i].attempts = 0, ![i].due = TRUE]
    /\ owed' = TRUE
    /\ UNCHANGED <<claim, pc, task, bus, counters, audience, runs, excused>>

\* The host binds or unbinds a package at any moment (no lock is shared with
\* the drain): activate_owner, deactivate_owner, drop_owner.
ActivateOwner(p) ==
    /\ active' = active \cup {p} /\ active' # active
    /\ UNCHANGED <<table, claim, pc, task, idempotency, counters, owed>>

DeactivateOwner(p) ==
    /\ active' = active \ {p} /\ active' # active
    /\ UNCHANGED <<table, claim, pc, task, idempotency, counters, owed>>

DropOwner(p) ==
    /\ active' = active \ {p}
    /\ idempotency' = {k \in idempotency : k[1] # p}
    /\ bus' # bus
    /\ excused' = [i \in RowId |->
                    excused[i] \/ (i \in DOMAIN rows /\ rows[i].owner = p)]
    /\ UNCHANGED <<rows, audience, runs, claim, pc, task, counters, owed>>

\* Only the table survives.  A row locked by an open transaction is unlocked.
Crash ==
    /\ crashes < MaxCrashes
    /\ crashes' = crashes + 1
    /\ live' = FALSE /\ dispatcher' = None /\ resumed' = {} /\ task' = NoTask
    /\ pc' = [t \in Thread |-> "idle"]
    /\ active' = {} /\ idempotency' = {}
    /\ excused' = [i \in RowId |-> i \in DOMAIN rows]
    /\ owed' = TRUE
    /\ UNCHANGED <<rows, audience, runs, syncs>>

-----------------------------------------------------------------------------

Dispatch(t) ==
    \/ Drained(t)
    \/ \E i \in DOMAIN rows :
          \/ Quarantine(t, i) \/ AlreadyDelivered(t, i) \/ CapacityExceeded(t, i)
          \/ ContractInactive(t, i) \/ Deliver(t, i)
    \/ \E s \in Package : HandlerReturns(t, s)
    \/ HandlerFails(t)
    \/ MarkDispatched(t) \/ MarkFails(t)
    \/ ReleaseDispatch(t)

Sync(t) ==
    \/ DeferDispatchDone(t) \/ SyncEnabled(t) \/ SyncRaises(t)
    \/ EnableLiveDispatch(t) \/ RecoverSubscribers(t)

Environment ==
    \/ \E i \in RowId : BackoffElapses(i) \/ RequeueDeadLetter(i)
    \/ \E p \in Package : ActivateOwner(p) \/ DeactivateOwner(p) \/ DropOwner(p)
    \/ Crash

Next ==
    \/ \E t \in Thread, o \in Owner, k \in Key \cup {None} :
          Publish(t, o, k) \/ PublishFromHandler(t, o, k)
    \/ \E t \in Syncer : DeferDispatch(t)
    \/ \E t \in Thread : Drain(t) \/ Sync(t) \/ Dispatch(t)
    \/ Environment

Spec == Init /\ [][Next]_vars

\* A thread that has begun goes on: locks are released, handlers return.
FairSpec == Spec /\ \A t \in Thread : WF_vars(Drain(t) \/ Sync(t) \/ Dispatch(t))

-----------------------------------------------------------------------------
(* Properties.                                                             *)

(* The claim protocol (_claim_dispatch_locked, _release_dispatch): at most  *)
(* one thread is inside the drain, and the claim is held exactly while it   *)
(* is: no exit from the drain, normal or by an exception, leaks it.         *)
ClaimIsExclusive == \A t \in Thread : pc[t] \in Claimed <=> dispatcher = t

(* Publish-then-mark: a row is marked dispatched only after every           *)
(* subscriber it was handed to has run to its end, through failed handlers, *)
(* failed marks, reservations of the bus and crashes.                       *)
DispatchedWasHandled ==
    \A i \in DOMAIN rows : rows[i].status = "dispatched" =>
        \A s \in audience[i] : runs[i][s] > 0

(* A keyed event runs a subscriber's handler a second time only after a     *)
(* failed delivery, a restart, or the owner's contracts were dropped: a     *)
(* mark that failed is made good without a second delivery.                 *)
KeyedOnceUnlessExcused ==
    \A i \in DOMAIN rows : Keyed(i) /\ ~excused[i] =>
        \A s \in Package : runs[i][s] <= 1

(* The SQLite outbox is a queue: no event is delivered past an older one    *)
(* that is still pending.                                                   *)
InOrder ==
    \A i, j \in DOMAIN rows :
        i < j /\ rows[j].status = "dispatched" => rows[i].status # "pending"

(* No lost wake-up: while dispatch is live, a row that is due is always     *)
(* either the business of some thread on its way through a drain, or was    *)
(* left by a drain that gave up (an exception, its limit, a backoff).       *)
NoLostWakeup ==
    live /\ Ready # {} => owed \/ \E t \in Thread :
        pc[t] \in {"drain", "recover", "fetch", "deliver"}

(* defer_dispatch: "Hold rows until subscribers from the current host sync  *)
(* exist."  While a thread binds them nothing is delivered, unless another   *)
(* sync, begun before or after it, has ended since and resumed dispatch: no  *)
(* publication, retry or drain that was under way gets past the hold.        *)
HeldDuringSync ==
    \A t \in Thread : pc[t] = "deferred" /\ t \notin resumed =>
        ~live /\ dispatcher = None

(* A row that was dispatched, quarantined or given up is never delivered or  *)
(* counted again; only a dead letter comes back, with a clean count.         *)
SettledStaysSettled ==
    [][\A i \in DOMAIN rows : rows[i].status # "pending" =>
          \/ rows'[i] = rows[i]
          \/ rows[i].status = "dead" /\ rows'[i].attempts = 0]_rows

(* A drain ends, whatever its handlers do: neither failing handlers nor      *)
(* handlers that publish more events keep a thread in it for ever.           *)
EveryDrainEnds == \A t \in Thread : dispatcher = t ~> dispatcher # t
=============================================================================
