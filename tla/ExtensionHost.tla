----------------------------- MODULE ExtensionHost -----------------------------
(***************************************************************************)
(* The extension host (extension_host.py) and the requests that re-sync it *)
(* with the package registry (audit_package_result in applications.py,     *)
(* sync_extension_host in app.py), together with the threads that publish  *)
(* events and run event handlers meanwhile.                                *)
(*                                                                         *)
(* A package request commits in the registry (PackageLifecycle), then      *)
(* switches the package's contracts, reads the records, defers event       *)
(* dispatch, re-binds the packages under the host's lock, and resumes      *)
(* dispatch.  No lock spans these steps, so requests overtake each other;  *)
(* only a quarantine keeps the operation lock until its sync has ended.    *)
(*                                                                         *)
(* Of the durable events (module DurableEvents) this module keeps the      *)
(* claim, the live flag and the number of rows to deliver; of a registry   *)
(* of contracts (services, events, slots) which generation of the          *)
(* package's runtime its entries captured, and whether they are active.    *)
(* The settings schema, permissions, health and job handlers of a package  *)
(* are left out: they follow its contracts; so are versions: a package     *)
(* that is bound keeps its runtime when it is updated.                     *)
(***************************************************************************)
EXTENDS Naturals, FiniteSets

CONSTANTS
    Thread,             \* threads of the server
    Admin,              \* those that serve package requests
    Package,            \* packages of type module or integration
    Requires,           \* the required dependencies of each
    Start,              \* what packages.json may hold when the server starts
    None,
    MaxRequests,        \* bound: package requests
    MaxPending          \* bound: event rows waiting at once

ASSUME HostAssumption ==
    /\ Admin \subseteq Thread /\ None \notin Thread /\ None \notin Package
    /\ Requires \in [Package -> SUBSET Package]
    /\ \A records \in Start : records \in [Package -> {"absent", "disabled", "enabled"}]
    /\ MaxRequests \in Nat /\ MaxPending \in Nat

VARIABLES
    registry,       \* status of each package on disk
    runtimes,       \* packages with a runtime (_runtimes)
    generation,     \* _runtime_generations, 0 where there is none
    registered,     \* _registered
    contracts,      \* the generation a package's contracts captured, 0: none
    active,         \* packages whose contracts are active
    opLock,         \* the thread that holds the operation lock beyond its commit
    hostLock,       \* the thread that holds the host's lock
    live,           \* durable events: _dispatch_after_enqueue
    dispatcher,     \* durable events: the thread that holds the claim
    pending,        \* durable events: rows to deliver
    jobsDeferred,   \* JobDrainPump.deferred
    pc, local,      \* where each thread is, and its local variables
    requests,
    failed,         \* history: the last sync to end raised an exception
    overtaken,      \* history: it had read the records before the last commit
    late            \* history: packages activated by an enable that was overtaken

host == <<runtimes, generation, registered, contracts>>
events == <<live, dispatcher, pending>>
calls == <<opLock, requests>>
history == <<failed, overtaken, late>>
vars == <<registry, host, active, hostLock, events, jobsDeferred, pc, local, calls,
          history>>

\* Each package has two generations that matter, its runtime's and its contracts',
\* and each thread runs handlers of at most one more for every package.
Generation == 0 .. Cardinality(Package) * (Cardinality(Thread) + 2)
Status == {"absent", "disabled", "enabled"}
Action == {"install", "update", "enable", "disable", "uninstall"}

\* Where a thread is.  From "bind" to "registerDrain" it holds the host's
\* lock; in Claimed it holds the dispatch claim.
Binding == {"bind", "register", "registerDrain"}
Claimed == {"dispatch", "handler", "handlerLock", "release"}
Places == {"idle", "switch", "read", "defer", "deferring", "sync", "recover",
           "reopen", "resume", "drain"} \cup Binding \cup Claimed

\* A package's handle on its runtime.
Handle == [package : Package, generation : Generation]
NoHandle == [package |-> None, generation |-> 0]
NoRecords == [p \in Package |-> "absent"]

\* fresh: nothing was committed since the thread read the records; held: dispatch
\* was not let loose since it deferred it.  Both are history.
Idle == [action |-> None, target |-> None, snapshot |-> NoRecords, fresh |-> FALSE,
         held |-> FALSE, todo |-> {}, handle |-> NoHandle, subs |-> {}, back |-> "idle"]

TypeOK ==
    /\ registry \in [Package -> Status]
    /\ runtimes \subseteq Package /\ registered \subseteq Package
    /\ generation \in [Package -> Generation]
    /\ contracts \in [Package -> Generation]
    /\ active \subseteq {p \in Package : contracts[p] # 0}
    /\ hostLock \in Thread \cup {None} /\ dispatcher \in Thread \cup {None}
    /\ opLock \in Admin \cup {None}
    /\ live \in BOOLEAN /\ jobsDeferred \in BOOLEAN
    /\ pending \in 0 .. MaxPending
    /\ pc \in [Thread -> Places]
    /\ local \in [Thread ->
          [action : Action \cup {"quarantine", None}, target : Package \cup {None},
           snapshot : [Package -> Status], fresh : BOOLEAN, held : BOOLEAN,
           todo : SUBSET Package,
           handle : Handle \cup {NoHandle}, subs : SUBSET Handle,
           back : {"idle", "resume", "register"}]]
    /\ requests \in 0 .. MaxRequests
    /\ failed \in BOOLEAN /\ overtaken \in BOOLEAN /\ late \subseteq Package

Enabled(records) == {p \in Package : records[p] = "enabled"}

\* A server that has just started: nothing is bound, dispatch is not live, and
\* security_services syncs the host for the first time.
Init ==
    /\ registry \in Start
    /\ runtimes = {} /\ registered = {} /\ active = {}
    /\ generation = [p \in Package |-> 0] /\ contracts = [p \in Package |-> 0]
    /\ hostLock = None /\ dispatcher = None
    /\ live = FALSE /\ jobsDeferred = TRUE /\ pending = 0
    /\ LET s == CHOOSE s \in Admin : TRUE IN     \* threads are all alike
       pc = [t \in Thread |-> IF t = s THEN "read" ELSE "idle"]
    /\ local = [t \in Thread |-> Idle]
    /\ requests = 0 /\ opLock = None
    /\ failed = FALSE /\ overtaken = FALSE /\ late = {}

Go(t, place) == pc' = [pc EXCEPT ![t] = place]
Return(t) == Go(t, "idle") /\ local' = [local EXCEPT ![t] = Idle]

-----------------------------------------------------------------------------
(* A package request.                                                      *)

\* What an operation of the package manager commits.
Commits(a, p) ==
    \/ a = "install" /\ registry[p] = "absent"
       /\ registry' = [registry EXCEPT ![p] = "disabled"]
    \/ a = "enable" /\ registry[p] = "disabled"
       /\ registry' = [registry EXCEPT ![p] = "enabled"]
    \/ a = "disable" /\ registry[p] = "enabled"
       /\ registry' = [registry EXCEPT ![p] = "disabled"]
    \/ a = "uninstall" /\ registry[p] = "disabled"
       /\ registry' = [registry EXCEPT ![p] = "absent"]

\* An operation that succeeded before is repeated: it commits nothing, and is
\* accepted only where the registry still agrees with it.  An update, repeated or
\* not, leaves the status alone.
Replays(a, p) ==
    /\ \/ a = "install" /\ registry[p] # "absent"
       \/ a = "update" /\ registry[p] # "absent"
       \/ a = "enable" /\ registry[p] = "enabled"
       \/ a = "disable" /\ registry[p] = "disabled"
       \/ a = "uninstall" /\ registry[p] = "absent"
    /\ UNCHANGED registry

\* The operation lock is free while an operation commits.
Asks(t, a, p) ==
    /\ pc[t] = "idle" /\ opLock = None /\ requests < MaxRequests
    /\ requests' = requests + 1
    /\ local' = [u \in Thread |->
                    IF u = t THEN [local[u] EXCEPT !.action = a, !.target = p]
                    ELSE [local[u] EXCEPT !.fresh = @ /\ registry' = registry]]
    /\ Go(t, "switch")
    /\ UNCHANGED <<host, active, hostLock, events, jobsDeferred, history>>

Request(t, a, p) ==
    /\ Commits(a, p) \/ Replays(a, p)
    /\ Asks(t, a, p)
    /\ UNCHANGED opLock

\* Emergency containment holds the lock until it has re-synced the host.
Quarantine(t, p) ==
    /\ registry[p] # "absent"
    /\ registry' = [registry EXCEPT ![p] = "disabled"]
    /\ Asks(t, "quarantine", p)
    /\ opLock' = t

\* audit_package_result and emergency_quarantine_package, before they sync the host.
SwitchContracts(t) ==
    /\ pc[t] = "switch"
    /\ LET p == local[t].target
           on == local[t].action = "enable" /\ contracts[p] # 0
           off == local[t].action \in {"disable", "uninstall", "quarantine"} IN
       /\ active' = IF on THEN active \cup {p} ELSE IF off THEN active \ {p} ELSE active
       /\ late' = IF on /\ registry[p] # "enabled" THEN late \cup {p}
                  ELSE IF off THEN late \ {p} ELSE late
    /\ local' = [local EXCEPT ![t] = Idle]
    /\ Go(t, "read")
    /\ UNCHANGED <<registry, host, hostLock, events, jobsDeferred, calls, failed,
                   overtaken>>

\* sync_extension_host: the records are read before anything is locked.
ReadRecords(t) ==
    /\ pc[t] = "read"
    /\ local' = [local EXCEPT ![t].snapshot = registry, ![t].fresh = TRUE]
    /\ Go(t, "defer")
    /\ UNCHANGED <<registry, host, active, hostLock, events, jobsDeferred, calls,
                   history>>

\* Mutant: new publications are not held back.
DeferDispatchLive(t) ==
    /\ pc[t] = "defer"
    /\ local' = [local EXCEPT ![t].held = TRUE]
    /\ Go(t, "deferring")
    /\ UNCHANGED <<registry, host, active, hostLock, events, jobsDeferred, calls, history>>

DeferDispatch(t) ==
    /\ pc[t] = "defer"
    /\ live' = FALSE
    /\ local' = [local EXCEPT ![t].held = TRUE]
    /\ Go(t, "deferring")
    /\ UNCHANGED <<registry, host, active, hostLock, dispatcher, pending, jobsDeferred,
                   calls, history>>

DeferDispatchDone(t) ==
    /\ pc[t] = "deferring" /\ dispatcher = None
    /\ jobsDeferred' = TRUE
    /\ Go(t, "sync")
    /\ UNCHANGED <<registry, host, active, hostLock, events, local, calls, history>>

-----------------------------------------------------------------------------
(* sync_enabled, under the host's lock.                                    *)

\* Mutant: only packages that left the records are dropped.
DropAbsent(t) ==
    LET records == local[t].snapshot
        gone == {p \in Package : records[p] = "absent"} IN
    /\ runtimes' = runtimes \ gone
    /\ generation' = [p \in Package |-> IF p \in runtimes' THEN generation[p] ELSE 0]
    /\ contracts' = [p \in Package |-> IF p \in gone THEN 0 ELSE contracts[p]]
    /\ registered' = registered \ gone
    /\ active' = active \ gone

\* _drop_unenabled_locked: unbind what is not enabled in the records, forget
\* what is not in them.
DropUnenabled(t) ==
    LET records == local[t].snapshot
        gone == registered \cap {p \in Package : records[p] = "absent"} IN
    /\ runtimes' = runtimes \cap Enabled(records)
    /\ generation' = [p \in Package |-> IF p \in runtimes' THEN generation[p] ELSE 0]
    /\ contracts' = [p \in Package |-> IF p \in gone THEN 0 ELSE contracts[p]]
    /\ registered' = registered \ gone
    /\ active' = {p \in active \ gone : generation[p] # 0 => p \in Enabled(records)}

SyncEnabled(t) ==
    /\ pc[t] = "sync" /\ hostLock = None
    /\ hostLock' = t
    /\ DropUnenabled(t)
    /\ local' = [local EXCEPT ![t].todo = Enabled(local[t].snapshot),
                              ![t].snapshot = NoRecords]
    /\ Go(t, "bind")
    /\ UNCHANGED <<registry, events, jobsDeferred, calls, history>>

\* The configuration cannot be read: nothing is bound, dispatch is let loose.
DropOnly(t) ==
    /\ pc[t] = "sync" /\ hostLock = None
    /\ DropUnenabled(t)
    /\ failed' = TRUE
    /\ Go(t, "reopen")
    /\ UNCHANGED <<registry, hostLock, events, jobsDeferred, local, calls, overtaken, late>>

EnableLiveDispatch(t) ==
    /\ pc[t] = "reopen"
    /\ live' = TRUE
    /\ local' = [u \in Thread |-> [local[u] EXCEPT !.held = FALSE]]
    /\ Go(t, "resume")
    /\ UNCHANGED <<registry, host, active, hostLock, dispatcher, pending, jobsDeferred,
                   calls, history>>

\* The `finally' of sync_extension_host.
ResumeJobs(t) ==
    /\ pc[t] = "resume"
    /\ jobsDeferred' = FALSE
    /\ opLock' = IF opLock = t THEN None ELSE opLock
    /\ Return(t)
    /\ UNCHANGED <<registry, host, active, hostLock, events, requests, history>>

\* _enable_bind_order: a package after those it requires.
NextToBind(t) ==
    LET todo == local[t].todo
        ready == {p \in todo : Requires[p] \cap todo = {}} IN
    IF ready = {} THEN todo ELSE ready

KeepBound(t, p) ==
    /\ pc[t] = "bind" /\ p \in NextToBind(t) /\ p \in runtimes
    /\ active' = active \cup {q \in {p} : contracts[q] # 0}
    /\ local' = [local EXCEPT ![t].todo = @ \ {p}]
    /\ UNCHANGED <<registry, host, hostLock, events, jobsDeferred, pc, calls,
                   history>>

\* Mutant: jobs resume only when the sync succeeds.
SyncRaisesThrough(t) ==
    /\ hostLock' = None
    /\ failed' = TRUE
    /\ Go(t, "idle")

\* The exception leaves sync_enabled: the lock is released, and of the two
\* only jobs resume.
SyncRaises(t) ==
    /\ hostLock' = None
    /\ failed' = TRUE
    /\ Go(t, "resume")

\* extension.py of the package cannot be loaded.
LoadRaises(t, p) ==
    /\ pc[t] = "bind" /\ p \in NextToBind(t) \ runtimes
    /\ SyncRaises(t)
    /\ UNCHANGED <<registry, host, active, events, jobsDeferred, local, calls, overtaken, late>>

\* The package's settings schema is refused, after what an earlier register()
\* left behind was dropped.
BuildRaises(t, p) ==
    /\ pc[t] = "bind" /\ p \in NextToBind(t) \ runtimes
    /\ contracts' = [contracts EXCEPT ![p] = 0]
    /\ registered' = registered \ {p}
    /\ active' = active \ {p}
    /\ SyncRaises(t)
    /\ UNCHANGED <<registry, runtimes, generation, events, jobsDeferred, local,
                   calls, overtaken, late>>

\* _runtime_epoch counts up: a generation that no runtime, contract or handle has.
NewGeneration ==
    CHOOSE g \in Generation \ {0} :
        /\ \A p \in Package : g # generation[p] /\ g # contracts[p]
        /\ \A t \in Thread : \A h \in local[t].subs \cup {local[t].handle} : g # h.generation

\* Mutant: what an earlier register() left behind is kept.
BuildRuntimeOver(t, p) ==
    /\ pc[t] = "bind" /\ p \in NextToBind(t) \ runtimes
    /\ generation' = [generation EXCEPT ![p] = NewGeneration]
    /\ contracts' = [contracts EXCEPT ![p] = IF p \in registered THEN @ ELSE NewGeneration]
    /\ active' = active \cup {p}
    /\ local' = [local EXCEPT ![t].target = p]
    /\ Go(t, "register")
    /\ UNCHANGED <<registry, runtimes, registered, hostLock, events, jobsDeferred,
                   calls, history>>

\* _build_runtime: a new generation; what an earlier register() left behind
\* is dropped first, so that the contracts capture the new runtime.
BuildRuntime(t, p) ==
    /\ pc[t] = "bind" /\ p \in NextToBind(t) \ runtimes
    /\ generation' = [generation EXCEPT ![p] = NewGeneration]
    /\ contracts' = [contracts EXCEPT ![p] = NewGeneration]
    /\ registered' = registered \ {p}
    /\ active' = active \cup {p}
    /\ local' = [local EXCEPT ![t].target = p]
    /\ Go(t, "register")
    /\ UNCHANGED <<registry, runtimes, hostLock, events, jobsDeferred, calls,
                   history>>

\* register() of the package publishes an event.  The host's lock is
\* re-entrant and still held when publish goes on to drain.
RegisterPublishes(t) ==
    /\ pc[t] = "register" /\ pending < MaxPending
    /\ pending' = pending + 1
    /\ Go(t, "registerDrain")
    /\ UNCHANGED <<registry, host, active, hostLock, live, dispatcher, jobsDeferred,
                   local, calls, history>>

RegisterReturns(t) ==
    /\ pc[t] = "register"
    /\ LET p == local[t].target IN
       /\ runtimes' = runtimes \cup {p}
       /\ registered' = registered \cup {p}
       /\ local' = [local EXCEPT ![t].todo = @ \ {p}, ![t].target = None]
    /\ Go(t, "bind")
    /\ UNCHANGED <<registry, generation, contracts, active, hostLock, events,
                   jobsDeferred, calls, history>>

\* The `finally' of sync_enabled: unbind, forget, deactivate.
RegisterRaises(t) ==
    /\ pc[t] = "register"
    /\ LET p == local[t].target IN
       /\ generation' = [generation EXCEPT ![p] = 0]
       /\ contracts' = [contracts EXCEPT ![p] = 0]
       /\ registered' = registered \ {p}
       /\ active' = active \ {p}
    /\ SyncRaises(t)
    /\ UNCHANGED <<registry, runtimes, events, jobsDeferred, local, calls, overtaken, late>>

SyncReturns(t) ==
    /\ pc[t] = "bind" /\ local[t].todo = {}
    /\ hostLock' = None
    /\ failed' = FALSE /\ overtaken' = ~local[t].fresh
    /\ Go(t, "recover")
    /\ UNCHANGED <<registry, host, active, events, jobsDeferred, local, calls, late>>

-----------------------------------------------------------------------------
(* Durable events, seen from the host.                                     *)

TakeClaim(t) ==
    /\ dispatcher' = t
    /\ Go(t, "dispatch")

RecoverSubscribers(t) ==
    /\ pc[t] = "recover" /\ dispatcher = None
    /\ live' = TRUE
    /\ TakeClaim(t)
    /\ local' = [u \in Thread |-> [local[u] EXCEPT !.held = FALSE,
                                                   !.back = IF u = t THEN "resume" ELSE @]]
    /\ UNCHANGED <<registry, host, active, hostLock, pending, jobsDeferred, calls, history>>

\* A bound package publishes: generation check and commit under the host's
\* lock, the drain after its release.
Publish(t, p) ==
    /\ pc[t] = "idle" /\ hostLock = None
    /\ generation[p] # 0 /\ pending < MaxPending
    /\ pending' = pending + 1
    /\ Go(t, "drain")
    /\ UNCHANGED <<registry, host, active, hostLock, live, dispatcher, jobsDeferred,
                   local, calls, history>>

Drain(t) ==
    /\ pc[t] \in {"drain", "registerDrain"} /\ dispatcher = None
    /\ LET back == IF pc[t] = "drain" THEN "idle" ELSE "register" IN
       \/ live /\ TakeClaim(t) /\ local' = [local EXCEPT ![t].back = back]
       \/ ~live /\ Go(t, back) /\ UNCHANGED <<local, dispatcher>>
    /\ UNCHANGED <<registry, host, active, hostLock, live, pending, jobsDeferred,
                   calls, history>>

\* The bus hands the next row to the subscriptions of this moment.
Deliver(t) ==
    /\ pc[t] = "dispatch" /\ pending > 0
    /\ local' = [local EXCEPT ![t].subs =
                   {[package |-> p, generation |-> contracts[p]] : p \in active}]
    /\ Go(t, "handler")
    /\ UNCHANGED <<registry, host, active, hostLock, events, jobsDeferred, calls,
                   history>>

\* A handler of the row calls the host.
HandlerEnters(t, h) ==
    /\ pc[t] = "handler" /\ h \in local[t].subs
    /\ local' = [local EXCEPT ![t].subs = @ \ {h}, ![t].handle = h]
    /\ Go(t, "handlerLock")
    /\ UNCHANGED <<registry, host, active, hostLock, events, jobsDeferred, calls,
                   history>>

\* Every service of a runtime checks its generation under the host's lock; a
\* runtime that is no longer bound raises, and the row is not marked.
HandlerCallsHost(t) ==
    /\ pc[t] = "handlerLock" /\ hostLock \in {None, t}
    /\ LET h == local[t].handle IN
       Go(t, IF generation[h.package] = h.generation THEN "handler" ELSE "release")
    /\ local' = [local EXCEPT ![t].handle = NoHandle]
    /\ UNCHANGED <<registry, host, active, hostLock, events, jobsDeferred, calls,
                   history>>

\* The others returned without one.
MarkDispatched(t) ==
    /\ pc[t] = "handler"
    /\ pending' = pending - 1
    /\ local' = [local EXCEPT ![t].subs = {}]
    /\ Go(t, "dispatch")
    /\ UNCHANGED <<registry, host, active, hostLock, live, dispatcher, jobsDeferred,
                   calls, history>>

\* Nothing left, or a delivery that raises.
EndDispatch(t) ==
    /\ \/ pc[t] = "dispatch"
       \/ pc[t] = "handler" /\ local[t].subs # {}
    /\ Go(t, "release")
    /\ UNCHANGED <<registry, host, active, hostLock, events, jobsDeferred, local,
                   calls, history>>

\* Back to the caller of the drain.
ReleaseDispatch(t) ==
    /\ pc[t] = "release"
    /\ dispatcher' = None
    /\ local' = [local EXCEPT ![t].subs = {}, ![t].back = "idle"]
    /\ Go(t, local[t].back)
    /\ UNCHANGED <<registry, host, active, hostLock, live, pending, jobsDeferred,
                   calls, history>>

-----------------------------------------------------------------------------

Sync(t) ==
    \/ SwitchContracts(t) \/ ReadRecords(t)
    \/ DeferDispatch(t) \/ DeferDispatchDone(t)
    \/ SyncEnabled(t) \/ DropOnly(t) \/ EnableLiveDispatch(t)
    \/ SyncReturns(t) \/ RecoverSubscribers(t)
    \/ ResumeJobs(t)
    \/ \E p \in Package : KeepBound(t, p) \/ LoadRaises(t, p) \/ BuildRaises(t, p)
                         \/ BuildRuntime(t, p)
    \/ RegisterReturns(t) \/ RegisterRaises(t)

Dispatch(t) ==
    \/ Drain(t) \/ Deliver(t)
    \/ \E h \in local[t].subs : HandlerEnters(t, h)
    \/ HandlerCallsHost(t) \/ MarkDispatched(t) \/ EndDispatch(t)
    \/ ReleaseDispatch(t)

Next ==
    \/ \E t \in Admin, a \in Action, p \in Package : Request(t, a, p)
    \/ \E t \in Admin, p \in Package : Quarantine(t, p)
    \/ \E t \in Thread, p \in Package : Publish(t, p)
    \/ \E t \in Thread : Sync(t) \/ RegisterPublishes(t) \/ Dispatch(t)

Spec == Init /\ [][Next]_vars

\* A thread that has begun goes on: register() and handlers return, and a sync that
\* waits for the claim or for the host's lock is not passed over for ever.
FairSpec ==
    /\ Spec
    /\ \A t \in Thread : SF_vars(Sync(t)) /\ WF_vars(Dispatch(t))

-----------------------------------------------------------------------------
(* Properties.                                                             *)

Syncing ==
    \/ hostLock # None
    \/ \E t \in Admin : pc[t] \in {"switch", "read", "defer", "deferring", "sync"}

\* "Build and retain one ExtensionRuntime per enabled module or integration": once
\* no request is on its way to the host, exactly the packages enabled on disk are
\* bound, whichever of the requests came first to the lock, unless the last sync to
\* bind raised, or had read the records before the last commit (app.py:352).
BoundIsEnabled ==
    ~Syncing /\ ~failed /\ ~overtaken => runtimes = Enabled(registry)

\* "so subscribe() closures capture the live runtime": then every bound package
\* serves, by contracts that captured the runtime that is bound, however its syncs
\* overlapped; and no other package's contracts are active, but those of one that
\* was disabled before its enable came to activate them (applications.py:855).
ContractsAreLive ==
    ~Syncing /\ ~failed =>
        /\ \A p \in runtimes : p \in active /\ contracts[p] = generation[p]
        /\ ~overtaken => active \ late \subseteq runtimes

LockCycle ==
    \E s, t \in Thread : /\ hostLock = s /\ dispatcher = t /\ s # t
                         /\ pc[s] = "registerDrain" /\ pc[t] = "handlerLock"

\* "wait-for-dispatch while holding that lock deadlocks a handler that re-enters
\* the host": whoever publishes from register(), with the host's lock, finds no
\* delivery under way, unless another sync let dispatch loose since this one
\* deferred it.
NoLockCycle ==
    \A s \in Thread : pc[s] = "registerDrain" /\ local[s].held => dispatcher = None

\* Every request is answered, and leaves jobs running, although others publish,
\* deliver and sync meanwhile; but for the requests caught in a lock cycle.
EverySyncEnds ==
    \A t \in Admin : pc[t] = "switch" ~> (pc[t] = "idle" /\ ~jobsDeferred) \/ LockCycle
=============================================================================
