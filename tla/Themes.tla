--------------------------------- MODULE Themes ---------------------------------
(***************************************************************************)
(* The theme of the store: which themes can be discovered (themes.py,      *)
(* theme_composition.py), the journaled activation and rollback            *)
(* (theme_operations.py), the revisions of a theme's configuration         *)
(* (theme_revisions.py), and the package operations on themes              *)
(* (package_composition.py, packages.py) that share their lock.            *)
(*                                                                         *)
(* activate, rollback and recover hold the extension lock from beginning   *)
(* to end, so one of them runs at a time, and a package operation only     *)
(* between them.  Each of their writes is one action.  A write may raise,  *)
(* having reached the disk or not (write_json_atomic replaces the file     *)
(* before it syncs the directory), and the process may stop at any point.  *)
(* What the store has on disk is the record disk.                          *)
(*                                                                         *)
(* A revision's settings, preset and pages are abstracted to the set of    *)
(* block types its pages use.                                              *)
(***************************************************************************)
EXTENDS Naturals, FiniteSets

CONSTANTS
    Theme,              \* installable themes; "default" is bundled
    Version, BlockType, Revision, None,
    Pages,              \* what the pages of a revision may use
    Manifest(_, _),     \* [parent, blocks, api, flaws] of a version of a theme
    MaxChanges,         \* bound: selections written
    MaxOperations,      \* bound: operations in the journal
    MaxFaults,          \* bound: writes and reads that raise
    MaxCrashes,         \* bound: stops of the process
    MaxEvents           \* bound: raising steps, stops and revisions together

ASSUME ThemesAssumption ==
    /\ "default" \notin Theme /\ None \notin Theme \cup Revision \cup {"default"}
    /\ Pages \subseteq SUBSET BlockType
    /\ MaxChanges \in Nat /\ MaxOperations \in Nat /\ MaxFaults \in Nat
    /\ MaxCrashes \in Nat /\ MaxEvents \in Nat
    /\ \A t \in Theme, v \in Version:
        /\ Manifest(t, v).parent \in (Theme \cup {"default", None}) \ {t}
        /\ Manifest(t, v).flaws \subseteq {"presentation", "composition", "configuration"}
        /\ Manifest(t, v).api \in BOOLEAN
        /\ DOMAIN Manifest(t, v).blocks \subseteq BlockType
        /\ \A b \in DOMAIN Manifest(t, v).blocks:
               Manifest(t, v).blocks[b] \subseteq BlockType

VARIABLES
    records,            \* status and version of each theme package
    disk,               \* selection, intent, journal and audit log of the store
    pc, job,            \* the operation that has the lock, and its arguments
    asked,              \* target a rollback read before it waits for the lock
    clock, faults, crashes,
    revisions, index,   \* revision files, and the revision index of the store
    committed,          \* history: the selection at the last success
    quarantined         \* history: themes an emergency disabled

packages == <<records, quarantined>>
coordinator == <<disk, pc, job, asked, clock, faults, crashes, committed>>
configuration == <<revisions, index>>
vars == <<packages, coordinator, configuration>>

Selection == [active: Theme \cup {"default"}, previous: Theme \cup {"default", None},
              updated: 0..MaxChanges]
Bundled == [active |-> "default", previous |-> None, updated |-> 0]

\* The identifier of an operation is a digest of these fields; the journal has
\* its outcome, the intent names it and what it has to restore.
Operation == [action: {"activate", "rollback"}, target: Theme \cup {"default"},
              before: Selection]
Outcome == {"started", "failed", "succeeded"}
Intent == [op: Operation, target: Theme \cup {"default"}, before: Selection]

\* A theme package that is installed.
Record == [status: {"installed", "enabled", "disabled"}, version: Version]

ASSUME NoneAssumption == None \notin Intent \cup Outcome \cup Record

Init ==
    /\ records = [t \in Theme |-> None]
    /\ disk = [selection |-> Bundled, intent |-> None, journal |-> <<>>, audit |-> {}]
    /\ pc = "idle" /\ job = None /\ asked = None
    /\ clock = 0 /\ faults = 0 /\ crashes = 0
    /\ revisions = [r \in Revision |-> None]
    /\ index = [published |-> None, previous |-> None]
    /\ committed = Bundled /\ quarantined = {}

-----------------------------------------------------------------------------
(* Discovery: every visible theme is valid, or none can be used.           *)

Installed(t) == records[t] # None
Enabled == {"default"} \cup {t \in Theme: Installed(t) /\ records[t].status = "enabled"}
Here(t) == IF t = "default" THEN [parent |-> None, blocks |-> <<>>, api |-> TRUE, flaws |-> {}]
           ELSE Manifest(t, records[t].version)

\* Layouts, hooks and assets have safe and distinct names.
Presentable(m) == "presentation" \notin m.flaws

\* The declared sections, blocks and pages, and no others, can be read.
LoadsComposition(m) == "composition" \notin m.flaws

\* So can the declared settings schema and presets.
LoadsConfiguration(m) == "configuration" \notin m.flaws

\* A block type of the child replaces its parent's of the same name.
Merged(child, parent) ==
    [b \in DOMAIN child.blocks \cup DOMAIN parent.blocks |->
        IF b \in DOMAIN child.blocks THEN child.blocks[b] ELSE parent.blocks[b]]

\* External (plaik_contracts): block types do not contain themselves.
RejectsCycles(blocks) ==
    \A S \in (SUBSET DOMAIN blocks) \ {{}}: \E b \in S: blocks[b] \cap S = {}

Finalizes(blocks) ==
    /\ RejectsCycles(blocks)
    /\ \A b \in DOMAIN blocks: blocks[b] \subseteq DOMAIN blocks

Composition(m) == IF m.parent = None THEN m.blocks ELSE Merged(m, Here(m.parent))

ValidInheritance ==
    \A t \in Enabled:
        Here(t).parent # None =>
            Here(t).parent \in Enabled /\ Here(Here(t).parent).parent = None

Discovers ==
    /\ ValidInheritance
    /\ \A t \in Enabled:
        LET m == Here(t)
        IN  Presentable(m) /\ LoadsComposition(m) /\ LoadsConfiguration(m)
                /\ Finalizes(Composition(m))

ValidCandidate(m, available) ==
    /\ Presentable(m) /\ LoadsComposition(m) /\ LoadsConfiguration(m)
    /\ m.parent # None => /\ m.parent \in available
                          /\ Here(m.parent).parent = None
    /\ Finalizes(Composition(m))

-----------------------------------------------------------------------------
(* Package operations, under the same lock.                                *)

AvailableThemes(enabledOnly) ==
    IF enabledOnly THEN Enabled ELSE {"default"} \cup {t \in Theme: Installed(t)}

PackageStep(t, record) ==
    /\ pc = "idle"
    /\ records' = [records EXCEPT ![t] = record]
    /\ UNCHANGED <<coordinator, configuration>>

Install(t, v) ==
    /\ ~ Installed(t)
    /\ ValidCandidate(Manifest(t, v), AvailableThemes(FALSE))
    /\ PackageStep(t, [status |-> "installed", version |-> v])
    /\ UNCHANGED quarantined

Update(t, v) ==
    /\ Installed(t)
    /\ ValidCandidate(Manifest(t, v), AvailableThemes(t \in Enabled))
    /\ PackageStep(t, [records[t] EXCEPT !.version = v])
    /\ UNCHANGED quarantined

Enable(t) ==
    /\ Installed(t)
    /\ ValidCandidate(Here(t), AvailableThemes(TRUE))
    /\ PackageStep(t, [records[t] EXCEPT !.status = "enabled"])
    /\ quarantined' = quarantined \ {t}

\* Mutant: a theme can be disabled while it is the active one.
ActiveCanBeDisabled(t) == TRUE
NotActive(t) == disk.selection.active # t

Disable(t) ==
    /\ Installed(t) /\ NotActive(t)
    /\ PackageStep(t, [records[t] EXCEPT !.status = "disabled"])
    /\ UNCHANGED quarantined

Uninstall(t) ==
    /\ Installed(t) /\ t \notin Enabled /\ NotActive(t)
    /\ PackageStep(t, None)
    /\ quarantined' = quarantined \ {t}

\* Emergency containment asks for no theme to be inactive.
Quarantine(t) ==
    /\ Installed(t)
    /\ PackageStep(t, [records[t] EXCEPT !.status = "disabled"])
    /\ quarantined' = quarantined \cup {t}

-----------------------------------------------------------------------------
(* The coordinator.  job.before and job.op are set once the lock is held   *)
(* and recovery is done.                                                   *)

Rest == UNCHANGED <<packages, crashes, configuration>>

Status(op) == IF op \in DOMAIN disk.journal THEN disk.journal[op] ELSE None
Journaled(op, status) ==
    [disk EXCEPT !.journal = [o \in DOMAIN @ \cup {op} |-> IF o = op THEN status ELSE @[o]]]
Succeeded(d) == {o \in DOMAIN d.journal: d.journal[o] = "succeeded"}

\* The last step of a job is followed by nothing: its arguments are gone.
Goto(label) ==
    /\ pc' = label
    /\ job' = IF label \in {"idle", "down"} THEN None ELSE job

MoreEvents ==
    faults + crashes + Cardinality({r \in Revision: revisions[r] # None}) < MaxEvents

Fault == faults < MaxFaults /\ MoreEvents /\ faults' = faults + 1

Durable(d) ==
    /\ disk' = d
    /\ committed' = IF Succeeded(d) \subseteq Succeeded(disk) THEN committed ELSE d.selection

\* A write, the step after it, and the step after it when it raises.
Write(d, next, raised) ==
    /\ \/ Durable(d) /\ Goto(next) /\ UNCHANGED faults
       \/ Fault /\ (Durable(d) \/ Durable(disk)) /\ Goto(raised)
    /\ Rest

\* A failed step of recovery ends the operation, or the start of the process.
Raised == IF job.action = "recover" THEN "down" ELSE "idle"
AfterRecovery == IF job.action = "recover" THEN "idle" ELSE "begin"

AskRollback ==
    /\ pc # "down" /\ asked = None
    /\ disk.selection.previous # None
    /\ asked' = disk.selection.previous
    /\ UNCHANGED <<disk, pc, job, clock, faults, committed>> /\ Rest

Acquire(action, target) ==
    /\ pc = "idle" /\ clock < MaxChanges
    /\ Cardinality(DOMAIN disk.journal) < MaxOperations
    /\ pc' = "recover"
    /\ job' = [action |-> action, target |-> target, before |-> Bundled, op |-> None,
               audited |-> FALSE]

Activate(t) ==
    /\ Acquire("activate", t)
    /\ UNCHANGED <<disk, asked, clock, faults, committed>> /\ Rest

Rollback ==
    /\ asked # None
    /\ Acquire("rollback", asked) /\ asked' = None
    /\ UNCHANGED <<disk, clock, faults, committed>> /\ Rest

Restart ==
    /\ pc = "down"
    /\ pc' = "recover"
    /\ job' = [action |-> "recover", target |-> None, before |-> Bundled, op |-> None,
               audited |-> FALSE]
    /\ UNCHANGED <<disk, asked, clock, faults, committed>> /\ Rest

Crash ==
    /\ pc # "down" /\ crashes < MaxCrashes /\ MoreEvents
    /\ crashes' = crashes + 1
    /\ Goto("down") /\ asked' = None
    /\ UNCHANGED <<disk, clock, faults, committed, packages, configuration>>

\* Mutant: the selection is not put back.
NothingToRestore(selection) == disk
Restored(selection) == [disk EXCEPT !.selection = selection]

SuccessAudited(op) ==
    [disk EXCEPT !.audit = @ \cup {[op |-> op, outcome |-> "success"]}]

RecoveryConflicts ==
    /\ disk.intent # None
    /\ \/ Status(disk.intent.op) = None
       \/ /\ Status(disk.intent.op) = "succeeded"
          /\ disk.selection.active # disk.intent.target

RecoverStarted ==
    IF disk.selection.active = disk.intent.target
    THEN Write(SuccessAudited(disk.intent.op), "recover succeed", Raised)
    ELSE Write(Restored(disk.intent.before), "recover fail", Raised)

RecoverBegin ==
    /\ pc = "recover" /\ UNCHANGED <<asked, clock>>
    /\ IF disk.intent = None
       THEN Goto(AfterRecovery) /\ UNCHANGED <<disk, faults, committed>> /\ Rest
       ELSE \/ /\ RecoveryConflicts
               /\ Goto(Raised) /\ UNCHANGED <<disk, faults, committed>> /\ Rest
            \/ /\ ~ RecoveryConflicts /\ Status(disk.intent.op) = "succeeded"
               /\ Write([disk EXCEPT !.intent = None], AfterRecovery, Raised)
            \/ /\ Status(disk.intent.op) = "failed"
               /\ Write(Restored(disk.intent.before), "recover unlink", Raised)
            \/ Status(disk.intent.op) = "started" /\ RecoverStarted

RecoverSucceed ==
    /\ pc = "recover succeed" /\ UNCHANGED <<asked, clock>>
    /\ Write(Journaled(disk.intent.op, "succeeded"), "recover unlink", Raised)

RecoverFail ==
    /\ pc = "recover fail" /\ UNCHANGED <<asked, clock>>
    /\ Write(Journaled(disk.intent.op, "failed"), "recover unlink", Raised)

RecoverUnlink ==
    /\ pc = "recover unlink" /\ UNCHANGED <<asked, clock>>
    /\ Write([disk EXCEPT !.intent = None], AfterRecovery, Raised)

OperationId == [action |-> job.action, target |-> job.target, before |-> disk.selection]

\* begin, and retry when the operation had failed; a replay ends here.
Begin ==
    /\ pc = "begin" /\ UNCHANGED <<asked, clock>> /\ Rest
    /\ \/ /\ Status(OperationId) = "succeeded"
          /\ Goto("idle") /\ UNCHANGED <<disk, faults, committed>>
       \/ /\ Status(OperationId) # "succeeded"
          /\ Durable(Journaled(OperationId, "started")) /\ UNCHANGED faults
          /\ pc' = "validate"
          /\ job' = [job EXCEPT !.before = disk.selection, !.op = OperationId]
       \/ /\ Status(OperationId) # "succeeded" /\ Fault
          /\ Durable(Journaled(OperationId, "started")) \/ Durable(disk)
          /\ Goto("idle")

ValidTarget == job.target \in Enabled

Validate ==
    /\ pc = "validate" /\ UNCHANGED <<asked, clock>>
    /\ IF ValidTarget
       THEN Goto("intent") /\ UNCHANGED <<disk, faults, committed>> /\ Rest
       ELSE Write(Journaled(job.op, "failed"), "idle", "idle")

WriteIntent ==
    /\ pc = "intent" /\ UNCHANGED <<asked, clock>>
    /\ Write([disk EXCEPT !.intent = [op |-> job.op, target |-> job.target,
                                      before |-> job.before]],
             "apply", "idle")

Moved(theme) ==
    [disk EXCEPT !.selection = [active |-> theme, previous |-> @.active, updated |-> clock + 1]]

\* The selection is unchanged since the lock is held; a rollback whose target
\* was read before that may find another one.
Apply ==
    /\ pc = "apply" /\ UNCHANGED asked
    /\ \/ /\ job.action = "activate" /\ Discovers /\ job.target \in Enabled
          /\ IF disk.selection.active = job.target
             THEN Goto("audit") /\ UNCHANGED <<disk, clock, faults, committed>> /\ Rest
             ELSE Write(Moved(job.target), "audit", "undo") /\ clock' = clock + 1
       \/ /\ job.action = "rollback" /\ Discovers
          /\ disk.selection.previous \in Enabled
          /\ Write(Moved(disk.selection.previous),
                   IF disk.selection.previous = job.target THEN "audit" ELSE "undo", "undo")
          /\ clock' = clock + 1
       \/ /\ ~ Discovers \/ IF job.action = "activate" THEN job.target \notin Enabled
                            ELSE disk.selection.previous \notin Enabled
          /\ Goto("undo") /\ UNCHANGED <<disk, clock, faults, committed>> /\ Rest

Audit ==
    /\ pc = "audit" /\ UNCHANGED <<asked, clock>> /\ Rest
    /\ \/ /\ Durable(SuccessAudited(job.op)) /\ UNCHANGED faults
          /\ pc' = "succeed" /\ job' = [job EXCEPT !.audited = TRUE]
       \/ Fault /\ (Durable(SuccessAudited(job.op)) \/ Durable(disk)) /\ Goto("undo")

Succeed ==
    /\ pc = "succeed" /\ UNCHANGED <<asked, clock>>
    /\ Write(Journaled(job.op, "succeeded"), "unlink", "undo")

Unlink ==
    /\ pc = "unlink" /\ UNCHANGED <<asked, clock>>
    /\ Write([disk EXCEPT !.intent = None], "idle", "undo")

\* Mutant: whatever raised, the old theme is put back.
UndoAlways == TRUE
NotDecided == Status(job.op) # "succeeded"

\* After a success, or when the journal cannot be read, nothing is undone.
Undo ==
    /\ pc = "undo" /\ UNCHANGED <<asked, clock>>
    /\ \/ ~ NotDecided /\ Goto("idle") /\ UNCHANGED <<disk, faults, committed>> /\ Rest
       \/ Fault /\ Goto("idle") /\ UNCHANGED <<disk, committed>> /\ Rest
       \/ NotDecided /\ Write(Restored(job.before),
                              IF job.audited THEN "compensate" ELSE "undo fail", "idle")

Compensate ==
    /\ pc = "compensate" /\ UNCHANGED <<asked, clock>>
    /\ Write([disk EXCEPT !.audit = @ \cup {[op |-> job.op, outcome |-> "compensated"]}],
             "undo fail", "idle")

UndoFail ==
    /\ pc = "undo fail" /\ UNCHANGED <<asked, clock>>
    /\ IF Status(job.op) = "started"
       THEN Write(Journaled(job.op, "failed"), "undo unlink", "idle")
       ELSE Goto("undo unlink") /\ UNCHANGED <<disk, faults, committed>> /\ Rest

UndoUnlink ==
    /\ pc = "undo unlink" /\ UNCHANGED <<asked, clock>>
    /\ Write([disk EXCEPT !.intent = None], "idle", "idle")

-----------------------------------------------------------------------------
(* Revisions: each operation holds the lock of the store's index.          *)

Rank == [draft |-> 0, validated |-> 1, prepared |-> 2]

WriteRevision(r, new) ==
    /\ revisions[r] # None => /\ revisions[r].status # "prepared"
                              /\ Rank[new.status] >= Rank[revisions[r].status]
    /\ revisions' = [revisions EXCEPT ![r] = new]
    /\ UNCHANGED <<packages, coordinator, index>>

RequireTheme(t) == pc # "down" /\ Discovers /\ t \in Enabled /\ Here(t).api

RequireRevisionTheme(r) ==
    /\ RequireTheme(revisions[r].theme)
    /\ records[revisions[r].theme].version = revisions[r].version

RequireValid(r) ==
    LET m == Here(revisions[r].theme)
    IN  /\ RequireRevisionTheme(r)
        /\ m.parent # None => RequireTheme(m.parent)
        /\ revisions[r].uses \subseteq DOMAIN Composition(m)

Draft(r, t, uses) ==
    /\ revisions[r] = None /\ MoreEvents /\ RequireTheme(t)
    /\ WriteRevision(r, [status |-> "draft", theme |-> t, version |-> records[t].version,
                         uses |-> uses])

UpdateDraft(r, uses) ==
    /\ pc # "down" /\ revisions[r] # None /\ revisions[r].status = "draft"
    /\ WriteRevision(r, [revisions[r] EXCEPT !.uses = uses])

ValidateRevision(r) ==
    /\ revisions[r] # None /\ revisions[r].status # "prepared"
    /\ RequireValid(r)
    /\ WriteRevision(r, [revisions[r] EXCEPT !.status = "validated"])

Prepare(r) ==
    /\ revisions[r] # None /\ revisions[r].status = "validated"
    /\ RequireValid(r)
    /\ WriteRevision(r, [revisions[r] EXCEPT !.status = "prepared"])

\* Mutant: any revision of the theme can be published.
AnyStatus(r) == revisions[r] # None
IsPrepared(r) == revisions[r] # None /\ revisions[r].status = "prepared"

Publish(r) ==
    /\ IsPrepared(r) /\ RequireRevisionTheme(r)
    /\ index.published # r
    /\ index' = [published |-> r, previous |-> index.published]
    /\ UNCHANGED <<packages, coordinator, revisions>>

RollbackRevision ==
    /\ index.previous # None /\ RequireRevisionTheme(index.previous)
    /\ index' = [published |-> index.previous, previous |-> index.published]
    /\ UNCHANGED <<packages, coordinator, revisions>>

-----------------------------------------------------------------------------
PackageNext ==
    \E t \in Theme:
        \/ Enable(t) \/ Disable(t) \/ Uninstall(t) \/ Quarantine(t)
        \/ \E v \in Version: Install(t, v) \/ Update(t, v)

CoordinatorNext ==
    \/ \E t \in Theme \cup {"default"}: Activate(t)
    \/ AskRollback \/ Rollback \/ Restart \/ Crash
    \/ RecoverBegin \/ RecoverSucceed \/ RecoverFail \/ RecoverUnlink
    \/ Begin \/ Validate \/ WriteIntent \/ Apply \/ Audit \/ Succeed \/ Unlink
    \/ Undo \/ Compensate \/ UndoFail \/ UndoUnlink

RevisionNext ==
    \/ \E r \in Revision:
        \/ ValidateRevision(r) \/ Prepare(r) \/ Publish(r)
        \/ \E uses \in Pages:
               UpdateDraft(r, uses) \/ \E t \in Theme: Draft(r, t, uses)
    \/ RollbackRevision

Next == PackageNext \/ CoordinatorNext \/ RevisionNext

Spec == Init /\ [][Next]_vars

-----------------------------------------------------------------------------
(* A rollback waits for the lock with the target it read before: when it   *)
(* runs, another theme may be the previous one.                            *)
StaleRollback(o) == o.action = "rollback" /\ o.target # o.before.previous

(* The active theme is an enabled one, at every step of an activation, a   *)
(* rollback, their undoing and their recovery, and whatever packages are   *)
(* disabled or removed between them; only an emergency may disable it.     *)
(* The exception is a rollback whose target had changed and that could not *)
(* be undone at once: the theme it returns to when it is recovered may     *)
(* have been disabled meanwhile.                                           *)
ActiveIsEnabled ==
    \/ disk.selection.active \in Enabled \cup quarantined
    \/ \E o \in DOMAIN disk.journal: StaleRollback(o)

(* When no operation runs and none is left to recover, the selection is    *)
(* the one the last successful operation left: a failed activation leaves  *)
(* the previous theme intact, and a successful one is never undone.        *)
SelectionFollowsJournal == pc = "idle" /\ disk.intent = None => disk.selection = committed

(* An intent that is found can always be completed: it has journal         *)
(* evidence, and if the operation succeeded its theme is the active one.   *)
(* (Otherwise every later activation, and every start, raises.)            *)
RecoveryCanFinish == pc \in {"idle", "down", "recover"} => ~ RecoveryConflicts

(* What is published, or kept to roll back to, is a prepared revision, and  *)
(* while its theme is at the version it was prepared for, its pages still   *)
(* compose.  That is said of themes without a parent: publish, rollback and *)
(* the site check the version of the revision's own theme only, so that an  *)
(* update of a parent can take away a block type the pages of a child use.  *)
PublishedIsPrepared ==
    \A r \in {index.published, index.previous} \ {None}:
        /\ revisions[r] # None /\ revisions[r].status = "prepared"
        /\ RequireRevisionTheme(r) /\ Here(revisions[r].theme).parent = None => RequireValid(r)
=================================================================================
