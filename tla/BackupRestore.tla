------------------------------ MODULE BackupRestore -----------------------------
(***************************************************************************)
(* The offline commands of the platform (cli.py): backup create, backup    *)
(* restore and the release commands, with the backup manager (backup.py),  *)
(* the release manager (releases.py) and the evidence each command leaves  *)
(* in the journals and in the store of trusted heads (Ledgers).            *)
(*                                                                         *)
(* One step of a command is what it does under one lock, or one durable    *)
(* write.  A command may die after any step; the operator runs it again    *)
(* with the same operation identifier.  A backup command runs alone, which *)
(* is what its --confirm-offline asks of the operator; release commands    *)
(* may run beside each other, each with an operation of its own.           *)
(*                                                                         *)
(* A tree is a data directory.  Of its files the two journals and the      *)
(* restore marker are modelled; the trusted heads, the restore intent, the *)
(* archives and the releases live outside it.  Platform secrets, and with  *)
(* them the keys of the journals, are carried over by every restore.       *)
(***************************************************************************)
EXTENDS Ledgers

CONSTANTS
    Process,
    Command,            \* Operation -> [kind, archive, version]
    Archive, Version,   \* versions are numbers
    Schema,             \* Version -> data schema
    Plan,               \* bounds: the operations of a behaviour, the releases it
                        \* starts with, and how many crashes and errors it has
    TornAppends,        \* whether a crash may tear an append
    MaxAttempts         \* bound: attempts of each operation

MaxTries == 3           \* _MAX_ANCHOR_ATTEMPTS

\* An identifier of the journal, the names of an archive and a release, or no
\* previous release.
Targets == Operation \cup Archive \cup Version \cup {None}

OperationEvent == [op: Operation, target: Targets, attempt: Nat, status: Status]
History == Seq(AuditEvent) \cup Seq(OperationEvent)

\* The marker names the restore and the manifest it restored.
RestoreMarker == Operation \X Operation

Tree == [audit: Seq(AuditEvent), operations: Seq(OperationEvent),
         torn: SUBSET Journal, marker: RestoreMarker \cup {None}]

RestoreIntent ==
    [op: Operation, marker: RestoreMarker,
     phase: {"prepared", "previous_moved", "committed", "finalized", "aborted"}]

BackupManifest == [tree: Tree, by: Operation, epoch: Nat]

IntegrityCheckpoint ==
    [journal: Journal, head: History, epoch: Nat, op: Operation \cup {None}]

ReleaseState ==
    [staged: SUBSET Version, active: Version \cup {None}, previous: Version \cup {None}]

ASSUME BackupAssumption ==
    /\ None \notin Operation /\ None \notin Archive /\ None \notin Version
    /\ None \notin Tree \cup RestoreIntent \cup BackupManifest
    /\ None \notin OperationEvent \cup IntegrityCheckpoint \cup RestoreMarker
    /\ Version \subseteq Nat /\ Schema \in [Version -> Nat]
    /\ \A op \in Operation :
           /\ Command[op].kind \in {"create", "restore", "stage", "activate", "rollback"}
           /\ Command[op].kind \in {"create", "restore"} => Command[op].archive \in Archive
           /\ Command[op].kind \in {"stage", "activate"} => Command[op].version \in Version
    /\ \A start \in Plan : start.releases \in ReleaseState

VARIABLES
    data, staging, previous,    \* trees, None when the directory is missing
    intent,                     \* the signed restore intent
    archives,
    trusted,                    \* the checkpoint store
    tornStore,
    releases,
    plan,
    proc,                       \* the command each process runs
    faults

trees == <<data, staging, previous>>
evidence == <<trusted, tornStore>>
vars == <<trees, intent, archives, evidence, releases, plan, proc, faults>>

Idle == [pc |-> "idle"]

Init ==
    /\ data = NewTree /\ staging = None /\ previous = None
    /\ intent = None
    /\ archives = [a \in Archive |-> None]
    /\ trusted = <<>> /\ tornStore = FALSE
    /\ plan \in Plan /\ releases = plan.releases
    /\ proc = [p \in Process |-> Idle]
    /\ faults = 0

Kind(op) == Command[op].kind
Offline(op) == Kind(op) \in {"create", "restore"}
Release(op) == ~Offline(op)

At(p, pc) == proc[p].pc = pc
To(p, pc) == proc' = [proc EXCEPT ![p].pc = pc]
Exit(p) == proc' = [proc EXCEPT ![p] = Idle]
Op(p) == proc[p].op

\* The target under which the journal knows the operation; a restore's is the
\* manifest of the archive, which is named here by the operation that created it.
Target(op) ==
    CASE Kind(op) = "create"   -> Command[op].archive
      [] Kind(op) = "restore"  -> archives[Command[op].archive].by
      [] Kind(op) = "rollback" -> releases.previous
      [] OTHER                 -> Command[op].version

\* _verified_manifest accepts what create has published.
Verified(a) == archives[a] # None

\* A command reads its configuration and its keys in the data directory.
Start(p, op) ==
    /\ At(p, "idle")
    /\ op \in plan.operations /\ data # None
    /\ Kind(op) = "restore" => Verified(Command[op].archive)
    /\ \A q \in Process : ~At(q, "idle") => Release(op) /\ Release(Op(q)) /\ Op(q) # op
    /\ LET state == OperationState(data.operations, op)
       IN state # None => state.attempt < MaxAttempts[op] \/ state.status # "failed"
    /\ proc' = [proc EXCEPT ![p] = [pc |-> "begin", op |-> op, target |-> Target(op),
                                    stage |-> "request", epoch |-> 0, journal |-> "audit",
                                    head |-> <<>>, tries |-> 0]]
    /\ UNCHANGED <<trees, intent, archives, evidence, releases, plan, faults>>

-----------------------------------------------------------------------------
(* The journal of operations.                                              *)

\* _begin_operation, first call; a different target is a conflict.
Begin(p) ==
    LET state == OperationState(data.operations, Op(p))
    IN /\ At(p, "begin")
       /\ IF ~Readable(data, "operations") \/ (state # None /\ state.target # proc[p].target)
          THEN Exit(p) /\ UNCHANGED data
          ELSE IF state = None
          THEN data' = Begun(data, Op(p), proc[p].target) /\ To(p, "audit")
          ELSE /\ To(p, CASE state.status = "started"   -> "audit"
                          [] state.status = "failed"    -> "retry"
                          [] state.status = "succeeded" -> "replay")
               /\ UNCHANGED data
       /\ UNCHANGED <<staging, previous, intent, archives, evidence, releases, faults>>

\* Its second call, after a failure.
Retry(p) ==
    LET state == OperationState(data.operations, Op(p))
    IN /\ At(p, "retry")
       /\ IF ~Readable(data, "operations") \/ state.status = "succeeded"
          THEN Exit(p) /\ UNCHANGED data
          ELSE /\ data' = IF state.status = "failed" THEN Retried(data, Op(p)) ELSE data
               /\ To(p, "audit")
       /\ UNCHANGED <<staging, previous, intent, archives, evidence, releases, faults>>

\* An operation that has succeeded: a backup is only verified, a restore or a
\* release command is carried out again.
Replay(p) ==
    /\ At(p, "replay")
    /\ IF Kind(Op(p)) = "create" THEN Exit(p)
       ELSE To(p, IF Kind(Op(p)) = "restore" THEN "act" ELSE "again")
    /\ UNCHANGED <<trees, intent, archives, evidence, releases, faults>>

\* succeed, after the effect.
Succeed(p) ==
    /\ At(p, "succeed")
    /\ IF CannotFinish(data, Op(p), "succeeded")
       THEN To(p, "failing") /\ UNCHANGED data
       ELSE /\ data' = Finished(data, Op(p), "succeeded")
            /\ proc' = [proc EXCEPT ![p].pc = "audit", ![p].stage = "finish"]
    /\ UNCHANGED <<staging, previous, intent, archives, evidence, releases, faults>>

\* _record_failure reads the state of the operation ...
RecordFailure(p) ==
    LET state == OperationState(data.operations, Op(p))
    IN /\ At(p, "failing")
       /\ IF ~Readable(data, "operations")
          THEN Exit(p)
          ELSE proc' = [proc EXCEPT ![p].stage = "failure",
                            ![p].pc = IF state # None /\ state.status = "started"
                                      THEN "fail" ELSE "audit"]
       /\ UNCHANGED <<trees, intent, archives, evidence, releases, faults>>

\* ... and marks it failed.
Fail(p) ==
    /\ At(p, "fail")
    /\ IF CannotFinish(data, Op(p), "failed")
       THEN Exit(p) /\ UNCHANGED data
       ELSE data' = Finished(data, Op(p), "failed") /\ To(p, "audit")
    /\ UNCHANGED <<staging, previous, intent, archives, evidence, releases, faults>>

-----------------------------------------------------------------------------
(* Audit events.                                                           *)

AuditOf(p) ==
    [op |-> Op(p),
     action |-> IF proc[p].stage = "request" THEN "requested" ELSE "performed",
     outcome |-> IF proc[p].stage = "failure" THEN "failure" ELSE "success"]

\* A call raised: only what follows the effect is inside the command's try block.
Refused(p) == IF proc[p].stage = "finish" THEN To(p, "failing") ELSE Exit(p)

AfterAudit(p) == IF proc[p].stage = "evidence" THEN "evidence_succeed" ELSE "epoch"

\* _audit_once looks for the event ...
AuditCheck(p) ==
    /\ At(p, "audit")
    /\ IF ~Readable(data, "audit") THEN Refused(p)
       ELSE To(p, IF Contains(data.audit, AuditOf(p)) THEN AfterAudit(p) ELSE "append")
    /\ UNCHANGED <<trees, intent, archives, evidence, releases, faults>>

\* ... and appends it under another hold of the lock.
AuditAppend(p) ==
    /\ At(p, "append")
    /\ IF ~Readable(data, "audit")
       THEN Refused(p) /\ UNCHANGED data
       ELSE data' = Appended(data, "audit", AuditOf(p)) /\ To(p, AfterAudit(p))
    /\ UNCHANGED <<staging, previous, intent, archives, evidence, releases, faults>>

-----------------------------------------------------------------------------
(* _anchor and checkpoint_verified_journal.                                *)

\* _read_and_verify of the checkpoint store, and _current_recovery_epoch.
StoreReadable == ~tornStore /\ EpochKnown(trusted)

AnchorEpoch(p) ==
    /\ At(p, "epoch")
    /\ IF ~StoreReadable
       THEN Refused(p)
       ELSE proc' = [proc EXCEPT ![p].pc = "verify", ![p].epoch = Epoch(trusted),
                                 ![p].journal = "audit", ![p].tries = 1]
    /\ UNCHANGED <<trees, intent, archives, evidence, releases, faults>>

AnchorVerify(p) ==
    /\ At(p, "verify")
    /\ IF ~Readable(data, proc[p].journal)
       THEN Refused(p)
       ELSE proc' = [proc EXCEPT ![p].pc = "checkpoint", ![p].head = data[proc[p].journal]]
    /\ UNCHANGED <<trees, intent, archives, evidence, releases, faults>>

AfterAnchor(p) ==
    IF proc[p].journal = "audit"
    THEN proc' = [proc EXCEPT ![p].pc = "verify", ![p].journal = "operations",
                              ![p].head = <<>>, ![p].tries = 1]
    ELSE IF proc[p].stage = "request"
    THEN proc' = [proc EXCEPT ![p].pc = "act", ![p].head = <<>>]
    ELSE Exit(p)

AnchorCheckpoint(p) ==
    LET me == proc[p]
    IN /\ At(p, "checkpoint")
       /\ IF tornStore
          THEN Refused(p) /\ UNCHANGED trusted
          ELSE IF AcceptsHead(trusted, me.journal, me.head, me.epoch)
          THEN trusted' = Anchored(trusted, me.journal, me.head) /\ AfterAnchor(p)
          ELSE To(p, "lost") /\ UNCHANGED trusted
       /\ UNCHANGED <<trees, intent, archives, tornStore, releases, faults>>

\* Another process may have anchored a newer head: then verify again.
AnchorLost(p) ==
    LET me == proc[p]
        latest == Latest(trusted, me.journal)
        beaten == /\ latest # None /\ latest.epoch = me.epoch
                  /\ Len(latest.head) > Len(me.head)
    IN /\ At(p, "lost")
       /\ IF ~tornStore /\ beaten /\ me.tries < MaxTries
          THEN proc' = [proc EXCEPT ![p].pc = "verify", ![p].tries = @ + 1]
          ELSE Refused(p)
       /\ UNCHANGED <<trees, intent, archives, evidence, releases, faults>>

-----------------------------------------------------------------------------
(* Releases.                                                               *)

Staged(v) == [releases EXCEPT !.staged = @ \cup {v}]

\* activate: only a staged release, newer than the active one, with no older schema.
CanActivate(v) ==
    /\ v \in releases.staged
    /\ \/ releases.active \in {v, None}
       \/ v > releases.active /\ Schema[v] >= Schema[releases.active]
Activated(v) ==
    IF releases.active = v THEN releases
    ELSE [releases EXCEPT !.active = v, !.previous = releases.active]

\* rollback: only to the previous release, with the same schema.
CanRollBack ==
    /\ releases.active # None /\ releases.previous # None
    /\ Schema[releases.previous] = Schema[releases.active]
RolledBack ==
    [releases EXCEPT !.active = releases.previous, !.previous = releases.active]

\* The state a release command leaves, none when it is refused.
Released(op) ==
    LET v == Command[op].version
    IN CASE Kind(op) = "stage"                     -> {Staged(v)}
         [] Kind(op) = "activate" /\ CanActivate(v) -> {Activated(v)}
         [] Kind(op) = "rollback" /\ CanRollBack   -> {RolledBack}
         [] OTHER                                  -> {}

\* _run_release_mutation; repeated for an operation that has succeeded, it leaves
\* no evidence.
ReleaseAct(p) ==
    /\ At(p, "act") \/ At(p, "again")
    /\ Release(Op(p))
    /\ \/ /\ releases' \in Released(Op(p))
          /\ IF At(p, "again") THEN Exit(p) ELSE To(p, "succeed")
       \/ /\ Released(Op(p)) = {}
          /\ IF At(p, "again") THEN Exit(p) ELSE To(p, "failing")
          /\ UNCHANGED releases
    /\ UNCHANGED <<trees, intent, archives, evidence, faults>>

-----------------------------------------------------------------------------
(* Backups.                                                                *)

\* create: hidden files, the restore marker among them, stay out of the archive.
BackupAct(p) ==
    /\ At(p, "act") /\ Kind(Op(p)) = "create"
    /\ archives' = [archives EXCEPT ![Command[Op(p)].archive] =
                        [tree |-> [data EXCEPT !.marker = None], by |-> Op(p),
                         epoch |-> proc[p].epoch]]
    /\ To(p, "succeed")
    /\ UNCHANGED <<trees, intent, evidence, releases, faults>>

Snapshot(p) == archives[Command[Op(p)].archive]
Marker(p) == <<Op(p), Snapshot(p).by>>

\* restore: the archive is verified and its epoch compared with the trusted one.
RestoreAct(p) ==
    /\ At(p, "act") /\ Kind(Op(p)) = "restore"
    /\ IF ~StoreReadable THEN Exit(p)
       ELSE To(p, IF Snapshot(p).epoch > Epoch(trusted) THEN "failing" ELSE "reconcile")
    /\ UNCHANGED <<trees, intent, archives, evidence, releases, faults>>

Intent(p, phase) == [op |-> Op(p), marker |-> Marker(p), phase |-> phase]
Switched == data # None /\ intent # None /\ data.marker = intent.marker

\* Mutant: the tree that is in the way is removed before the data is put back.
PutBackCareless ==
    /\ data' = data /\ staging' = None /\ previous' = None

\* The data directory moves back if it had been moved away, and staging goes.
PutBack ==
    /\ data' = IF data = None THEN previous ELSE data
    /\ previous' = IF data = None THEN None ELSE previous
    /\ staging' = None

Cleaned ==
    /\ staging' = None /\ previous' = None
    /\ data' = [data EXCEPT !.marker = None]

\* _reconcile_intent.  The move and the removal of staging are one step: a crash
\* between them leaves what a crash before the first move leaves.
Reconcile(p) ==
    /\ At(p, "reconcile")
    /\ \/ /\ intent = None
          /\ To(p, "stage") /\ UNCHANGED <<trees, intent>>
       \/ /\ intent # None /\ intent.phase \in {"finalized", "aborted"}
          /\ Cleaned /\ To(p, "stage") /\ UNCHANGED intent
       \/ /\ intent # None /\ intent.phase \in {"prepared", "previous_moved"}
          /\ IF Switched
             THEN /\ intent' = [intent EXCEPT !.phase = "committed"]
                  /\ UNCHANGED <<trees, proc>>
             ELSE IF (data # None /\ staging = None) \/ (data = None /\ previous = None)
             THEN Exit(p) /\ UNCHANGED <<trees, intent>>
             ELSE /\ PutBack /\ UNCHANGED intent
                  /\ proc' = [proc EXCEPT ![p].pc = "abort"]
       \/ /\ intent # None /\ intent.phase = "committed"
          /\ IF Switched /\ intent.op = Op(p) /\ intent.marker = Marker(p)
             THEN To(p, "evidence") ELSE Exit(p)
          /\ UNCHANGED <<trees, intent>>
    /\ UNCHANGED <<archives, evidence, releases, faults>>

\* The intent of an undone restore; the restore goes on, or its failure is recorded.
RestoreAbort(p) ==
    /\ At(p, "abort") \/ At(p, "abort_failing")
    /\ intent' = IF At(p, "abort") THEN [intent EXCEPT !.phase = "aborted"]
                 ELSE Intent(p, "aborted")
    /\ To(p, IF At(p, "abort") THEN "stage" ELSE "failing")
    /\ UNCHANGED <<trees, archives, evidence, releases, faults>>

\* validate_staged
ValidStaging(tree) == \A j \in Journal : Readable(tree, j)

\* The archive and the present secrets are copied to staging, which is validated.
RestoreStage(p) ==
    LET tree == [Snapshot(p).tree EXCEPT !.marker = Marker(p)]
    IN /\ At(p, "stage")
       /\ IF ValidStaging(tree)
          THEN staging' = tree /\ To(p, "prepare")
          ELSE To(p, "failing") /\ UNCHANGED staging
       /\ UNCHANGED <<data, previous, intent, archives, evidence, releases, faults>>

RestorePrepare(p) ==
    /\ At(p, "prepare")
    /\ intent' = Intent(p, "prepared")
    /\ To(p, "move")
    /\ UNCHANGED <<trees, archives, evidence, releases, faults>>

RestoreMove(p) ==
    /\ At(p, "move")
    /\ previous' = data /\ data' = None
    /\ To(p, "moved")
    /\ UNCHANGED <<staging, intent, archives, evidence, releases, faults>>

RestoreMoved(p) ==
    /\ At(p, "moved")
    /\ intent' = [intent EXCEPT !.phase = "previous_moved"]
    /\ To(p, "switch")
    /\ UNCHANGED <<trees, archives, evidence, releases, faults>>

RestoreSwitch(p) ==
    /\ At(p, "switch")
    /\ data' = staging /\ staging' = None
    /\ To(p, "commit")
    /\ UNCHANGED <<previous, intent, archives, evidence, releases, faults>>

\* Mutant: the replaced tree goes as soon as the switch is committed.
CommitCareless(p) ==
    /\ At(p, "commit")
    /\ previous' = None
    /\ intent' = [intent EXCEPT !.phase = "committed"]
    /\ To(p, "evidence")
    /\ UNCHANGED <<data, staging, archives, evidence, releases, faults>>

RestoreCommit(p) ==
    /\ At(p, "commit")
    /\ intent' = [intent EXCEPT !.phase = "committed"]
    /\ To(p, "evidence")
    /\ UNCHANGED <<trees, archives, evidence, releases, faults>>

\* An error before the switch: _rollback_precommit.
RestoreRollback(p) ==
    /\ At(p, "undo")
    /\ PutBack
    /\ To(p, "abort_failing")
    /\ UNCHANGED <<intent, archives, evidence, releases, faults>>

\* commit_evidence: the operation is begun again in the restored journal, ...
EvidenceBegin(p) ==
    LET state == OperationState(data.operations, Op(p))
    IN /\ At(p, "evidence")
       /\ IF ~Readable(data, "operations") \/ (state # None /\ state.target # Snapshot(p).by)
          THEN Exit(p) /\ UNCHANGED data
          ELSE IF state # None /\ state.status = "succeeded"
          THEN To(p, "recover") /\ UNCHANGED data
          ELSE /\ data' = IF state = None THEN Begun(data, Op(p), Snapshot(p).by)
                          ELSE IF state.status = "failed" THEN Retried(data, Op(p))
                          ELSE data
               /\ proc' = [proc EXCEPT ![p].pc = "audit", ![p].stage = "evidence"]
       /\ UNCHANGED <<staging, previous, intent, archives, evidence, releases, faults>>

\* ... audited (AuditCheck, AuditAppend), marked as succeeded, ...
EvidenceSucceed(p) ==
    /\ At(p, "evidence_succeed")
    /\ IF CannotFinish(data, Op(p), "succeeded")
       THEN Exit(p) /\ UNCHANGED data
       ELSE data' = Finished(data, Op(p), "succeeded") /\ To(p, "recover")
    /\ UNCHANGED <<staging, previous, intent, archives, evidence, releases, faults>>

\* ... and both restored heads become the trusted ones of a new epoch.  An error
\* leaves the restore committed and pending.
EvidenceRecover(p) ==
    LET heads == [j \in Journal |-> data[j]]
    IN /\ At(p, "recover")
       /\ IF ~StoreReadable \/ (\E j \in Journal : ~Readable(data, j))
             \/ (Recovered(trusted, Op(p)) /\ ~MatchesRecovery(trusted, heads, Op(p)))
          THEN Exit(p) /\ UNCHANGED trusted
          ELSE /\ trusted' = IF Recovered(trusted, Op(p)) THEN trusted
                             ELSE NewRecovery(trusted, heads, Op(p))
               /\ To(p, "finalize")
       /\ UNCHANGED <<trees, intent, archives, tornStore, releases, faults>>

\* _finalize_intent: the phase first, then the leftovers.
Finalize(p) ==
    /\ At(p, "finalize")
    /\ intent' = [intent EXCEPT !.phase = "finalized"]
    /\ To(p, "cleanup")
    /\ UNCHANGED <<trees, archives, evidence, releases, faults>>

Cleanup(p) ==
    /\ At(p, "cleanup")
    /\ Cleaned
    /\ Exit(p)
    /\ UNCHANGED <<intent, archives, evidence, releases, faults>>

-----------------------------------------------------------------------------
(* Faults.                                                                 *)

\* What a torn append damages.
TornBy(p) ==
    CASE proc[p].pc \in {"begin", "retry", "succeed", "fail", "evidence", "evidence_succeed"}
                                 -> {"operations"}
      [] proc[p].pc = "append"   -> {"audit"}
      [] OTHER                   -> {}

\* The process dies.  Errors raised where nothing handles them end it as well.
Crash(p) ==
    /\ ~At(p, "idle") /\ faults < plan.faults
    /\ faults' = faults + 1
    /\ Exit(p)
    /\ \/ UNCHANGED <<data, tornStore>>
       \/ /\ TornAppends /\ TornBy(p) # {}
          /\ data' = [data EXCEPT !.torn = @ \cup TornBy(p)]
          /\ UNCHANGED tornStore
       \/ /\ TornAppends /\ proc[p].pc \in {"checkpoint", "recover"}
          /\ tornStore' = TRUE
          /\ UNCHANGED data
    /\ UNCHANGED <<staging, previous, intent, archives, trusted, releases, plan>>

\* A step inside the try block of a command raises.
Raise(p) ==
    /\ faults < plan.faults
    /\ faults' = faults + 1
    /\ \/ /\ \/ proc[p].pc \in {"act", "succeed", "reconcile", "abort", "stage"}
             \/ proc[p].pc \in {"audit", "append", "epoch", "verify", "checkpoint"}
                /\ proc[p].stage = "finish"
          /\ To(p, "failing")
       \/ proc[p].pc \in {"prepare", "move", "moved", "switch"} /\ To(p, "undo")
    /\ UNCHANGED <<trees, intent, archives, evidence, releases, plan>>

-----------------------------------------------------------------------------
Step(p) ==
    /\ \/ Begin(p) \/ Retry(p) \/ Replay(p) \/ Succeed(p) \/ RecordFailure(p) \/ Fail(p)
       \/ AuditCheck(p) \/ AuditAppend(p)
       \/ AnchorEpoch(p) \/ AnchorVerify(p) \/ AnchorCheckpoint(p) \/ AnchorLost(p)
       \/ ReleaseAct(p) \/ BackupAct(p) \/ RestoreAct(p)
       \/ Reconcile(p) \/ RestoreAbort(p) \/ RestoreStage(p) \/ RestorePrepare(p)
       \/ RestoreMove(p) \/ RestoreMoved(p) \/ RestoreSwitch(p) \/ RestoreCommit(p)
       \/ RestoreRollback(p)
       \/ EvidenceBegin(p) \/ EvidenceSucceed(p) \/ EvidenceRecover(p)
       \/ Finalize(p) \/ Cleanup(p)
    /\ UNCHANGED plan

Next ==
    \/ \E p \in Process, op \in Operation : Start(p, op)
    \/ \E p \in Process : Step(p) \/ Crash(p) \/ Raise(p)

Spec == Init /\ [][Next]_vars

\* A command that runs goes on, and the operator runs a restore again.
LiveSpec ==
    /\ Spec
    /\ \A p \in Process : WF_vars(Step(p))
    /\ WF_vars(\E p \in Process, op \in Operation : Kind(op) = "restore" /\ Start(p, op))

-----------------------------------------------------------------------------
(* Properties.                                                             *)

\* The restored tree is in place and its restore has not been finalized.
Pending == Switched /\ intent.phase # "finalized"

\* Whatever step of a restore is the last one before a crash (restore,
\* _reconcile_intent, _rollback_precommit), the data directory exists or the intent
\* says that the tree it was moved to is the one to put back.
DataCanBePutBack ==
    \/ data # None
    \/ /\ previous # None /\ intent # None
       /\ intent.phase \in {"prepared", "previous_moved"}

\* The tree a restore replaces is kept until the restored heads are trusted: until
\* commit_evidence and _finalize_intent are through, it can still be gone back to.
ReplacedTreeIsKept == Pending => previous # None

\* Outside a pending restore the trusted heads of _anchor and recover are heads the
\* journals in the data directory have had: no command, replayed, retried or cut
\* short, leaves an installation whose own journals look tampered with.
TrustedHeadsAreHistory ==
    data # None /\ ~Pending =>
        \A j \in Journal :
            Latest(trusted, j) # None => IsPrefix(Latest(trusted, j).head, data[j])

\* Whatever commands interleave, retry or die, what they append to the operation
\* journal is what _apply_event accepts when it is next read.
JournalsVerify ==
    \A tree \in {data, staging, previous} : tree # None => Verifies(tree.operations)

\* A restore that has begun to move directories is finalized or undone in the end:
\* "Repair a crash between the two directory renames" (reconcile_restore).
Settled == intent = None \/ intent.phase \in {"finalized", "aborted"}
RestoreSettles == ~Settled ~> Settled
================================================================================
