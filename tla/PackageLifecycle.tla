---------------------------- MODULE PackageLifecycle ----------------------------
(***************************************************************************)
(* The crash-atomic package manager (package_lifecycle.py,                 *)
(* package_sql_lifecycle.py, package_postgresql_coordinator.py): one       *)
(* transaction over the package tree, packages.json, the operation journal *)
(* and, for a package that declares migrations, PostgreSQL.                *)
(*                                                                         *)
(* The two lifecycle locks serialise all callers, so there is at most one  *)
(* running operation; its program counter is pc, and a quarantine comes    *)
(* between two operations.  One action is one durable effect: an atomic    *)
(* JSON write, a directory rename, a journal append, a database commit.    *)
(* The process may die between any two, and an exception that no handler   *)
(* turns into a rollback has the same effect: both are Crash.  An          *)
(* exception inside the try block of _execute is Fail.                     *)
(*                                                                         *)
(* rmtree is not atomic: a tree is Damaged before it is gone.  The         *)
(* connection grants that reset_occupancy revokes belong to another store; *)
(* only the step's place and its failure are kept here.                    *)
(***************************************************************************)
EXTENDS PackageGraph, FiniteSets

CONSTANTS
    Op,                 \* operation identifiers
    Request,            \* the operation an identifier stands for
    None

Requests == [action : Action, package : Package, version : Version]

Phase == {"prepared", "files_applied", "registry_applied", "committed", "rolled_back"}
Intent == [phase : Phase, before : Registry, after : Registry]

ASSUME RequestAssumption ==
    /\ Request \in [Op -> Requests]
    /\ None \notin Op \cup Intent /\ \A S \in SUBSET Migration : None # S

VARIABLES
    registry,       \* packages.json
    files,          \* the tree at each package's path
    stage,          \* the staging tree of each operation
    backup,         \* the backup tree of each operation
    intents,        \* intents/<operation>.json
    journal,        \* the operation's state in the operation journal
    participants,   \* sql-participants/<operation>.json
    prepared,       \* pg_prepared_xacts: the migrations a prepared transaction ran
    schema,         \* the migrations whose effects are in the package schemas
    ledger,         \* the migration ledger
    attempts,       \* the append-only `started' rows: one per operation and migration
    pc,             \* where the running operation is
    req,            \* what the caller asked for (None: recover() or records())
    cur,            \* the operation whose intent is being processed
    recovering,     \* in _recover_locked?
    left            \* the migrations prepare() has not yet recorded as started

fileVars == <<files, stage, backup>>
localVars == <<intents, journal, participants>>
dbVars == <<prepared, schema, ledger, attempts>>
callVars == <<req, cur, recovering, left>>
vars == <<registry, fileVars, localVars, dbVars, pc, callVars>>

\* A tree: the version whose artifact marker it carries, or one of these.
NoTree == 0
Damaged == -1
Tree == Version \cup {NoTree, Damaged}

PC == {"idle", "down", "recover", "begin", "check", "reset_occupancy", "write_intent",
       "stage", "extract", "apply", "apply_stage", "files_applied", "sql_intent",
       "prepare", "started", "sql_prepared", "registry", "registry_applied",
       "commit", "commit_sql", "mark_applied", "sql_finished", "postcondition",
       "succeed", "release_owner", "unlink_participant", "remove_stage",
       "remove_backup", "unlink_intent", "rollback_sql", "mark_rolled_back",
       "restore_files", "discard_stage", "restore_registry", "rolled_back",
       "mark_failed"}

\* Whatever is interrupted, every durable file, row and directory is one the
\* manager can read again: a registry of well-formed records, intents and
\* participants in a known phase (the models _read_records and _recover_locked
\* validate against).
TypeOK ==
    /\ registry \in Registry
    /\ files \in [Package -> Tree]
    /\ stage \in [Op -> Tree] /\ backup \in [Op -> Tree]
    /\ intents \in [Op -> {None} \cup Intent]
    /\ journal \in [Op -> {"none", "started", "failed", "succeeded"}]
    /\ participants \in [Op -> {"none", "preparing", "prepared", "finished"}]
    /\ prepared \in [Op -> {None} \cup SUBSET Migration]
    /\ schema \subseteq Migration
    /\ ledger \in [Migration -> {"none", "applying", "applied", "failed"}]
    /\ attempts \subseteq Op \X Migration
    /\ pc \in PC
    /\ req \in Op \cup {None} /\ cur \in Op \cup {None}
    /\ recovering \in BOOLEAN
    /\ left \subseteq Migration

Init ==
    /\ registry = [p \in Package |-> Absent]
    /\ files = [p \in Package |-> NoTree]
    /\ stage = [o \in Op |-> NoTree] /\ backup = [o \in Op |-> NoTree]
    /\ intents = [o \in Op |-> None]
    /\ journal = [o \in Op |-> "none"]
    /\ participants = [o \in Op |-> "none"]
    /\ prepared = [o \in Op |-> None]
    /\ schema = {}
    /\ ledger = [m \in Migration |-> "none"]
    /\ attempts = {}
    /\ pc = "idle"
    /\ req = None /\ cur = None /\ recovering = FALSE /\ left = {}

-----------------------------------------------------------------------------

ActionOf(o) == Request[o].action
Pkg(o) == Request[o].package
Path == files[Pkg(cur)]

\* The migrations of the artifact an operation installs: those of the
\* participant record.
MigrationsOf(o) == Manifest[Pkg(o)][Request[o].version].migrations

DeclaresSql(o) == ActionOf(o) \in {"install", "update"} /\ MigrationsOf(o) # {}

\* Everything in a package's schema, whichever version created it.
Owned(p) == UNION {Manifest[p][v].migrations : v \in Version}

Open == {o \in Op : intents[o] # None}
Committed(o) == o \in Open /\ intents[o].phase = "committed"
PreCommit(o) == o \in Open /\ intents[o].phase # "committed"

Goto(step) == pc' = step /\ UNCHANGED callVars

End(where) ==
    /\ pc' = where /\ req' = None /\ cur' = None
    /\ recovering' = FALSE /\ left' = {}

\* The call returns or raises, and gives the locks back.
Return == End("idle")

SetPhase(phase) == intents' = [intents EXCEPT ![cur].phase = phase]
SetJournal(status) == journal' = [journal EXCEPT ![cur] = status]
SetParticipant(phase) == participants' = [participants EXCEPT ![cur] = phase]

-----------------------------------------------------------------------------
(* A call takes the locks and first recovers what earlier calls left.      *)

Call(o) ==
    /\ pc \in {"idle", "down"}
    /\ pc' = "recover" /\ req' = o /\ recovering' = TRUE
    /\ UNCHANGED <<registry, fileVars, localVars, dbVars, cur, left>>

\* The two ways in which _recover_locked refuses an intent before it acts.
LostEvidence(o) ==
    /\ participants[o] = "none"
    /\ DeclaresSql(o)
    /\ intents[o].phase \in {"registry_applied", "committed"}

Refused(o) ==
    \/ journal[o] = "none"
    \/ LostEvidence(o)
    \/ PreCommit(o) /\ journal[o] = "succeeded"

\* Mutant: the decision is taken for made once the database is prepared.
RecoverByParticipant(o) ==
    /\ pc = "recover" /\ o \in Open /\ ~Refused(o)
    /\ pc' = IF participants[o] = "prepared" THEN "commit_sql"
             ELSE IF PreCommit(o) THEN "rollback_sql"
             ELSE IF DeclaresSql(o) THEN "commit_sql" ELSE "postcondition"
    /\ cur' = o
    /\ UNCHANGED <<registry, fileVars, localVars, dbVars, req, recovering, left>>

\* Mutant: a committed intent is rolled back like any other.
RecoverBackward(o) ==
    /\ pc = "recover" /\ o \in Open /\ ~Refused(o)
    /\ pc' = "rollback_sql" /\ cur' = o
    /\ UNCHANGED <<registry, fileVars, localVars, dbVars, req, recovering, left>>

RecoverIntent(o) ==
    /\ pc = "recover" /\ o \in Open /\ ~Refused(o)
    /\ pc' = IF PreCommit(o) THEN "rollback_sql"
             ELSE IF DeclaresSql(o) THEN "commit_sql" ELSE "postcondition"
    /\ cur' = o
    /\ UNCHANGED <<registry, fileVars, localVars, dbVars, req, recovering, left>>

\* An intent or an orphan participant record that needs an operator's repair.
RecoverRefused ==
    /\ pc = "recover"
    /\ \/ \E o \in Open : Refused(o)
       \/ Open = {} /\ \E o \in Op : participants[o] # "none"
    /\ Return
    /\ UNCHANGED <<registry, fileVars, localVars, dbVars>>

\* Operations that were interrupted before they had an intent.
RecoverDone ==
    /\ pc = "recover" /\ Open = {}
    /\ \A o \in Op : participants[o] = "none"
    /\ journal' = [o \in Op |-> IF journal[o] = "started" THEN "failed" ELSE journal[o]]
    /\ IF req = None THEN Return
       ELSE /\ pc' = "begin" /\ cur' = req /\ recovering' = FALSE
            /\ UNCHANGED <<req, left>>
    /\ UNCHANGED <<registry, fileVars, intents, participants, dbVars>>

\* The journal says the operation succeeded: the call reports it again.  For
\* uninstall it also drops the package's database owner again.
Replay ==
    /\ pc = "begin" /\ journal[cur] = "succeeded"
    /\ schema' = IF ActionOf(cur) = "uninstall" /\ Pkg(cur) \notin Installed(registry)
                 THEN schema \ Owned(Pkg(cur)) ELSE schema
    /\ Return
    /\ UNCHANGED <<registry, fileVars, localVars, prepared, ledger, attempts>>

Begin ==
    /\ pc = "begin" /\ journal[cur] # "succeeded"
    /\ SetJournal("started")
    /\ Goto("check")
    /\ UNCHANGED <<registry, fileVars, intents, participants, dbVars>>

\* An install finds no tree; every other action finds an intact one.
FilesOK ==
    IF ActionOf(cur) = "install" THEN Path = NoTree
    ELSE Path = registry[Pkg(cur)].version

Acceptable == Accepts(registry, Request[cur]) /\ FilesOK

Accept ==
    /\ pc = "check" /\ Acceptable
    /\ Goto(IF ActionOf(cur) = "uninstall" THEN "reset_occupancy" ELSE "write_intent")
    /\ UNCHANGED <<registry, fileVars, localVars, dbVars>>

ResetOccupancy ==
    /\ pc = "reset_occupancy"
    /\ Goto(IF ActionOf(cur) = "uninstall" THEN "write_intent" ELSE "apply")
    /\ UNCHANGED <<registry, fileVars, localVars, dbVars>>

\* Without an intent there is nothing to roll back.
FailWithoutIntent ==
    /\ SetJournal("failed")
    /\ Return
    /\ UNCHANGED <<registry, fileVars, intents, participants, dbVars>>

Reject == pc = "check" /\ ~Acceptable /\ FailWithoutIntent

\* The signer, theme and store policies may refuse anything; the occupancy reset
\* of an uninstall and the write of the intent may fail.
Refuse ==
    /\ \/ pc \in {"check", "write_intent"}
       \/ pc = "reset_occupancy" /\ ActionOf(cur) = "uninstall"
    /\ FailWithoutIntent

-----------------------------------------------------------------------------
(* _install_or_update and _execute, up to the commit decision.             *)

WriteIntent ==
    /\ pc = "write_intent"
    /\ intents' = [intents EXCEPT ![cur] =
                      [phase |-> "prepared", before |-> registry,
                       after |-> After(registry, Request[cur])]]
    /\ Goto(IF ActionOf(cur) \in {"install", "update"} THEN "stage" ELSE "apply")
    /\ UNCHANGED <<registry, fileVars, journal, participants, dbVars>>

\* Extraction, then the artifact marker that makes the tree a whole one.
Stage ==
    /\ \/ /\ pc = "stage"
          /\ stage' = [stage EXCEPT ![cur] = Damaged]
          /\ Goto("extract")
       \/ /\ pc = "extract"
          /\ stage' = [stage EXCEPT ![cur] = Request[cur].version]
          /\ Goto(IF ActionOf(cur) = "install" THEN "reset_occupancy" ELSE "apply")
    /\ UNCHANGED <<registry, files, backup, localVars, dbVars>>

MoveToBackup ==
    /\ Path # NoTree /\ backup[cur] = NoTree
    /\ backup' = [backup EXCEPT ![cur] = Path]
    /\ files' = [files EXCEPT ![Pkg(cur)] = NoTree]

MoveFromStage ==
    /\ stage[cur] # NoTree /\ Path = NoTree
    /\ files' = [files EXCEPT ![Pkg(cur)] = stage[cur]]
    /\ stage' = [stage EXCEPT ![cur] = NoTree]

\* An update is two renames; between them the package has no tree.
ApplyFiles ==
    /\ \/ /\ pc = "apply"
          /\ CASE ActionOf(cur) = "install" ->
                      MoveFromStage /\ Goto("files_applied") /\ UNCHANGED backup
               [] ActionOf(cur) = "update" ->
                      MoveToBackup /\ Goto("apply_stage") /\ UNCHANGED stage
               [] ActionOf(cur) = "uninstall" ->
                      MoveToBackup /\ Goto("files_applied") /\ UNCHANGED stage
               [] OTHER -> Goto("files_applied") /\ UNCHANGED fileVars
       \/ /\ pc = "apply_stage"
          /\ MoveFromStage /\ Goto("files_applied") /\ UNCHANGED backup
    /\ UNCHANGED <<registry, localVars, dbVars>>

FilesApplied ==
    /\ pc = "files_applied"
    /\ SetPhase("files_applied")
    /\ Goto(IF DeclaresSql(cur) THEN "sql_intent" ELSE "registry")
    /\ UNCHANGED <<registry, fileVars, journal, participants, dbVars>>

SqlIntent ==
    /\ pc = "sql_intent"
    /\ SetParticipant("preparing")
    /\ Goto("prepare")
    /\ UNCHANGED <<registry, fileVars, intents, journal, dbVars>>

\* prepare(): run the pending migrations on the owner's connection and PREPARE.
Prepare ==
    /\ pc = "prepare"
    /\ \A m \in MigrationsOf(cur) : ledger[m] # "applying"
    /\ LET pending == {m \in MigrationsOf(cur) : ledger[m] # "applied"} IN
          /\ prepared' = [prepared EXCEPT ![cur] = pending]
          /\ left' = pending
    /\ pc' = "started"
    /\ UNCHANGED <<registry, fileVars, localVars, schema, ledger, attempts,
                   req, cur, recovering>>

\* The run identifier is derived from the operation and the migration, and a
\* second row with the same one violates a unique constraint.
RecordStarted(m) ==
    /\ pc = "started" /\ m \in left
    /\ <<cur, m>> \notin attempts
    /\ attempts' = attempts \cup {<<cur, m>>}
    /\ left' = left \ {m}
    /\ UNCHANGED <<registry, fileVars, localVars, prepared, schema, ledger,
                   pc, req, cur, recovering>>

MarkApplying ==
    /\ pc = "started" /\ left = {}
    /\ ledger' = [m \in Migration |->
                     IF m \in prepared[cur] THEN "applying" ELSE ledger[m]]
    /\ Goto("sql_prepared")
    /\ UNCHANGED <<registry, fileVars, localVars, prepared, schema, attempts>>

SqlPrepared ==
    /\ pc = "sql_prepared"
    /\ SetParticipant("prepared")
    /\ Goto("registry")
    /\ UNCHANGED <<registry, fileVars, intents, journal, dbVars>>

WriteRegistry ==
    /\ pc = "registry"
    /\ registry' = intents[cur].after
    /\ Goto("registry_applied")
    /\ UNCHANGED <<fileVars, localVars, dbVars>>

RegistryApplied ==
    /\ pc = "registry_applied"
    /\ SetPhase("registry_applied")
    /\ Goto("commit")
    /\ UNCHANGED <<registry, fileVars, journal, participants, dbVars>>

\* The durable commit decision.
Commit ==
    /\ pc = "commit"
    /\ SetPhase("committed")
    /\ Goto(IF DeclaresSql(cur) THEN "commit_sql" ELSE "succeed")
    /\ UNCHANGED <<registry, fileVars, journal, participants, dbVars>>

RollBack ==
    /\ pc' = "rollback_sql" /\ left' = {}
    /\ UNCHANGED <<registry, fileVars, localVars, dbVars, req, cur, recovering>>

\* prepare() raises on a migration that is still applying and on a start that is
\* already recorded.  What it undoes itself, the rollback would undo as well.
PrepareRefused ==
    /\ \E m \in Migration :
          \/ pc = "prepare" /\ m \in MigrationsOf(cur) /\ ledger[m] = "applying"
          \/ pc = "started" /\ m \in left /\ <<cur, m>> \in attempts
    /\ RollBack

\* Any of the steps above that follows the intent may raise.
Fail ==
    /\ \/ pc \in {"stage", "extract", "apply", "apply_stage", "files_applied",
                  "sql_intent", "prepare", "started", "sql_prepared",
                  "registry", "registry_applied", "commit"}
       \/ pc = "reset_occupancy" /\ ActionOf(cur) = "install"
    /\ RollBack

-----------------------------------------------------------------------------
(* Forward completion, in _execute and in recovery.                        *)

PackageSqlRecoveryAction(o, committed) ==
    LET exists == prepared[o] # None IN
    CASE participants[o] = "preparing" ->
            IF committed THEN "raise"
            ELSE IF exists THEN "rollback_prepared" ELSE "verify_rolled_back"
      [] participants[o] = "prepared" ->
            IF exists THEN IF committed THEN "commit_prepared" ELSE "rollback_prepared"
            ELSE IF committed THEN "verify_finished" ELSE "verify_rolled_back"
      [] participants[o] = "finished" ->
            IF exists \/ ~committed THEN "raise" ELSE "verify_finished"
      [] participants[o] = "none" -> IF exists THEN "raise" ELSE "none"

CommitSql ==
    /\ pc = "commit_sql"
    /\ LET action == PackageSqlRecoveryAction(cur, TRUE) IN
       \/ /\ action = "commit_prepared"
          /\ schema' = schema \cup prepared[cur]
          /\ prepared' = [prepared EXCEPT ![cur] = None]
          /\ Goto("mark_applied")
       \/ /\ action = "verify_finished"
          /\ Goto("mark_applied")
          /\ UNCHANGED <<schema, prepared>>
       \/ /\ action = "raise"
          /\ Return
          /\ UNCHANGED <<schema, prepared>>
    /\ UNCHANGED <<registry, fileVars, localVars, ledger, attempts>>

MarkApplied ==
    /\ pc = "mark_applied"
    /\ IF \A m \in MigrationsOf(cur) : ledger[m] \in {"applying", "applied"}
       THEN /\ ledger' = [m \in Migration |->
                             IF m \in MigrationsOf(cur) THEN "applied" ELSE ledger[m]]
            /\ Goto("sql_finished")
       ELSE /\ Return
            /\ UNCHANGED ledger
    /\ UNCHANGED <<registry, fileVars, localVars, prepared, schema, attempts>>

SqlFinished ==
    /\ pc = "sql_finished"
    /\ SetParticipant("finished")
    /\ Goto(IF recovering THEN "postcondition" ELSE "succeed")
    /\ UNCHANGED <<registry, fileVars, intents, journal, dbVars>>

PostconditionOK ==
    /\ registry = intents[cur].after
    /\ ActionOf(cur) \in {"install", "update"} => Path = Request[cur].version
    /\ ActionOf(cur) = "uninstall" => Path = NoTree

Postcondition ==
    /\ pc = "postcondition"
    /\ IF PostconditionOK THEN Goto("succeed") ELSE Return
    /\ UNCHANGED <<registry, fileVars, localVars, dbVars>>

\* Mutant: an operation whose success is already journalled cannot be completed.
SucceedOnce ==
    /\ pc = "succeed"
    /\ IF journal[cur] = "started"
       THEN SetJournal("succeeded") /\ Goto("release_owner")
       ELSE Return /\ UNCHANGED journal
    /\ UNCHANGED <<registry, fileVars, intents, participants, dbVars>>

Succeed ==
    /\ pc = "succeed"
    /\ IF journal[cur] \in {"started", "succeeded"}
       THEN SetJournal("succeeded") /\ Goto("release_owner")
       ELSE Return /\ UNCHANGED journal
    /\ UNCHANGED <<registry, fileVars, intents, participants, dbVars>>

-----------------------------------------------------------------------------
(* _cleanup_intent, after a commit or a rollback.                          *)

ReleaseOwner ==
    /\ pc = "release_owner"
    /\ schema' = IF ActionOf(cur) = "uninstall" /\ Committed(cur)
                 THEN schema \ Owned(Pkg(cur)) ELSE schema
    /\ Goto("unlink_participant")
    /\ UNCHANGED <<registry, fileVars, localVars, prepared, ledger, attempts>>

UnlinkParticipant ==
    /\ pc = "unlink_participant"
    /\ SetParticipant("none")
    /\ Goto("remove_stage")
    /\ UNCHANGED <<registry, fileVars, intents, journal, dbVars>>

\* rmtree of the tree t: one step to damage it, one for it to be gone.
Removal(t) == IF t \in Version THEN Damaged ELSE NoTree

\* Mutant: the backup is forgotten.
RemoveStageOnly ==
    /\ pc \in {"remove_stage", "discard_stage"}
    /\ stage' = [stage EXCEPT ![cur] = Removal(@)]
    /\ Goto(IF stage[cur] \in Version THEN pc
            ELSE IF pc = "remove_stage" THEN "unlink_intent" ELSE "restore_registry")
    /\ UNCHANGED <<registry, files, backup, localVars, dbVars>>

RemoveStage ==
    /\ pc \in {"remove_stage", "discard_stage"}
    /\ stage' = [stage EXCEPT ![cur] = Removal(@)]
    /\ Goto(IF stage[cur] \in Version THEN pc
            ELSE IF pc = "remove_stage" THEN "remove_backup" ELSE "restore_registry")
    /\ UNCHANGED <<registry, files, backup, localVars, dbVars>>

RemoveBackup ==
    /\ pc = "remove_backup"
    /\ backup' = [backup EXCEPT ![cur] = Removal(@)]
    /\ Goto(IF backup[cur] \in Version THEN pc ELSE "unlink_intent")
    /\ UNCHANGED <<registry, files, stage, localVars, dbVars>>

UnlinkIntent ==
    /\ pc = "unlink_intent"
    /\ intents' = [intents EXCEPT ![cur] = None]
    /\ IF recovering
       THEN pc' = "recover" /\ cur' = None /\ UNCHANGED <<req, recovering, left>>
       ELSE Return
    /\ UNCHANGED <<registry, fileVars, journal, participants, dbVars>>

-----------------------------------------------------------------------------
(* Rollback, after a failed step and in recovery.                          *)

RollbackSql ==
    /\ pc = "rollback_sql"
    /\ LET action == PackageSqlRecoveryAction(cur, FALSE) IN
       \/ /\ action = "rollback_prepared"
          /\ prepared' = [prepared EXCEPT ![cur] = None]
          /\ Goto("mark_rolled_back")
       \/ /\ action = "verify_rolled_back"
          /\ Goto("mark_rolled_back")
          /\ UNCHANGED prepared
       \/ /\ action = "none"
          /\ Goto("restore_files")
          /\ UNCHANGED prepared
       \/ /\ action = "raise"
          /\ Return
          /\ UNCHANGED prepared
    /\ UNCHANGED <<registry, fileVars, localVars, schema, ledger, attempts>>

MarkRolledBack ==
    /\ pc = "mark_rolled_back"
    /\ ledger' = [m \in Migration |->
                     IF m \in MigrationsOf(cur) /\ ledger[m] \in {"applying", "failed"}
                     THEN "failed" ELSE ledger[m]]
    /\ Goto("restore_files")
    /\ UNCHANGED <<registry, fileVars, localVars, prepared, schema, attempts>>

\* Mutant: the tree goes away although nothing has been moved to the backup yet.
AnythingInTheWay ==
    /\ Path # NoTree
    /\ ActionOf(cur) \in {"install", "update", "uninstall"}

\* What the transaction put at the package's path goes away: for an update or an
\* uninstall only when there is a backup to put back.
InTheWay ==
    /\ Path # NoTree
    /\ \/ ActionOf(cur) = "install" /\ Pkg(cur) \notin Installed(intents[cur].before)
       \/ ActionOf(cur) \in {"update", "uninstall"} /\ backup[cur] # NoTree

RemovePackageTree ==
    /\ pc = "restore_files" /\ InTheWay
    /\ files' = [files EXCEPT ![Pkg(cur)] = Removal(@)]
    /\ UNCHANGED <<registry, stage, backup, localVars, dbVars, pc, callVars>>

RestoreBackup ==
    /\ pc = "restore_files" /\ ~InTheWay
    /\ IF backup[cur] # NoTree
       THEN /\ files' = [files EXCEPT ![Pkg(cur)] = backup[cur]]
            /\ backup' = [backup EXCEPT ![cur] = NoTree]
       ELSE UNCHANGED <<files, backup>>
    /\ Goto("discard_stage")
    /\ UNCHANGED <<registry, stage, localVars, dbVars>>

\* Mutant: packages.json is left as the failed operation wrote it.
KeepRegistry ==
    /\ pc = "restore_registry"
    /\ Goto("rolled_back")
    /\ UNCHANGED <<registry, fileVars, localVars, dbVars>>

RestoreRegistry ==
    /\ pc = "restore_registry"
    /\ registry' = intents[cur].before
    /\ Goto("rolled_back")
    /\ UNCHANGED <<fileVars, localVars, dbVars>>

RolledBack ==
    /\ pc = "rolled_back"
    /\ SetPhase("rolled_back")
    /\ Goto("mark_failed")
    /\ UNCHANGED <<registry, fileVars, journal, participants, dbVars>>

MarkFailed ==
    /\ pc = "mark_failed"
    /\ SetJournal(IF journal[cur] = "started" THEN "failed" ELSE journal[cur])
    /\ Goto("release_owner")
    /\ UNCHANGED <<registry, fileVars, intents, participants, dbVars>>

-----------------------------------------------------------------------------

Crash ==
    /\ pc \notin {"idle", "down"}
    /\ End("down")
    /\ UNCHANGED <<registry, fileVars, localVars, dbVars>>

\* Emergency containment (packages.py) takes the same two locks, but does not look
\* whether a transaction is open and recovers none.
Quarantine(p) ==
    /\ pc \in {"idle", "down"}
    /\ CanQuarantine(registry, p)
    /\ registry' = Quarantined(registry, p)
    /\ Return
    /\ UNCHANGED <<fileVars, localVars, dbVars>>

RecoverStep ==
    \/ \E o \in Op : RecoverIntent(o)
    \/ RecoverRefused
    \/ RecoverDone

StartStep ==
    \/ Replay \/ Begin \/ Accept \/ Reject \/ ResetOccupancy

ForwardStep ==
    \/ WriteIntent \/ Stage \/ ApplyFiles \/ FilesApplied
    \/ SqlIntent \/ Prepare \/ MarkApplying \/ SqlPrepared
    \/ (\E m \in Migration : RecordStarted(m)) \/ PrepareRefused
    \/ WriteRegistry \/ RegistryApplied \/ Commit

CompletionStep ==
    \/ CommitSql \/ MarkApplied \/ SqlFinished \/ Postcondition \/ Succeed

RollbackStep ==
    \/ RollbackSql \/ MarkRolledBack \/ RemovePackageTree \/ RestoreBackup
    \/ RestoreRegistry \/ RolledBack \/ MarkFailed

CleanupStep ==
    \/ ReleaseOwner \/ UnlinkParticipant \/ RemoveStage \/ RemoveBackup \/ UnlinkIntent

\* What the manager does of its own accord once it has been called.
Step ==
    \/ RecoverStep \/ StartStep \/ ForwardStep
    \/ CompletionStep \/ RollbackStep \/ CleanupStep

Next ==
    \/ \E o \in Op \cup {None} : Call(o)
    \/ Step
    \/ Refuse \/ Fail
    \/ Crash
    \/ \E p \in Package : Quarantine(p)

Spec == Init /\ [][Next]_vars

\* The manager runs its calls to their end, it is called again and again, and it
\* is not interrupted for ever: the process dies only finitely often.
LiveSpec ==
    /\ Spec
    /\ WF_vars(Step)
    /\ WF_vars(\E o \in Op \cup {None} : Call(o))
    /\ <>[](pc # "down")

-----------------------------------------------------------------------------
(* Properties.                                                             *)

\* Until the commit decision the abstract registry is the one the transaction
\* started from, whatever packages.json holds at the moment.
Abstract == INSTANCE PackageRegistry WITH
    registry <- IF \E o \in Op : PreCommit(o)
                THEN intents[CHOOSE o \in Op : PreCommit(o)].before
                ELSE registry,
    done <- {o \in Op : journal[o] = "succeeded" \/ Committed(o)}

\* Through crashes, failures, rollbacks and replays, callers see operations that
\* are atomic and take effect at most once per identifier (class docstring of
\* TransactionalPackageManager).
IsAtomic == Abstract!Spec

\* Recovery runs before every operation, so two transactions are never open.
AtMostOneIntent == \A o, q \in Open : o = q

\* What _cleanup_intent and the rollback leave when an operation's intent is gone:
\* no staging or backup tree, no participant record and no prepared transaction.
NothingLeftBehind ==
    \A o \in Op \ Open :
        /\ stage[o] = NoTree /\ backup[o] = NoTree
        /\ participants[o] = "none" /\ prepared[o] = None

\* With no transaction open, the package trees are whole and are those of the
\* versions in packages.json, and the ledger has no migration in flight.
TreesMatchRegistry ==
    Open = {} => /\ \A p \in Package : files[p] = registry[p].version
                 /\ \A m \in Migration : ledger[m] # "applying"

\* _apply_files and _rollback_intent: until the decision is made the version that
\* was installed exists undamaged, at the package's path or as the backup, even
\* when the rollback is itself interrupted and repeated.
OldVersionSurvives ==
    \A o \in Op : PreCommit(o) /\ ActionOf(o) \in {"update", "uninstall"} =>
        intents[o].before[Pkg(o)].version \in {files[Pkg(o)], backup[o]}

\* Two-phase commit: the prepared database transaction ends the way the intent
\* was decided, committed exactly when the intent says so.
DecisionIsRespected ==
    [][\A o \in Op :
          prepared[o] # None /\ prepared'[o] = None =>
             IF Committed(o) THEN prepared[o] \subseteq schema' ELSE schema' = schema]_vars

\* "A crash before the committed intent rolls back; a crash after it completes
\* forward" (package_lifecycle.py:102): every open transaction is eventually
\* resolved, but for a committed one that every later recovery refuses: its cleanup
\* was interrupted after it removed the participant record
\* (package_sql_lifecycle.py:228), or a quarantine changed the registry before
\* _postcondition (package_lifecycle.py:721) compared it with registry_after.
Unrecoverable(o) == Committed(o) /\ (LostEvidence(o) \/ registry # intents[o].after)

RecoveryCompletes ==
    \A o \in Op : o \in Open ~> (o \notin Open \/ Unrecoverable(o))

\* An installed package finds the schema its migrations created.
SchemaIsComplete ==
    Open = {} => \A p \in Installed(registry) :
                    ManifestOf(registry, p).migrations \subseteq schema
=================================================================================
