------------------------- MODULE PackageLifecycleProofs -------------------------
(***************************************************************************)
(* Proofs about PackageLifecycle, for every set of packages, manifests,    *)
(* migrations and operations: the crash-safety invariants, the two-phase   *)
(* commit and, step by step, that the transaction implements the atomic    *)
(* package registry of PackageRegistry.                                    *)
(*                                                                         *)
(* What is durable is not enough to say what may happen next, and where    *)
(* the running operation is says nothing after a crash.  So the inductive  *)
(* invariant has two layers: what an open intent's phase alone guarantees  *)
(* of the registry, the trees and the database (Durable), which is all a   *)
(* recovery may rely on, and what the running operation knows on top of it *)
(* from its place (the other parts).                                       *)
(***************************************************************************)
EXTENDS PackageLifecycle, TLAPS

\* Before the intent is written.
Early ==
    \/ pc \in {"begin", "check", "write_intent"}
    \/ pc = "reset_occupancy" /\ ActionOf(cur) = "uninstall"

ForwardPC == {"stage", "extract", "apply", "apply_stage", "files_applied",
              "sql_intent", "prepare", "started", "sql_prepared",
              "registry", "registry_applied", "commit"}

Forward ==
    \/ pc \in ForwardPC
    \/ pc = "reset_occupancy" /\ ActionOf(cur) = "install"

CompletionPC == {"commit_sql", "mark_applied", "sql_finished", "postcondition", "succeed"}

RollbackPC == {"rollback_sql", "mark_rolled_back", "restore_files", "discard_stage",
               "restore_registry", "rolled_back", "mark_failed"}

CleanupPC == {"release_owner", "unlink_participant", "remove_stage",
              "remove_backup", "unlink_intent"}

Busy == Forward \/ pc \in CompletionPC \cup RollbackPC \cup CleanupPC

Undecided == {"prepared", "files_applied", "registry_applied"}

\* The locks: a call is somewhere in its operation or not running at all.
Control ==
    /\ cur = None <=> pc \in {"idle", "down", "recover"}
    /\ pc = "reset_occupancy" => ActionOf(cur) \in {"install", "uninstall"}

\* An operation without an intent runs alone, one with an intent runs on it.
OneIntent ==
    /\ \A o, q \in Open : o = q
    /\ Early => Open = {}
    /\ Busy => cur \in Open

\* The phase of the intent at each place of the running operation.
PhaseAt ==
    /\ Forward => intents[cur].phase \in Undecided
    /\ pc \in CompletionPC => intents[cur].phase = "committed"
    /\ pc \in RollbackPC => intents[cur].phase # "committed"
    /\ pc = "mark_failed" => intents[cur].phase = "rolled_back"
    /\ pc \in CleanupPC => intents[cur].phase \in {"committed", "rolled_back"}

\* The transaction was accepted in the registry it started from.
IntentAccepted ==
    /\ \A o \in Open : /\ Accepts(intents[o].before, Request[o])
                       /\ intents[o].after = After(intents[o].before, Request[o])
    /\ Early /\ pc \notin {"begin", "check"} => Accepts(registry, Request[cur])

\* A quarantine between two calls leaves nothing of packages.json for certain but
\* the versions.
HasVersions(reg) == \A p \in Package : registry[p].version = reg[p].version

RegistryByPhase ==
    \A o \in Open :
        /\ intents[o].phase \in Undecided =>
              HasVersions(intents[o].before) \/ HasVersions(intents[o].after)
        /\ intents[o].phase = "committed" => HasVersions(intents[o].after)
        /\ intents[o].phase = "rolled_back" => HasVersions(intents[o].before)

\* packages.json, by phase and by place.
RegistryAt ==
    /\ RegistryByPhase
    /\ pc \in {"registry_applied", "commit"} => registry = intents[cur].after
    /\ pc \in {"rolled_back", "mark_failed"} => registry = intents[cur].before
    /\ pc \in CleanupPC /\ intents[cur].phase = "rolled_back" => registry = intents[cur].before

\* While nothing is decided, the old tree is at its place or in the backup.
OldTree(o) ==
    LET old == intents[o].before[Pkg(o)].version IN
    CASE ActionOf(o) = "install" -> backup[o] = NoTree
      [] ActionOf(o) \in {"update", "uninstall"} ->
            backup[o] = old \/ (backup[o] = NoTree /\ files[Pkg(o)] = old)
      [] OTHER -> backup[o] = NoTree /\ files[Pkg(o)] = old

Untouched(o) == files[Pkg(o)] = intents[o].before[Pkg(o)].version /\ backup[o] = NoTree

Applied(o) == files[Pkg(o)] = intents[o].after[Pkg(o)].version

\* The package trees, by phase.
TreesByPhase ==
    /\ Open = {} => \A p \in Package : files[p] = registry[p].version
    /\ \A o \in Open :
          /\ \A p \in Package \ {Pkg(o)} : files[p] = intents[o].before[p].version
          /\ intents[o].phase \in Undecided => OldTree(o)
          /\ intents[o].phase = "committed" => Applied(o)
          /\ intents[o].phase = "rolled_back" => Untouched(o)

\* The package trees, by place.
TreesAt ==
    /\ pc \in {"stage", "extract"} => ActionOf(cur) \in {"install", "update"}
    /\ pc \in {"stage", "extract", "apply"} => Untouched(cur)
    /\ pc = "reset_occupancy" /\ ActionOf(cur) = "install" =>
          Untouched(cur) /\ stage[cur] = Request[cur].version
    /\ pc = "apply" /\ ActionOf(cur) \in {"install", "update"} =>
          stage[cur] = Request[cur].version
    /\ pc = "apply_stage" => ActionOf(cur) = "update" /\ stage[cur] = Request[cur].version
    /\ pc \in ForwardPC \ {"stage", "extract", "apply", "apply_stage"} => Applied(cur)
    /\ pc \in {"discard_stage", "restore_registry", "rolled_back"} => Untouched(cur)
    /\ pc \in {"remove_backup", "unlink_intent"} => stage[cur] = NoTree
    /\ pc = "unlink_intent" => backup[cur] = NoTree

Resolved == {"mark_applied", "sql_finished", "postcondition", "succeed",
             "mark_rolled_back", "restore_files", "discard_stage",
             "restore_registry", "rolled_back", "mark_failed"} \cup CleanupPC

\* The database participant: a prepared transaction belongs to the open intent,
\* has a participant record and is resolved before the operation goes on.
Participant ==
    /\ \A o \in Op : participants[o] # "none" => DeclaresSql(o)
    /\ \A o \in Op : prepared[o] # None =>
          /\ participants[o] # "none"
          /\ prepared[o] \subseteq MigrationsOf(o)
    /\ pc \in {"sql_intent", "prepare", "started", "sql_prepared",
              "commit_sql", "mark_applied", "sql_finished"} => DeclaresSql(cur)
    /\ pc \in {"prepare", "started", "sql_prepared"} => participants[cur] # "none"
    /\ pc = "started" => prepared[cur] # None
    /\ pc \in Resolved => prepared[cur] = None
    /\ pc \in {"remove_stage", "remove_backup", "unlink_intent"} => participants[cur] = "none"

InFlight(m) == ledger[m] = "applying"

\* The ledger: a migration in flight belongs to an open intent that still has its
\* participant record, and to none once the ledger was brought up to date.
LedgerAt ==
    /\ \A m \in Migration : InFlight(m) =>
          \E o \in Open : m \in MigrationsOf(o) /\ participants[o] # "none"
    /\ pc \in Resolved \ {"mark_applied", "mark_rolled_back"} =>
          \A m \in Migration : ~InFlight(m)

\* The operation journal: no success before the decision, none without one after.
JournalAt ==
    /\ \A o \in Op : PreCommit(o) => journal[o] # "succeeded"
    /\ Early /\ pc # "begin" => journal[cur] # "succeeded"
    /\ pc \in CleanupPC /\ Committed(cur) => journal[cur] = "succeeded"

Inv ==
    /\ TypeOK /\ Control /\ OneIntent /\ PhaseAt /\ IntentAccepted /\ RegistryAt
    /\ TreesByPhase /\ TreesAt /\ NothingLeftBehind
    /\ Participant /\ LedgerAt /\ JournalAt

USE DEF Early, Forward, Busy, ForwardPC, CompletionPC, RollbackPC, CleanupPC, Resolved,
        Undecided, RegistryByPhase, HasVersions, fileVars, localVars, dbVars, callVars

-----------------------------------------------------------------------------
(* The operators.                                                          *)

\* What an accepted operation does to the registry.
LEMMA AcceptedChange ==
    ASSUME NEW reg \in Registry, NEW r \in Requests, Accepts(reg, r)
    PROVE  /\ After(reg, r) \in Registry
           /\ \A q \in Package \ {r.package} : After(reg, r)[q] = reg[q]
           /\ r.action = "install" => /\ r.package \notin Installed(reg)
                                      /\ reg[r.package].version = NoTree
           /\ r.action # "install" => reg[r.package].version \in Version
           /\ r.action \in {"install", "update"} =>
                 After(reg, r)[r.package].version = r.version
           /\ r.action \in {"enable", "disable"} =>
                 After(reg, r)[r.package].version = reg[r.package].version
           /\ r.action = "uninstall" => After(reg, r)[r.package].version = NoTree
  <1> DEFINE old == reg[r.package]
             new == After(reg, r)[r.package]
  <1>1. r.package \in Package /\ r.version \in Version /\ r.action \in Action
    BY DEF Requests
  <1>2. old \in PackageRecord
    BY <1>1 DEF Registry
  <1>3. /\ r.action = "install" => old.status = "absent"
        /\ r.action # "install" => old.status # "absent"
    BY <1>1 DEF Accepts, CanInstall, CanUpdate, CanEnable, CanDisable, CanUninstall, Installed
  <1>4. /\ old.status = "absent" => old.version = 0
        /\ old.status # "absent" => /\ old.version \in Version
                                    /\ old.status \in {"installed", "enabled", "disabled"}
                                    /\ old = [version |-> old.version, status |-> old.status]
    BY <1>2 DEF PackageRecord, Absent
  <1>5. /\ r.action = "install" => new = [version |-> r.version, status |-> "installed"]
        /\ r.action = "update" => new = [old EXCEPT !.version = r.version]
        /\ r.action = "enable" => new = [old EXCEPT !.status = "enabled"]
        /\ r.action = "disable" => new = [old EXCEPT !.status = "disabled"]
        /\ r.action = "uninstall" => new = Absent
    BY <1>1 DEF After, Registry
  <1>6. \A q \in Package \ {r.package} : After(reg, r)[q] = reg[q]
    BY DEF After, Registry
  <1>7. /\ new \in PackageRecord
        /\ r.action \in {"install", "update"} => new.version = r.version
        /\ r.action \in {"enable", "disable"} => new.version = old.version
        /\ r.action = "uninstall" => new.version = NoTree
    <2> HIDE DEF new, old
    <2>1. CASE r.action = "install"
      BY <2>1, <1>1, <1>5 DEF PackageRecord
    <2>2. CASE r.action = "update"
      <3>1. new = [version |-> r.version, status |-> old.status]
        BY <2>2, <1>3, <1>4, <1>5
      <3> QED  BY <3>1, <2>2, <1>1, <1>3, <1>4 DEF PackageRecord
    <2>3. CASE r.action \in {"enable", "disable"}
      <3>1. \/ new = [version |-> old.version, status |-> "enabled"]
            \/ new = [version |-> old.version, status |-> "disabled"]
        BY <2>3, <1>3, <1>4, <1>5
      <3>2. old.version \in Version
        BY <2>3, <1>3, <1>4
      <3> QED  BY <3>1, <3>2, <2>3 DEF PackageRecord
    <2>4. CASE r.action = "uninstall"
      BY <2>4, <1>5 DEF PackageRecord, Absent, NoTree
    <2> QED  BY <1>1, <2>1, <2>2, <2>3, <2>4 DEF Action
  <1>8. After(reg, r) = [q \in Package |-> After(reg, r)[q]]
    <2>1. \A x : [reg EXCEPT ![r.package] = x]
                  = [q \in Package |-> [reg EXCEPT ![r.package] = x][q]]
      BY DEF Registry
    <2> QED  BY <2>1 DEF After
  <1>9. \A q \in Package : After(reg, r)[q] \in PackageRecord
    BY <1>6, <1>7 DEF Registry
  <1>10. After(reg, r) \in Registry
    BY <1>8, <1>9 DEF Registry
  <1>11. r.action = "install" => r.package \notin Installed(reg)
    BY <1>3 DEF Installed
  <1> QED  BY <1>3, <1>4, <1>6, <1>7, <1>10, <1>11 DEF NoTree

\* Version numbers are neither of the two special trees, and rmtree ends at none.
LEMMA TreeFacts ==
    /\ NoTree \notin Version /\ Damaged \notin Version /\ Damaged # NoTree
    /\ Version \cup {NoTree, Damaged} = Tree
    /\ \A t \in Tree : Removal(t) \in Tree /\ (t \notin Version => Removal(t) = NoTree)
  BY ManifestAssumption DEF Version, NoTree, Damaged, Tree, Removal

\* An operation's request, and the package it is about.
LEMMA RequestFacts ==
    ASSUME NEW o \in Op
    PROVE  /\ Request[o] \in Requests /\ Pkg(o) \in Package
           /\ Request[o].version \in Version /\ ActionOf(o) \in Action
  BY RequestAssumption DEF Requests, Pkg, ActionOf

\* Every version of a package carries migrations.
LEMMA MigrationFacts ==
    ASSUME NEW o \in Op
    PROVE  MigrationsOf(o) \subseteq Migration
  BY RequestFacts, ManifestAssumption DEF MigrationsOf

\* An open intent: the change it stands for, package by package.
LEMMA OpenFacts ==
    ASSUME TypeOK, IntentAccepted, NEW o \in Open
    PROVE  /\ o \in Op /\ intents[o] \in Intent
           /\ intents[o].before \in Registry /\ intents[o].after \in Registry
           /\ intents[o].phase \in Phase
           /\ \A p \in Package \ {Pkg(o)} : intents[o].after[p] = intents[o].before[p]
           /\ ActionOf(o) = "install" => /\ Pkg(o) \notin Installed(intents[o].before)
                                         /\ intents[o].before[Pkg(o)].version = NoTree
           /\ ActionOf(o) # "install" => intents[o].before[Pkg(o)].version \in Version
           /\ ActionOf(o) \in {"install", "update"} =>
                 intents[o].after[Pkg(o)].version = Request[o].version
           /\ ActionOf(o) \in {"enable", "disable"} =>
                 intents[o].after[Pkg(o)].version = intents[o].before[Pkg(o)].version
           /\ ActionOf(o) = "uninstall" => intents[o].after[Pkg(o)].version = NoTree
  <1>1. o \in Op /\ intents[o] \in Intent
    BY DEF TypeOK, Open
  <1>2. intents[o].before \in Registry /\ intents[o].after \in Registry /\ intents[o].phase \in Phase
    BY <1>1 DEF Intent
  <1>3. Request[o] \in Requests
    BY <1>1, RequestFacts
  <1>4. Accepts(intents[o].before, Request[o])
        /\ intents[o].after = After(intents[o].before, Request[o])
    BY DEF IntentAccepted
  <1> QED  BY <1>1, <1>2, <1>3, <1>4, AcceptedChange DEF ActionOf, Pkg

\* save of the intent with another phase.
LEMMA SetPhaseFacts ==
    ASSUME TypeOK, cur \in Open, NEW phase \in Phase, SetPhase(phase)
    PROVE  /\ intents' \in [Op -> {None} \cup Intent]
           /\ Open' = Open /\ cur \in Op
           /\ \A o \in Op \ {cur} : intents'[o] = intents[o]
           /\ intents'[cur].phase = phase
           /\ \A o \in Op : /\ intents'[o].before = intents[o].before
                            /\ intents'[o].after = intents[o].after
  <1>1. cur \in Op /\ intents[cur] \in Intent /\ intents \in [Op -> {None} \cup Intent]
    BY DEF TypeOK, Open
  <1> DEFINE new == [intents[cur] EXCEPT !.phase = phase]
  <1>2. new = [phase |-> phase, before |-> intents[cur].before, after |-> intents[cur].after]
    BY <1>1 DEF Intent
  <1>3. new \in Intent
    BY <1>1, <1>2 DEF Intent
  <1>4. new # None
    BY <1>3, RequestAssumption
  <1>5. new.phase = phase /\ new.before = intents[cur].before /\ new.after = intents[cur].after
    BY <1>2
  <1>6. intents' = [intents EXCEPT ![cur] = new]
    BY DEF SetPhase
  <1> HIDE DEF new
  <1>7. intents' \in [Op -> {None} \cup Intent]
    BY <1>1, <1>3, <1>6
  <1>8. intents'[cur] = new /\ \A o \in Op \ {cur} : intents'[o] = intents[o]
    BY <1>1, <1>6
  <1>9. Open' = Open
    BY <1>1, <1>4, <1>8 DEF Open
  <1> QED  BY <1>1, <1>5, <1>7, <1>8, <1>9

-----------------------------------------------------------------------------
(* The inductive invariant: the steps that leave every durable thing alone. *)

durable == <<registry, fileVars, localVars, dbVars>>

\* What does not depend on the place of the running operation.
Durable ==
    /\ \A o, q \in Open : o = q
    /\ \A o \in Open : /\ Accepts(intents[o].before, Request[o])
                       /\ intents[o].after = After(intents[o].before, Request[o])
    /\ RegistryByPhase /\ TreesByPhase /\ NothingLeftBehind
    /\ \A o \in Op : participants[o] # "none" => DeclaresSql(o)
    /\ \A o \in Op : prepared[o] # None =>
          /\ participants[o] # "none"
          /\ prepared[o] \subseteq MigrationsOf(o)
    /\ \A m \in Migration : InFlight(m) =>
          \E o \in Open : m \in MigrationsOf(o) /\ participants[o] # "none"
    /\ \A o \in Op : PreCommit(o) => journal[o] # "succeeded"

\* A step of the program counter alone keeps what holds of the durable state.
LEMMA DurableFrame ==
    ASSUME Inv, UNCHANGED durable
    PROVE  Durable' /\ Open' = Open
  <1>1. Durable
    BY DEF Inv, Durable, OneIntent, IntentAccepted, RegistryAt, Participant, LedgerAt, JournalAt
  <1>2. Open' = Open
    BY DEF durable, Open
  <1>3. TreesByPhase'
    BY <1>1, <1>2 DEF durable, Durable, TreesByPhase, OldTree, Applied, Untouched
  <1>4. NothingLeftBehind'
    BY <1>1, <1>2 DEF durable, Durable, NothingLeftBehind
  <1>5. RegistryByPhase'
    BY <1>1, <1>2 DEF durable, Durable, RegistryByPhase, HasVersions
  <1> QED  BY <1>1, <1>2, <1>3, <1>4, <1>5 DEF durable, Durable, InFlight, PreCommit

\* The end of a call, by a return, an exception or a crash, at any place: what is
\* left is what an open intent's phase promises.
LEMMA EndInv ==
    ASSUME Inv, NEW where \in {"idle", "down"}, End(where), UNCHANGED durable
    PROVE  Inv'
  <1> USE DEF End
  <1>1. Durable' /\ Open' = Open
    BY DurableFrame
  <1>2. TypeOK'
    BY DEF Inv, TypeOK, PC, durable
  <1>3. pc' \in {"idle", "down"} /\ cur' = None
    OBVIOUS
  <1> QED
    BY <1>1, <1>2, <1>3 DEF Inv, Durable, Control, OneIntent, PhaseAt, IntentAccepted, RegistryAt,
                    TreesAt, Participant, LedgerAt, JournalAt

LEMMA InitInv == Init => Inv
  <1> SUFFICES ASSUME Init PROVE Inv
    OBVIOUS
  <1> USE DEF Init
  <1>1. Open = {}
    BY DEF Open
  <1>2. TypeOK
    <2>1. [p \in Package |-> Absent] \in Registry
      BY DEF Registry, PackageRecord
    <2> QED  BY <2>1 DEF TypeOK, Tree, PC
  <1>3. \A p \in Package : files[p] = registry[p].version
    BY DEF Absent, NoTree
  <1>4. \A o \in Op : ~PreCommit(o)
    BY <1>1 DEF PreCommit
  <1> QED
    BY <1>1, <1>2, <1>3, <1>4 DEF Inv, Control, OneIntent, PhaseAt, IntentAccepted, RegistryAt, TreesByPhase,
                    TreesAt, NothingLeftBehind, Participant, LedgerAt, InFlight, JournalAt

LEMMA CallInv ==
    ASSUME Inv, NEW o \in Op \cup {None}, Call(o)
    PROVE  Inv'
  <1> USE DEF Call
  <1>1. Durable' /\ Open' = Open
    BY DurableFrame DEF durable
  <1>2. TypeOK'
    BY DEF Inv, TypeOK, PC
  <1>3. pc' = "recover" /\ cur' = None
    BY DEF Inv, Control
  <1> QED
    BY <1>1, <1>2, <1>3 DEF Inv, Durable, Control, OneIntent, PhaseAt, IntentAccepted, RegistryAt,
                    TreesAt, Participant, LedgerAt, JournalAt

LEMMA RecoverIntentInv ==
    ASSUME Inv, NEW o \in Op, RecoverIntent(o)
    PROVE  Inv'
  <1> USE DEF RecoverIntent
  <1>1. Durable' /\ Open' = Open
    BY DurableFrame DEF durable
  <1>2. TypeOK'
    BY DEF Inv, TypeOK, PC
  <1>3. cur' = o /\ o \in Open' /\ cur' # None
    BY <1>1, RequestAssumption
  <1>4. \/ pc' = "rollback_sql" /\ intents'[o].phase # "committed"
        \/ pc' = "commit_sql" /\ intents'[o].phase = "committed" /\ DeclaresSql(o)
        \/ pc' = "postcondition" /\ intents'[o].phase = "committed" /\ ~DeclaresSql(o)
    BY DEF PreCommit
  <1>5. Control' /\ OneIntent' /\ PhaseAt' /\ IntentAccepted' /\ RegistryAt'
    BY <1>1, <1>3, <1>4 DEF Durable, Control, OneIntent, PhaseAt, IntentAccepted, RegistryAt
  <1>6. TreesAt' /\ JournalAt'
    BY <1>1, <1>4 DEF Durable, TreesAt, JournalAt
  <1>7. Participant' /\ LedgerAt'
    <2>1. pc' = "postcondition" => participants'[o] = "none" /\ prepared'[o] = None
      BY <1>1, <1>3, <1>4 DEF Durable
    <2>2. pc' = "postcondition" => \A m \in Migration : ~InFlight(m)'
      BY <1>1, <1>3, <2>1 DEF Durable
    <2> QED  BY <1>1, <1>3, <1>4, <2>1, <2>2 DEF Durable, Participant, LedgerAt
  <1> QED  BY <1>1, <1>2, <1>5, <1>6, <1>7 DEF Inv, Durable

LEMMA RecoverRefusedInv ==
    ASSUME Inv, RecoverRefused
    PROVE  Inv'
  BY EndInv DEF RecoverRefused, Return, durable

LEMMA AcceptInv ==
    ASSUME Inv, Accept
    PROVE  Inv'
  <1> USE DEF Accept, Goto
  <1>1. Durable' /\ Open' = Open
    BY DurableFrame DEF durable
  <1>2. TypeOK'
    BY DEF Inv, TypeOK, PC
  <1>3. Open = {} /\ cur \in Op /\ journal[cur] # "succeeded" /\ Accepts(registry, Request[cur])
    BY DEF Inv, TypeOK, Control, OneIntent, JournalAt, Acceptable
  <1> QED
    BY <1>1, <1>2, <1>3 DEF Inv, Durable, Control, OneIntent, PhaseAt, IntentAccepted, RegistryAt,
                    TreesAt, Participant, LedgerAt, JournalAt

LEMMA ResetOccupancyInv ==
    ASSUME Inv, ResetOccupancy
    PROVE  Inv'
  <1> USE DEF ResetOccupancy, Goto
  <1>1. Durable' /\ Open' = Open
    BY DurableFrame DEF durable
  <1>2. TypeOK'
    BY DEF Inv, TypeOK, PC
  <1>3. CASE ActionOf(cur) = "uninstall"
    BY <1>1, <1>2, <1>3 DEF Inv, Durable, Control, OneIntent, PhaseAt, IntentAccepted, RegistryAt,
                    TreesAt, Participant, LedgerAt, JournalAt
  <1>4. CASE ActionOf(cur) # "uninstall"
    <2>1. ActionOf(cur) = "install" /\ cur # None
      BY <1>4 DEF Inv, Control
    <2>2. TreesAt'
      BY <2>1 DEF Inv, TreesAt, Untouched
    <2>3. Control' /\ OneIntent' /\ PhaseAt'
      BY <1>1, <2>1 DEF Inv, Control, OneIntent, PhaseAt
    <2> QED
      BY <1>1, <1>2, <2>1, <2>2, <2>3 DEF Inv, Durable, IntentAccepted, RegistryAt,
                    Participant, LedgerAt, JournalAt
  <1> QED  BY <1>3, <1>4

LEMMA PostconditionInv ==
    ASSUME Inv, Postcondition
    PROVE  Inv'
  <1> USE DEF Postcondition
  <1>1. Durable' /\ Open' = Open
    BY DurableFrame DEF durable
  <1>2. CASE PostconditionOK
    <2> USE <1>2 DEF Goto
    <2>1. TypeOK'
      BY DEF Inv, TypeOK, PC
    <2> QED
      BY <1>1, <2>1 DEF Inv, Durable, Control, OneIntent, PhaseAt, IntentAccepted, RegistryAt,
                    TreesAt, Participant, LedgerAt, InFlight, JournalAt
  <1>3. CASE ~PostconditionOK
    BY <1>3, EndInv DEF Return, durable
  <1> QED  BY <1>2, <1>3

\* A failed step before the decision: the rollback starts.
LEMMA RollBackInv ==
    ASSUME Inv, Forward, RollBack
    PROVE  Inv'
  <1> USE DEF RollBack
  <1>1. Durable' /\ Open' = Open
    BY DurableFrame DEF durable
  <1>2. TypeOK'
    BY DEF Inv, TypeOK, PC
  <1>3. cur # None /\ cur \in Open /\ intents[cur].phase \in {"prepared", "files_applied", "registry_applied"}
    BY DEF Inv, Control, OneIntent, PhaseAt
  <1> QED
    BY <1>1, <1>2, <1>3 DEF Inv, Durable, Control, OneIntent, PhaseAt, IntentAccepted, RegistryAt,
                    TreesAt, Participant, LedgerAt, JournalAt

LEMMA FailInv ==
    ASSUME Inv, Fail \/ PrepareRefused
    PROVE  Inv'
  <1>1. Forward /\ RollBack
    BY DEF Fail, PrepareRefused
  <1> QED  BY <1>1, RollBackInv

LEMMA CrashInv ==
    ASSUME Inv, Crash
    PROVE  Inv'
  BY EndInv DEF Crash, durable

-----------------------------------------------------------------------------
(* The steps before the intent.                                            *)

\* The trees do not depend on the journal, the database or the place.
LEMMA TreesFrame ==
    ASSUME TreesByPhase, UNCHANGED <<registry, files, backup, intents>>
    PROVE  TreesByPhase' /\ Open' = Open
  <1>1. Open' = Open
    BY DEF Open
  <1> QED  BY <1>1 DEF TreesByPhase, OldTree, Applied, Untouched

\* What an operation without an intent finds: nothing is open.
LEMMA ClosedInv ==
    ASSUME Inv, TypeOK', Open = {},
           UNCHANGED <<registry, fileVars, intents, participants, prepared, ledger>>,
           \/ pc' \in {"idle", "down"} /\ cur' = None
           \/ pc' \in {"begin", "check"} /\ cur' # None,
           pc' = "check" => journal'[cur'] # "succeeded"
    PROVE  Inv'
  <1>1. TreesByPhase' /\ Open' = {}
    BY TreesFrame DEF Inv
  <1>2. \A o \in Op : ~PreCommit(o)'
    BY <1>1 DEF PreCommit
  <1>3. NothingLeftBehind'
    BY <1>1 DEF Inv, NothingLeftBehind
  <1>4. Participant' /\ LedgerAt'
    BY <1>1 DEF Inv, Participant, LedgerAt, InFlight
  <1> QED
    BY <1>1, <1>2, <1>3, <1>4
       DEF Inv, Control, OneIntent, PhaseAt, IntentAccepted, RegistryAt, TreesAt, JournalAt

LEMMA RecoverDoneInv ==
    ASSUME Inv, RecoverDone
    PROVE  Inv'
  <1> USE DEF RecoverDone
  <1>1. TypeOK'
    <2>1. journal' \in [Op -> {"none", "started", "failed", "succeeded"}]
      BY DEF Inv, TypeOK
    <2> QED  BY <2>1 DEF Inv, TypeOK, PC, Return, End
  <1>2. \/ pc' = "idle" /\ cur' = None
        \/ pc' = "begin" /\ cur' # None
    BY DEF Return, End
  <1> QED  BY <1>1, <1>2, ClosedInv

LEMMA ReplayInv ==
    ASSUME Inv, Replay
    PROVE  Inv'
  <1> USE DEF Replay, Return, End
  <1>1. TypeOK'
    BY DEF Inv, TypeOK, PC
  <1>2. Open = {}
    BY DEF Inv, OneIntent
  <1> QED  BY <1>1, <1>2, ClosedInv

LEMMA BeginInv ==
    ASSUME Inv, Begin
    PROVE  Inv'
  <1> USE DEF Begin, Goto, SetJournal
  <1>1. TypeOK' /\ journal'[cur] = "started"
    BY DEF Inv, TypeOK, Control, PC
  <1>2. Open = {} /\ cur # None
    BY DEF Inv, OneIntent, Control
  <1> QED  BY <1>1, <1>2, ClosedInv

LEMMA FailWithoutIntentInv ==
    ASSUME Inv, Early, FailWithoutIntent
    PROVE  Inv'
  <1> USE DEF FailWithoutIntent, Return, End, SetJournal
  <1>1. TypeOK'
    BY DEF Inv, TypeOK, Control, PC
  <1>2. Open = {}
    BY DEF Inv, OneIntent
  <1> QED  BY <1>1, <1>2, ClosedInv

LEMMA RejectInv ==
    ASSUME Inv, Reject \/ Refuse
    PROVE  Inv'
  <1>1. Early /\ FailWithoutIntent
    BY DEF Reject, Refuse
  <1> QED  BY <1>1, FailWithoutIntentInv

\* The intent is the first durable trace of the transaction: what was true of the
\* registry and the trees is now what it starts from.
LEMMA WriteIntentInv ==
    ASSUME Inv, WriteIntent
    PROVE  Inv'
  <1> USE DEF WriteIntent, Goto
  <1> DEFINE new == [phase |-> "prepared", before |-> registry,
                     after |-> After(registry, Request[cur])]
  <1>1. cur \in Op /\ cur # None /\ Open = {} /\ registry \in Registry
    BY DEF Inv, TypeOK, Control, OneIntent
  <1>2. Accepts(registry, Request[cur]) /\ journal[cur] # "succeeded"
    BY DEF Inv, IntentAccepted, JournalAt
  <1>3. new \in Intent /\ new # None
    BY <1>1, <1>2, RequestFacts, AcceptedChange, RequestAssumption DEF Intent, Phase
  <1>4. new.phase = "prepared" /\ new.before = registry /\ new.after = After(registry, Request[cur])
    OBVIOUS
  <1>5. intents' = [intents EXCEPT ![cur] = new]
    OBVIOUS
  <1> HIDE DEF new
  <1>6. intents' \in [Op -> {None} \cup Intent] /\ intents'[cur] = new
    BY <1>1, <1>3, <1>5 DEF Inv, TypeOK
  <1>7. Open' = {cur}
    BY <1>1, <1>3, <1>5, <1>6 DEF Inv, TypeOK, Open
  <1>8. TypeOK'
    BY <1>6 DEF Inv, TypeOK, PC
  <1>9. \/ pc' = "stage" /\ ActionOf(cur) \in {"install", "update"}
        \/ pc' = "apply" /\ ActionOf(cur) \notin {"install", "update"}
    OBVIOUS
  <1>10. Control' /\ OneIntent' /\ PhaseAt' /\ IntentAccepted' /\ RegistryAt'
    BY <1>1, <1>2, <1>4, <1>6, <1>7, <1>9
       DEF Control, OneIntent, PhaseAt, IntentAccepted, RegistryAt
  <1>11. files[Pkg(cur)] = registry[Pkg(cur)].version /\ backup[cur] = NoTree
         /\ \A p \in Package : files[p] = registry[p].version
    BY <1>1, RequestFacts DEF Inv, TreesByPhase, NothingLeftBehind
  <1>12. Untouched(cur)'
    BY <1>4, <1>6, <1>11 DEF Untouched
  <1>13. TreesAt'
    BY <1>9, <1>12 DEF TreesAt
  <1>14. TreesByPhase'
    BY <1>4, <1>6, <1>7, <1>11 DEF TreesByPhase, OldTree, Untouched
  <1>15. NothingLeftBehind'
    BY <1>1, <1>7 DEF Inv, NothingLeftBehind
  <1>16. Participant' /\ LedgerAt'
    BY <1>1, <1>9 DEF Inv, Participant, LedgerAt, InFlight
  <1>17. JournalAt'
    BY <1>2, <1>7, <1>9 DEF JournalAt, PreCommit
  <1> QED  BY <1>8, <1>10, <1>13, <1>14, <1>15, <1>16, <1>17 DEF Inv

-----------------------------------------------------------------------------
(* The steps of the transaction up to the decision.                        *)

\* The running operation works on the one open intent.
LEMMA BusyFacts ==
    ASSUME Inv, Busy
    PROVE  cur \in Op /\ cur # None /\ Open = {cur}
  BY DEF Inv, TypeOK, Control, OneIntent

LEMMA StageInv ==
    ASSUME Inv, Stage
    PROVE  Inv'
  <1> USE DEF Stage, Goto
  <1>1. cur \in Op /\ cur # None /\ Open = {cur}
    BY BusyFacts
  <1>2. \/ pc = "stage" /\ pc' = "extract"
        \/ /\ pc = "extract" /\ stage'[cur] = Request[cur].version
           /\ pc' = IF ActionOf(cur) = "install" THEN "reset_occupancy" ELSE "apply"
    BY <1>1 DEF Inv, TypeOK
  <1>3. stage' \in [Op -> Tree] /\ \A o \in Op \ {cur} : stage'[o] = stage[o]
    BY <1>1, RequestFacts, TreeFacts DEF Inv, TypeOK
  <1>4. TypeOK'
    BY <1>3 DEF Inv, TypeOK, PC
  <1>5. TreesByPhase' /\ Open' = {cur}
    BY <1>1, TreesFrame DEF Inv
  <1>6. ActionOf(cur) \in {"install", "update"} /\ Untouched(cur)'
    BY DEF Inv, TreesAt, Untouched
  <1>7. TreesAt'
    BY <1>2, <1>6 DEF TreesAt
  <1>8. Control' /\ OneIntent' /\ PhaseAt' /\ IntentAccepted' /\ RegistryAt'
    BY <1>1, <1>2, <1>5, <1>6 DEF Inv, Control, OneIntent, PhaseAt, IntentAccepted, RegistryAt
  <1>9. NothingLeftBehind' /\ Participant' /\ LedgerAt' /\ JournalAt'
    BY <1>1, <1>2, <1>3, <1>5, <1>6 DEF Inv, NothingLeftBehind, Participant, LedgerAt, InFlight, JournalAt, PreCommit
  <1> QED  BY <1>4, <1>5, <1>7, <1>8, <1>9 DEF Inv

\* The renames of _apply_files, action by action.
LEMMA ApplyFilesInv ==
    ASSUME Inv, ApplyFiles
    PROVE  Inv'
  <1>1. cur \in Op /\ cur # None /\ Open = {cur} /\ pc \in {"apply", "apply_stage"}
    BY BusyFacts DEF ApplyFiles
  <1>2. UNCHANGED <<registry, localVars, dbVars, callVars>>
    BY DEF ApplyFiles, Goto
  <1>3. Open' = {cur}
    BY <1>1, <1>2 DEF Open
  <1> DEFINE old == intents[cur].before[Pkg(cur)].version
             new == intents[cur].after[Pkg(cur)].version
             p == Pkg(cur)
  <1>4. /\ p \in Package /\ ActionOf(cur) \in Action
        /\ ActionOf(cur) # "install" => old \in Version
        /\ ActionOf(cur) \in {"install", "update"} => new = Request[cur].version
        /\ ActionOf(cur) \in {"enable", "disable"} => new = old
        /\ ActionOf(cur) = "uninstall" => new = NoTree
        /\ intents[cur].phase \in Undecided
    BY <1>1, OpenFacts, RequestFacts DEF Inv, PhaseAt
  <1>5. /\ pc = "apply" => files[p] = old /\ backup[cur] = NoTree
        /\ pc = "apply" /\ ActionOf(cur) \in {"install", "update"} => stage[cur] = Request[cur].version
        /\ pc = "apply_stage" => ActionOf(cur) = "update" /\ stage[cur] = Request[cur].version
    BY <1>1 DEF Inv, TreesAt, Untouched
  <1>6. files \in [Package -> Tree] /\ stage \in [Op -> Tree] /\ backup \in [Op -> Tree]
    BY DEF Inv, TypeOK
  <1>7. /\ files' \in [Package -> Tree] /\ stage' \in [Op -> Tree] /\ backup' \in [Op -> Tree]
        /\ \A o \in Op \ {cur} : stage'[o] = stage[o] /\ backup'[o] = backup[o]
        /\ \A q \in Package \ {p} : files'[q] = files[q]
        /\ \/ pc' = "files_applied" /\ files'[p] = new
           \/ pc' = "apply_stage" /\ ActionOf(cur) = "update" /\ stage'[cur] = Request[cur].version
        /\ \/ ActionOf(cur) = "install" /\ backup'[cur] = backup[cur]
           \/ ActionOf(cur) \in {"update", "uninstall"} /\ pc = "apply" /\ backup'[cur] = old
           \/ ActionOf(cur) = "update" /\ pc = "apply_stage" /\ backup'[cur] = backup[cur] /\ files[p] = NoTree
           \/ ActionOf(cur) \in {"enable", "disable"} /\ backup'[cur] = NoTree /\ files'[p] = old
    <2> HIDE DEF old, new
    <2> USE DEF Goto, Path, MoveToBackup, MoveFromStage
    <2>1. NoTree \in Tree /\ Request[cur].version \in Tree
      BY <1>1, TreeFacts, RequestFacts
    <2>2. CASE pc = "apply_stage"
      <3>1. MoveFromStage /\ pc' = "files_applied" /\ UNCHANGED backup
        BY <2>2 DEF ApplyFiles
      <3> QED  BY <3>1, <2>1, <2>2, <1>1, <1>4, <1>5, <1>6
    <2>3. CASE pc = "apply" /\ ActionOf(cur) = "install"
      <3>1. MoveFromStage /\ pc' = "files_applied" /\ UNCHANGED backup
        BY <2>3 DEF ApplyFiles
      <3> QED  BY <3>1, <2>1, <2>3, <1>1, <1>4, <1>5, <1>6
    <2>4. CASE pc = "apply" /\ ActionOf(cur) = "update"
      <3>1. MoveToBackup /\ pc' = "apply_stage" /\ UNCHANGED stage
        BY <2>4 DEF ApplyFiles
      <3> QED  BY <3>1, <2>1, <2>4, <1>1, <1>4, <1>5, <1>6
    <2>5. CASE pc = "apply" /\ ActionOf(cur) = "uninstall"
      <3>1. MoveToBackup /\ pc' = "files_applied" /\ UNCHANGED stage
        BY <2>5 DEF ApplyFiles
      <3> QED  BY <3>1, <2>1, <2>5, <1>1, <1>4, <1>5, <1>6
    <2>6. CASE pc = "apply" /\ ActionOf(cur) \in {"enable", "disable"}
      <3>1. pc' = "files_applied" /\ UNCHANGED fileVars
        BY <2>6 DEF ApplyFiles
      <3> QED  BY <3>1, <2>6, <1>1, <1>4, <1>5, <1>6
    <2> QED  BY <1>1, <1>4, <2>2, <2>3, <2>4, <2>5, <2>6 DEF Action
  <1>8. TypeOK'
    BY <1>2, <1>7 DEF Inv, TypeOK, PC
  <1>9. Control' /\ OneIntent' /\ PhaseAt' /\ IntentAccepted' /\ RegistryAt'
    BY <1>1, <1>2, <1>3, <1>7 DEF Inv, Control, OneIntent, PhaseAt, IntentAccepted, RegistryAt
  <1>10. OldTree(cur)'
    BY <1>1, <1>2, <1>4, <1>5, <1>7, TreeFacts DEF Inv, TreesByPhase, OldTree
  <1>11. TreesByPhase'
    BY <1>1, <1>2, <1>3, <1>4, <1>7, <1>10 DEF Inv, TreesByPhase
  <1>12. TreesAt'
    BY <1>2, <1>7 DEF TreesAt, Applied
  <1>13. NothingLeftBehind' /\ Participant' /\ LedgerAt' /\ JournalAt'
    BY <1>1, <1>2, <1>3, <1>7 DEF Inv, NothingLeftBehind, Participant, LedgerAt, InFlight, JournalAt, PreCommit
  <1> QED  BY <1>8, <1>9, <1>11, <1>12, <1>13 DEF Inv

LEMMA FilesAppliedInv ==
    ASSUME Inv, FilesApplied
    PROVE  Inv'
  <1> USE DEF FilesApplied, Goto
  <1>1. cur \in Op /\ cur # None /\ Open = {cur} /\ "files_applied" \in Phase
    BY BusyFacts DEF Phase
  <1>2. /\ intents' \in [Op -> {None} \cup Intent] /\ Open' = Open
        /\ intents'[cur].phase = "files_applied"
        /\ \A o \in Op : /\ intents'[o].before = intents[o].before
                         /\ intents'[o].after = intents[o].after
    BY <1>1, SetPhaseFacts DEF Inv
  <1>3. intents[cur].phase \in Undecided
    BY DEF Inv, PhaseAt
  <1>4. TypeOK'
    BY <1>2 DEF Inv, TypeOK, PC
  <1>5. Control' /\ OneIntent' /\ PhaseAt' /\ IntentAccepted' /\ RegistryAt'
    BY <1>1, <1>2, <1>3 DEF Inv, Control, OneIntent, PhaseAt, IntentAccepted, RegistryAt
  <1>6. TreesByPhase'
    BY <1>1, <1>2, <1>3 DEF Inv, TreesByPhase, OldTree
  <1>7. TreesAt'
    BY <1>1, <1>2 DEF Inv, TreesAt, Applied
  <1>8. NothingLeftBehind' /\ Participant' /\ LedgerAt'
    BY <1>1, <1>2 DEF Inv, NothingLeftBehind, Participant, LedgerAt, InFlight
  <1>9. JournalAt'
    BY <1>1, <1>2, <1>3 DEF Inv, JournalAt, PreCommit
  <1> QED  BY <1>4, <1>5, <1>6, <1>7, <1>8, <1>9 DEF Inv

LEMMA SqlIntentInv ==
    ASSUME Inv, SqlIntent
    PROVE  Inv'
  <1> USE DEF SqlIntent, Goto
  <1>1. cur \in Op /\ cur # None /\ Open = {cur}
    BY BusyFacts
  <1>2. /\ participants' \in [Op -> {"none", "preparing", "prepared", "finished"}]
        /\ participants'[cur] = "preparing"
        /\ \A o \in Op \ {cur} : participants'[o] = participants[o]
    BY <1>1 DEF Inv, TypeOK, SetParticipant
  <1>3. TypeOK'
    BY <1>2 DEF Inv, TypeOK, PC
  <1>4. TreesByPhase' /\ Open' = Open
    BY TreesFrame DEF Inv
  <1>5. Control' /\ OneIntent' /\ PhaseAt' /\ IntentAccepted' /\ RegistryAt'
    BY <1>1, <1>4 DEF Inv, Control, OneIntent, PhaseAt, IntentAccepted, RegistryAt
  <1>6. TreesAt'
    BY DEF Inv, TreesAt, Applied
  <1>7. NothingLeftBehind' /\ Participant' /\ LedgerAt' /\ JournalAt'
    BY <1>1, <1>2, <1>4 DEF Inv, NothingLeftBehind, Participant, LedgerAt, InFlight, JournalAt, PreCommit
  <1> QED  BY <1>3, <1>4, <1>5, <1>6, <1>7 DEF Inv

LEMMA SqlPreparedInv ==
    ASSUME Inv, SqlPrepared
    PROVE  Inv'
  <1> USE DEF SqlPrepared, Goto
  <1>1. cur \in Op /\ cur # None /\ Open = {cur}
    BY BusyFacts
  <1>2. /\ participants' \in [Op -> {"none", "preparing", "prepared", "finished"}]
        /\ participants'[cur] = "prepared"
        /\ \A o \in Op \ {cur} : participants'[o] = participants[o]
    BY <1>1 DEF Inv, TypeOK, SetParticipant
  <1>3. TypeOK'
    BY <1>2 DEF Inv, TypeOK, PC
  <1>4. TreesByPhase' /\ Open' = Open
    BY TreesFrame DEF Inv
  <1>5. Control' /\ OneIntent' /\ PhaseAt' /\ IntentAccepted' /\ RegistryAt'
    BY <1>1, <1>4 DEF Inv, Control, OneIntent, PhaseAt, IntentAccepted, RegistryAt
  <1>6. TreesAt'
    BY DEF Inv, TreesAt, Applied
  <1>7. NothingLeftBehind' /\ Participant' /\ LedgerAt' /\ JournalAt'
    BY <1>1, <1>2, <1>4 DEF Inv, NothingLeftBehind, Participant, LedgerAt, InFlight, JournalAt, PreCommit
  <1> QED  BY <1>3, <1>4, <1>5, <1>6, <1>7 DEF Inv

\* The database transaction that prepare() leaves ran migrations of the artifact.
LEMMA PrepareInv ==
    ASSUME Inv, Prepare
    PROVE  Inv'
  <1> USE DEF Prepare
  <1> DEFINE pending == {m \in MigrationsOf(cur) : ledger[m] # "applied"}
  <1>1. cur \in Op /\ cur # None /\ Open = {cur}
    BY BusyFacts
  <1>2. pending \subseteq MigrationsOf(cur) /\ pending \subseteq Migration /\ pending # None
    BY <1>1, MigrationFacts, RequestAssumption
  <1>3. /\ prepared' \in [Op -> {None} \cup SUBSET Migration]
        /\ prepared'[cur] = pending
        /\ \A o \in Op \ {cur} : prepared'[o] = prepared[o]
    BY <1>1, <1>2 DEF Inv, TypeOK
  <1>4. TypeOK'
    BY <1>2, <1>3 DEF Inv, TypeOK, PC
  <1> HIDE DEF pending
  <1>5. TreesByPhase' /\ Open' = Open
    BY TreesFrame DEF Inv
  <1>6. Control' /\ OneIntent' /\ PhaseAt' /\ IntentAccepted' /\ RegistryAt'
    BY <1>1, <1>5 DEF Inv, Control, OneIntent, PhaseAt, IntentAccepted, RegistryAt
  <1>7. TreesAt'
    BY DEF Inv, TreesAt, Applied
  <1>8. NothingLeftBehind' /\ Participant' /\ LedgerAt' /\ JournalAt'
    BY <1>1, <1>2, <1>3, <1>5 DEF Inv, NothingLeftBehind, Participant, LedgerAt, InFlight, JournalAt, PreCommit
  <1> QED  BY <1>4, <1>5, <1>6, <1>7, <1>8 DEF Inv

LEMMA RecordStartedInv ==
    ASSUME Inv, NEW m \in Migration, RecordStarted(m)
    PROVE  Inv'
  <1> USE DEF RecordStarted
  <1>1. cur \in Op /\ cur # None /\ Open = {cur}
    BY BusyFacts
  <1>2. TypeOK'
    BY <1>1 DEF Inv, TypeOK
  <1>3. TreesByPhase' /\ Open' = Open
    BY TreesFrame DEF Inv
  <1>4. Control' /\ OneIntent' /\ PhaseAt' /\ IntentAccepted' /\ RegistryAt'
    BY <1>1, <1>3 DEF Inv, Control, OneIntent, PhaseAt, IntentAccepted, RegistryAt
  <1>5. TreesAt'
    BY DEF Inv, TreesAt, Applied
  <1>6. NothingLeftBehind' /\ Participant' /\ LedgerAt' /\ JournalAt'
    BY <1>1, <1>3 DEF Inv, NothingLeftBehind, Participant, LedgerAt, InFlight, JournalAt, PreCommit
  <1> QED  BY <1>2, <1>3, <1>4, <1>5, <1>6 DEF Inv

\* The migrations put in flight are those of the running operation.
LEMMA MarkApplyingInv ==
    ASSUME Inv, MarkApplying
    PROVE  Inv'
  <1> USE DEF MarkApplying, Goto
  <1>1. cur \in Op /\ cur # None /\ Open = {cur}
    BY BusyFacts
  <1>2. /\ ledger' \in [Migration -> {"none", "applying", "applied", "failed"}]
        /\ \A m \in Migration \ prepared[cur] : ledger'[m] = ledger[m]
    BY DEF Inv, TypeOK
  <1>3. TypeOK'
    BY <1>2 DEF Inv, TypeOK, PC
  <1>4. TreesByPhase' /\ Open' = Open
    BY TreesFrame DEF Inv
  <1>5. Control' /\ OneIntent' /\ PhaseAt' /\ IntentAccepted' /\ RegistryAt'
    BY <1>1, <1>4 DEF Inv, Control, OneIntent, PhaseAt, IntentAccepted, RegistryAt
  <1>6. TreesAt'
    BY DEF Inv, TreesAt, Applied
  <1>7. prepared[cur] \subseteq MigrationsOf(cur) /\ participants[cur] # "none"
    BY <1>1 DEF Inv, Participant
  <1>8. LedgerAt'
    BY <1>1, <1>2, <1>4, <1>7 DEF Inv, LedgerAt, InFlight
  <1>9. NothingLeftBehind' /\ Participant' /\ JournalAt'
    BY <1>1, <1>4 DEF Inv, NothingLeftBehind, Participant, JournalAt, PreCommit
  <1> QED  BY <1>3, <1>4, <1>5, <1>6, <1>8, <1>9 DEF Inv

LEMMA WriteRegistryInv ==
    ASSUME Inv, WriteRegistry
    PROVE  Inv'
  <1> USE DEF WriteRegistry, Goto
  <1>1. cur \in Op /\ cur # None /\ Open = {cur}
    BY BusyFacts
  <1>2. intents[cur].after \in Registry /\ intents[cur].phase \in Undecided
    BY <1>1, OpenFacts DEF Inv, PhaseAt
  <1>3. TypeOK'
    BY <1>2 DEF Inv, TypeOK, PC
  <1>4. Open' = Open
    BY DEF Open
  <1>5. Control' /\ OneIntent' /\ PhaseAt' /\ IntentAccepted' /\ RegistryAt'
    BY <1>1, <1>2, <1>4 DEF Inv, Control, OneIntent, PhaseAt, IntentAccepted, RegistryAt
  <1>6. TreesByPhase' /\ TreesAt'
    BY <1>1, <1>4 DEF Inv, TreesByPhase, OldTree, Untouched, Applied, TreesAt
  <1>7. NothingLeftBehind' /\ Participant' /\ LedgerAt' /\ JournalAt'
    BY <1>1, <1>4 DEF Inv, NothingLeftBehind, Participant, LedgerAt, InFlight, JournalAt, PreCommit
  <1> QED  BY <1>3, <1>5, <1>6, <1>7 DEF Inv

LEMMA RegistryAppliedInv ==
    ASSUME Inv, RegistryApplied
    PROVE  Inv'
  <1> USE DEF RegistryApplied, Goto
  <1>1. cur \in Op /\ cur # None /\ Open = {cur} /\ "registry_applied" \in Phase
    BY BusyFacts DEF Phase
  <1>2. /\ intents' \in [Op -> {None} \cup Intent] /\ Open' = Open
        /\ intents'[cur].phase = "registry_applied"
        /\ \A o \in Op : /\ intents'[o].before = intents[o].before
                         /\ intents'[o].after = intents[o].after
    BY <1>1, SetPhaseFacts DEF Inv
  <1>3. intents[cur].phase \in Undecided
    BY DEF Inv, PhaseAt
  <1>4. TypeOK'
    BY <1>2 DEF Inv, TypeOK, PC
  <1>5. Control' /\ OneIntent' /\ PhaseAt' /\ IntentAccepted' /\ RegistryAt'
    BY <1>1, <1>2, <1>3 DEF Inv, Control, OneIntent, PhaseAt, IntentAccepted, RegistryAt
  <1>6. TreesByPhase'
    BY <1>1, <1>2, <1>3 DEF Inv, TreesByPhase, OldTree
  <1>7. TreesAt'
    BY <1>1, <1>2 DEF Inv, TreesAt, Applied
  <1>8. NothingLeftBehind' /\ Participant' /\ LedgerAt'
    BY <1>1, <1>2 DEF Inv, NothingLeftBehind, Participant, LedgerAt, InFlight
  <1>9. JournalAt'
    BY <1>1, <1>2, <1>3 DEF Inv, JournalAt, PreCommit
  <1> QED  BY <1>4, <1>5, <1>6, <1>7, <1>8, <1>9 DEF Inv

\* The decision: the registry and the trees are those of the new version.
LEMMA CommitInv ==
    ASSUME Inv, Commit
    PROVE  Inv'
  <1> USE DEF Commit, Goto
  <1>1. cur \in Op /\ cur # None /\ Open = {cur} /\ "committed" \in Phase
    BY BusyFacts DEF Phase
  <1>2. /\ intents' \in [Op -> {None} \cup Intent] /\ Open' = Open
        /\ intents'[cur].phase = "committed"
        /\ \A o \in Op : /\ intents'[o].before = intents[o].before
                         /\ intents'[o].after = intents[o].after
    BY <1>1, SetPhaseFacts DEF Inv
  <1>3. TypeOK'
    BY <1>2 DEF Inv, TypeOK, PC
  <1>4. Control' /\ OneIntent' /\ PhaseAt' /\ IntentAccepted' /\ RegistryAt'
    BY <1>1, <1>2 DEF Inv, Control, OneIntent, PhaseAt, IntentAccepted, RegistryAt
  <1>5. TreesByPhase' /\ TreesAt'
    BY <1>1, <1>2 DEF Inv, TreesByPhase, TreesAt, Applied
  <1>6. ~DeclaresSql(cur) => participants[cur] = "none" /\ prepared[cur] = None
    BY <1>1 DEF Inv, Participant
  <1>7. ~DeclaresSql(cur) => \A m \in Migration : ~InFlight(m)
    BY <1>1, <1>6 DEF Inv, LedgerAt
  <1>8. NothingLeftBehind' /\ Participant' /\ LedgerAt'
    BY <1>1, <1>2, <1>6, <1>7 DEF Inv, NothingLeftBehind, Participant, LedgerAt, InFlight
  <1>9. JournalAt'
    BY <1>1, <1>2 DEF JournalAt, PreCommit
  <1> QED  BY <1>3, <1>4, <1>5, <1>8, <1>9 DEF Inv

-----------------------------------------------------------------------------
(* Forward completion.                                                     *)

\* Committing the prepared transaction, or finding that it was committed.
LEMMA CommitSqlInv ==
    ASSUME Inv, CommitSql
    PROVE  Inv'
  <1> USE DEF CommitSql
  <1>1. cur \in Op /\ cur # None /\ Open = {cur}
    BY BusyFacts
  <1>2. CASE PackageSqlRecoveryAction(cur, TRUE) = "raise"
    BY <1>2, EndInv DEF Return, durable
  <1>3. CASE PackageSqlRecoveryAction(cur, TRUE) # "raise"
    <2>1. Goto("mark_applied")
      BY <1>3
    <2>2. /\ prepared' \in [Op -> {None} \cup SUBSET Migration]
          /\ prepared'[cur] = None
          /\ \A o \in Op \ {cur} : prepared'[o] = prepared[o]
          /\ schema' \subseteq Migration
      <3>1. CASE PackageSqlRecoveryAction(cur, TRUE) = "commit_prepared"
        <4>1. prepared' = [prepared EXCEPT ![cur] = None] /\ schema' = schema \cup prepared[cur]
          BY <3>1
        <4>2. prepared[cur] # None
          BY <3>1, <1>1 DEF PackageSqlRecoveryAction, Inv, TypeOK
        <4> QED  BY <4>1, <4>2, <1>1 DEF Inv, TypeOK
      <3>2. CASE PackageSqlRecoveryAction(cur, TRUE) = "verify_finished"
        <4>1. UNCHANGED <<schema, prepared>>
          BY <3>2
        <4>2. prepared[cur] = None
          BY <3>2, <1>1 DEF PackageSqlRecoveryAction, Inv, TypeOK
        <4> QED  BY <4>1, <4>2, <1>1 DEF Inv, TypeOK
      <3> QED  BY <1>3, <3>1, <3>2
    <2>3. UNCHANGED <<registry, fileVars, localVars, ledger, attempts, callVars>> /\ pc' = "mark_applied"
      BY <2>1 DEF Goto
    <2> HIDE DEF CommitSql
    <2>4. TypeOK'
      BY <2>2, <2>3 DEF Inv, TypeOK, PC
    <2>5. TreesByPhase' /\ Open' = Open
      BY <2>3, TreesFrame DEF Inv
    <2>6. pc = "commit_sql"
      BY DEF CommitSql
    <2>7. Control' /\ OneIntent' /\ PhaseAt' /\ IntentAccepted' /\ RegistryAt' /\ TreesAt'
      BY <1>1, <2>3, <2>5, <2>6 DEF Inv, Control, OneIntent, PhaseAt, IntentAccepted, RegistryAt, TreesAt
    <2>8. NothingLeftBehind' /\ Participant' /\ LedgerAt' /\ JournalAt'
      BY <1>1, <2>2, <2>3, <2>5, <2>6
         DEF Inv, NothingLeftBehind, Participant, LedgerAt, InFlight, JournalAt, PreCommit
    <2> QED  BY <2>4, <2>5, <2>7, <2>8 DEF Inv
  <1> QED  BY <1>2, <1>3

LEMMA MarkAppliedInv ==
    ASSUME Inv, MarkApplied
    PROVE  Inv'
  <1> DEFINE ready == \A m \in MigrationsOf(cur) : ledger[m] \in {"applying", "applied"}
  <1>1. cur \in Op /\ cur # None /\ Open = {cur} /\ pc = "mark_applied"
    BY BusyFacts DEF MarkApplied
  <1>2. CASE ~ready
    BY <1>2, EndInv DEF MarkApplied, Return, durable
  <1>3. CASE ready
    <2>1. /\ ledger' = [m \in Migration |->
                          IF m \in MigrationsOf(cur) THEN "applied" ELSE ledger[m]]
          /\ pc' = "sql_finished"
          /\ UNCHANGED <<callVars, registry, fileVars, localVars, prepared, schema, attempts>>
      BY <1>3 DEF MarkApplied, Goto
    <2>2. ledger' \in [Migration -> {"none", "applying", "applied", "failed"}]
      BY <2>1 DEF Inv, TypeOK
    <2>3. TypeOK'
      BY <2>1, <2>2 DEF Inv, TypeOK, PC
    <2>4. TreesByPhase' /\ Open' = Open
      BY <2>1, TreesFrame DEF Inv
    <2>5. \A m \in Migration : ~InFlight(m)'
      BY <1>1, <2>1 DEF Inv, LedgerAt, InFlight
    <2>6. LedgerAt'
      BY <2>5 DEF LedgerAt
    <2>7. Control' /\ OneIntent' /\ PhaseAt' /\ IntentAccepted' /\ RegistryAt' /\ TreesAt'
      BY <1>1, <2>1, <2>4 DEF Inv, Control, OneIntent, PhaseAt, IntentAccepted, RegistryAt, TreesAt
    <2>8. NothingLeftBehind' /\ Participant' /\ JournalAt'
      BY <1>1, <2>1, <2>4 DEF Inv, NothingLeftBehind, Participant, JournalAt, PreCommit
    <2> QED  BY <2>3, <2>4, <2>6, <2>7, <2>8 DEF Inv
  <1> QED  BY <1>2, <1>3

LEMMA SqlFinishedInv ==
    ASSUME Inv, SqlFinished
    PROVE  Inv'
  <1> USE DEF SqlFinished, Goto
  <1>1. cur \in Op /\ cur # None /\ Open = {cur}
    BY BusyFacts
  <1>2. /\ participants' \in [Op -> {"none", "preparing", "prepared", "finished"}]
        /\ participants'[cur] = "finished"
        /\ \A o \in Op \ {cur} : participants'[o] = participants[o]
    BY <1>1 DEF Inv, TypeOK, SetParticipant
  <1>3. TypeOK'
    BY <1>2 DEF Inv, TypeOK, PC
  <1>4. TreesByPhase' /\ Open' = Open
    BY TreesFrame DEF Inv
  <1>5. Control' /\ OneIntent' /\ PhaseAt' /\ IntentAccepted' /\ RegistryAt' /\ TreesAt'
    BY <1>1, <1>4 DEF Inv, Control, OneIntent, PhaseAt, IntentAccepted, RegistryAt, TreesAt
  <1>6. DeclaresSql(cur)
    BY DEF Inv, Participant
  <1>7. NothingLeftBehind' /\ Participant' /\ LedgerAt' /\ JournalAt'
    BY <1>1, <1>2, <1>4, <1>6 DEF Inv, NothingLeftBehind, Participant, LedgerAt, InFlight, JournalAt, PreCommit
  <1> QED  BY <1>3, <1>4, <1>5, <1>7 DEF Inv

LEMMA SucceedInv ==
    ASSUME Inv, Succeed
    PROVE  Inv'
  <1>1. cur \in Op /\ cur # None /\ Open = {cur} /\ pc = "succeed"
    BY BusyFacts DEF Succeed
  <1>2. CASE journal[cur] \notin {"started", "succeeded"}
    BY <1>2, EndInv DEF Succeed, Return, durable
  <1>3. CASE journal[cur] \in {"started", "succeeded"}
    <2>1. /\ SetJournal("succeeded") /\ pc' = "release_owner"
          /\ UNCHANGED <<callVars, registry, fileVars, intents, participants, dbVars>>
      BY <1>3 DEF Succeed, Goto
    <2>2. /\ journal' \in [Op -> {"none", "started", "failed", "succeeded"}]
          /\ journal'[cur] = "succeeded"
      BY <1>1, <2>1 DEF Inv, TypeOK, SetJournal
    <2>3. TypeOK'
      BY <2>1, <2>2 DEF Inv, TypeOK, PC
    <2>4. TreesByPhase' /\ Open' = Open
      BY <2>1, TreesFrame DEF Inv
    <2>5. intents[cur].phase = "committed"
      BY <1>1 DEF Inv, PhaseAt
    <2>6. Control' /\ OneIntent' /\ PhaseAt' /\ IntentAccepted' /\ RegistryAt' /\ TreesAt'
      BY <1>1, <2>1, <2>4, <2>5 DEF Inv, Control, OneIntent, PhaseAt, IntentAccepted, RegistryAt, TreesAt
    <2>7. NothingLeftBehind' /\ Participant' /\ LedgerAt'
      BY <1>1, <2>1, <2>4 DEF Inv, NothingLeftBehind, Participant, LedgerAt, InFlight
    <2>8. JournalAt'
      BY <1>1, <2>1, <2>2, <2>4, <2>5 DEF JournalAt, PreCommit
    <2> QED  BY <2>3, <2>4, <2>6, <2>7, <2>8 DEF Inv
  <1> QED  BY <1>2, <1>3

-----------------------------------------------------------------------------
(* Rollback.                                                               *)

LEMMA RollbackSqlInv ==
    ASSUME Inv, RollbackSql
    PROVE  Inv'
  <1> DEFINE action == PackageSqlRecoveryAction(cur, FALSE)
  <1>1. cur \in Op /\ cur # None /\ Open = {cur} /\ pc = "rollback_sql"
    BY BusyFacts DEF RollbackSql
  <1>2. CASE action = "raise"
    BY <1>2, EndInv DEF RollbackSql, Return, durable
  <1>3. CASE action # "raise"
    <2>1. /\ prepared' \in [Op -> {None} \cup SUBSET Migration]
          /\ prepared'[cur] = None
          /\ \A o \in Op \ {cur} : prepared'[o] = prepared[o]
      <3>1. CASE action = "rollback_prepared"
        <4>1. prepared' = [prepared EXCEPT ![cur] = None]
          BY <3>1 DEF RollbackSql
        <4> QED  BY <4>1, <1>1 DEF Inv, TypeOK
      <3>2. CASE action \in {"verify_rolled_back", "none"}
        <4>1. UNCHANGED prepared
          BY <3>2 DEF RollbackSql
        <4>2. prepared[cur] = None
          BY <3>2, <1>1 DEF PackageSqlRecoveryAction, Inv, TypeOK
        <4> QED  BY <4>1, <4>2, <1>1 DEF Inv, TypeOK
      <3> QED  BY <1>3, <3>1, <3>2 DEF RollbackSql
    <2>2. /\ UNCHANGED <<registry, fileVars, localVars, schema, ledger, attempts, callVars>>
          /\ pc' = IF action = "none" THEN "restore_files" ELSE "mark_rolled_back"
      BY <1>3 DEF RollbackSql, Goto
    <2>3. action = "none" => participants[cur] = "none"
      BY <1>1 DEF PackageSqlRecoveryAction, Inv, TypeOK
    <2> HIDE DEF action
    <2>4. TypeOK'
      BY <2>1, <2>2 DEF Inv, TypeOK, PC
    <2>5. TreesByPhase' /\ Open' = Open
      BY <2>2, TreesFrame DEF Inv
    <2>6. Control' /\ OneIntent' /\ PhaseAt' /\ IntentAccepted' /\ RegistryAt' /\ TreesAt'
      BY <1>1, <2>2, <2>5 DEF Inv, Control, OneIntent, PhaseAt, IntentAccepted, RegistryAt, TreesAt
    <2>7. action = "none" => \A m \in Migration : ~InFlight(m)'
      BY <1>1, <2>2, <2>3 DEF Inv, LedgerAt, InFlight
    <2>8. LedgerAt'
      BY <2>2, <2>5, <2>7 DEF Inv, LedgerAt, InFlight
    <2>9. NothingLeftBehind' /\ Participant' /\ JournalAt'
      BY <1>1, <2>1, <2>2, <2>5 DEF Inv, NothingLeftBehind, Participant, JournalAt, PreCommit
    <2> QED  BY <2>4, <2>5, <2>6, <2>8, <2>9 DEF Inv
  <1> QED  BY <1>2, <1>3

LEMMA MarkRolledBackInv ==
    ASSUME Inv, MarkRolledBack
    PROVE  Inv'
  <1> USE DEF MarkRolledBack, Goto
  <1>1. cur \in Op /\ cur # None /\ Open = {cur}
    BY BusyFacts
  <1>2. ledger' \in [Migration -> {"none", "applying", "applied", "failed"}]
    BY DEF Inv, TypeOK
  <1>3. TypeOK'
    BY <1>2 DEF Inv, TypeOK, PC
  <1>4. TreesByPhase' /\ Open' = Open
    BY TreesFrame DEF Inv
  <1>5. \A m \in Migration : ~InFlight(m)'
    BY <1>1 DEF Inv, LedgerAt, InFlight
  <1>6. LedgerAt'
    BY <1>5 DEF LedgerAt
  <1>7. Control' /\ OneIntent' /\ PhaseAt' /\ IntentAccepted' /\ RegistryAt' /\ TreesAt'
    BY <1>1, <1>4 DEF Inv, Control, OneIntent, PhaseAt, IntentAccepted, RegistryAt, TreesAt
  <1>8. NothingLeftBehind' /\ Participant' /\ JournalAt'
    BY <1>1, <1>4 DEF Inv, NothingLeftBehind, Participant, JournalAt, PreCommit
  <1> QED  BY <1>3, <1>4, <1>6, <1>7, <1>8 DEF Inv

\* Removing the new tree takes nothing of the old one: it is in the backup.
LEMMA RemovePackageTreeInv ==
    ASSUME Inv, RemovePackageTree
    PROVE  Inv'
  <1> USE DEF RemovePackageTree
  <1>1. cur \in Op /\ cur # None /\ Open = {cur} /\ Pkg(cur) \in Package
    BY BusyFacts, RequestFacts
  <1>2. /\ files' \in [Package -> Tree]
        /\ \A p \in Package \ {Pkg(cur)} : files'[p] = files[p]
    BY <1>1, TreeFacts DEF Inv, TypeOK
  <1>3. TypeOK'
    BY <1>2 DEF Inv, TypeOK
  <1>4. Open' = Open
    BY DEF Open
  <1>5. intents[cur].phase \in Undecided
    <2>1. intents[cur].phase \in Phase /\ intents[cur].phase # "committed"
      BY <1>1, OpenFacts DEF Inv, PhaseAt
    <2>2. intents[cur].phase # "rolled_back"
      <3>1. intents[cur].phase = "rolled_back" => Untouched(cur)
        BY <1>1 DEF Inv, TreesByPhase
      <3>2. ActionOf(cur) = "install" => intents[cur].before[Pkg(cur)].version = NoTree
        BY <1>1, OpenFacts DEF Inv
      <3> QED  BY <3>1, <3>2 DEF Untouched, InTheWay, Path
    <2> QED  BY <2>1, <2>2 DEF Phase
  <1>6. OldTree(cur)'
    BY <1>1, <1>5 DEF Inv, TreesByPhase, OldTree, InTheWay
  <1>7. TreesByPhase'
    BY <1>1, <1>2, <1>4, <1>5, <1>6 DEF Inv, TreesByPhase
  <1>8. Control' /\ OneIntent' /\ PhaseAt' /\ IntentAccepted' /\ RegistryAt' /\ TreesAt'
    BY <1>1, <1>4 DEF Inv, Control, OneIntent, PhaseAt, IntentAccepted, RegistryAt, TreesAt
  <1>9. NothingLeftBehind' /\ Participant' /\ LedgerAt' /\ JournalAt'
    BY <1>1, <1>4 DEF Inv, NothingLeftBehind, Participant, LedgerAt, InFlight, JournalAt, PreCommit
  <1> QED  BY <1>3, <1>7, <1>8, <1>9 DEF Inv

\* The old tree is back at its place, however often the rollback was repeated.
LEMMA RestoreBackupInv ==
    ASSUME Inv, RestoreBackup
    PROVE  Inv'
  <1> USE DEF Goto
  <1>1. cur \in Op /\ cur # None /\ Open = {cur} /\ Pkg(cur) \in Package /\ pc = "restore_files"
    BY BusyFacts, RequestFacts DEF RestoreBackup
  <1>2. UNCHANGED <<registry, stage, localVars, dbVars, callVars>> /\ pc' = "discard_stage"
    BY DEF RestoreBackup
  <1>3. Open' = Open
    BY <1>2 DEF Open
  <1>4. /\ files' \in [Package -> Tree] /\ backup' \in [Op -> Tree]
        /\ \A p \in Package \ {Pkg(cur)} : files'[p] = files[p]
        /\ \A o \in Op \ {cur} : backup'[o] = backup[o]
        /\ backup'[cur] = NoTree
        /\ files'[Pkg(cur)] = IF backup[cur] # NoTree THEN backup[cur] ELSE files[Pkg(cur)]
    BY <1>1, TreeFacts DEF Inv, TypeOK, RestoreBackup
  <1>5. TypeOK'
    BY <1>2, <1>4 DEF Inv, TypeOK, PC
  <1>6. /\ intents[cur].phase \in Phase /\ intents[cur].phase # "committed"
        /\ ActionOf(cur) = "install" => /\ intents[cur].before[Pkg(cur)].version = NoTree
                                        /\ Pkg(cur) \notin Installed(intents[cur].before)
        /\ ActionOf(cur) # "install" => intents[cur].before[Pkg(cur)].version \in Version
    BY <1>1, OpenFacts DEF Inv, PhaseAt
  <1>7. Untouched(cur)'
    <2>1. CASE intents[cur].phase = "rolled_back"
      BY <2>1, <1>1, <1>2, <1>4 DEF Inv, TreesByPhase, Untouched
    <2>2. CASE intents[cur].phase \in Undecided
      <3>1. OldTree(cur) /\ ActionOf(cur) \in Action
        BY <2>2, <1>1, RequestFacts DEF Inv, TreesByPhase
      <3>2. CASE ActionOf(cur) = "install"
        BY <3>1, <3>2, <1>1, <1>2, <1>4, <1>6 DEF OldTree, Untouched, RestoreBackup, InTheWay, Path
      <3>3. CASE ActionOf(cur) # "install"
        BY <3>1, <3>3, <1>1, <1>2, <1>4, <1>6, TreeFacts DEF OldTree, Untouched, Action
      <3> QED  BY <3>2, <3>3
    <2> QED  BY <2>1, <2>2, <1>6 DEF Phase
  <1>8. OldTree(cur)'
    BY <1>1, <1>7, RequestFacts DEF OldTree, Untouched, Action
  <1>9. TreesByPhase'
    BY <1>1, <1>2, <1>3, <1>4, <1>6, <1>7, <1>8 DEF Inv, TreesByPhase
  <1>10. TreesAt'
    BY <1>2, <1>7 DEF TreesAt
  <1>11. Control' /\ OneIntent' /\ PhaseAt' /\ IntentAccepted' /\ RegistryAt'
    BY <1>1, <1>2, <1>3 DEF Inv, Control, OneIntent, PhaseAt, IntentAccepted, RegistryAt
  <1>12. NothingLeftBehind' /\ Participant' /\ LedgerAt' /\ JournalAt'
    BY <1>1, <1>2, <1>3, <1>4 DEF Inv, NothingLeftBehind, Participant, LedgerAt, InFlight, JournalAt, PreCommit
  <1> QED  BY <1>5, <1>9, <1>10, <1>11, <1>12 DEF Inv

LEMMA RestoreRegistryInv ==
    ASSUME Inv, RestoreRegistry
    PROVE  Inv'
  <1> USE DEF RestoreRegistry, Goto
  <1>1. cur \in Op /\ cur # None /\ Open = {cur}
    BY BusyFacts
  <1>2. intents[cur].before \in Registry /\ intents[cur].phase # "committed"
    BY <1>1, OpenFacts DEF Inv, PhaseAt
  <1>3. TypeOK'
    BY <1>2 DEF Inv, TypeOK, PC
  <1>4. Open' = Open
    BY DEF Open
  <1>5. Control' /\ OneIntent' /\ PhaseAt' /\ IntentAccepted' /\ RegistryAt'
    BY <1>1, <1>2, <1>4 DEF Inv, Control, OneIntent, PhaseAt, IntentAccepted, RegistryAt
  <1>6. TreesByPhase' /\ TreesAt'
    BY <1>1, <1>4 DEF Inv, TreesByPhase, OldTree, Untouched, Applied, TreesAt
  <1>7. NothingLeftBehind' /\ Participant' /\ LedgerAt' /\ JournalAt'
    BY <1>1, <1>4 DEF Inv, NothingLeftBehind, Participant, LedgerAt, InFlight, JournalAt, PreCommit
  <1> QED  BY <1>3, <1>5, <1>6, <1>7 DEF Inv

LEMMA RolledBackInv ==
    ASSUME Inv, RolledBack
    PROVE  Inv'
  <1> USE DEF RolledBack, Goto
  <1>1. cur \in Op /\ cur # None /\ Open = {cur} /\ "rolled_back" \in Phase
    BY BusyFacts DEF Phase
  <1>2. /\ intents' \in [Op -> {None} \cup Intent] /\ Open' = Open
        /\ intents'[cur].phase = "rolled_back"
        /\ \A o \in Op : /\ intents'[o].before = intents[o].before
                         /\ intents'[o].after = intents[o].after
    BY <1>1, SetPhaseFacts DEF Inv
  <1>3. TypeOK'
    BY <1>2 DEF Inv, TypeOK, PC
  <1>4. Control' /\ OneIntent' /\ PhaseAt' /\ IntentAccepted' /\ RegistryAt'
    BY <1>1, <1>2 DEF Inv, Control, OneIntent, PhaseAt, IntentAccepted, RegistryAt
  <1>5. TreesByPhase' /\ TreesAt'
    BY <1>1, <1>2 DEF Inv, TreesByPhase, TreesAt, Untouched
  <1>6. NothingLeftBehind' /\ Participant' /\ LedgerAt'
    BY <1>1, <1>2 DEF Inv, NothingLeftBehind, Participant, LedgerAt, InFlight
  <1>7. JournalAt'
    <2>1. intents[cur].phase # "committed"
      BY DEF Inv, PhaseAt
    <2> QED  BY <1>1, <1>2, <2>1 DEF Inv, JournalAt, PreCommit
  <1> QED  BY <1>3, <1>4, <1>5, <1>6, <1>7 DEF Inv

LEMMA MarkFailedInv ==
    ASSUME Inv, MarkFailed
    PROVE  Inv'
  <1> USE DEF MarkFailed, Goto
  <1>1. cur \in Op /\ cur # None /\ Open = {cur}
    BY BusyFacts
  <1>2. intents[cur].phase = "rolled_back" /\ journal[cur] # "succeeded"
    BY <1>1 DEF Inv, PhaseAt, JournalAt, PreCommit
  <1>3. /\ journal' \in [Op -> {"none", "started", "failed", "succeeded"}]
        /\ journal'[cur] # "succeeded"
    BY <1>1, <1>2 DEF Inv, TypeOK, SetJournal
  <1>4. TypeOK'
    BY <1>3 DEF Inv, TypeOK, PC
  <1>5. TreesByPhase' /\ Open' = Open
    BY TreesFrame DEF Inv
  <1>6. Control' /\ OneIntent' /\ PhaseAt' /\ IntentAccepted' /\ RegistryAt' /\ TreesAt'
    BY <1>1, <1>2, <1>5 DEF Inv, Control, OneIntent, PhaseAt, IntentAccepted, RegistryAt, TreesAt
  <1>7. NothingLeftBehind' /\ Participant' /\ LedgerAt'
    BY <1>1, <1>5 DEF Inv, NothingLeftBehind, Participant, LedgerAt, InFlight
  <1>8. JournalAt'
    BY <1>1, <1>2, <1>3, <1>5 DEF JournalAt, PreCommit, Committed
  <1> QED  BY <1>4, <1>5, <1>6, <1>7, <1>8 DEF Inv

-----------------------------------------------------------------------------
(* Cleanup.                                                                *)

LEMMA ReleaseOwnerInv ==
    ASSUME Inv, ReleaseOwner
    PROVE  Inv'
  <1> USE DEF ReleaseOwner, Goto
  <1>1. cur \in Op /\ cur # None /\ Open = {cur}
    BY BusyFacts
  <1>2. TypeOK'
    BY DEF Inv, TypeOK, PC
  <1>3. TreesByPhase' /\ Open' = Open
    BY TreesFrame DEF Inv
  <1>4. Control' /\ OneIntent' /\ PhaseAt' /\ IntentAccepted' /\ RegistryAt' /\ TreesAt'
    BY <1>1, <1>3 DEF Inv, Control, OneIntent, PhaseAt, IntentAccepted, RegistryAt, TreesAt
  <1>5. NothingLeftBehind' /\ Participant' /\ LedgerAt' /\ JournalAt'
    BY <1>1, <1>3 DEF Inv, NothingLeftBehind, Participant, LedgerAt, InFlight, JournalAt,
                      PreCommit, Committed
  <1> QED  BY <1>2, <1>3, <1>4, <1>5 DEF Inv

LEMMA UnlinkParticipantInv ==
    ASSUME Inv, UnlinkParticipant
    PROVE  Inv'
  <1> USE DEF UnlinkParticipant, Goto
  <1>1. cur \in Op /\ cur # None /\ Open = {cur}
    BY BusyFacts
  <1>2. /\ participants' \in [Op -> {"none", "preparing", "prepared", "finished"}]
        /\ participants'[cur] = "none"
        /\ \A o \in Op \ {cur} : participants'[o] = participants[o]
    BY <1>1 DEF Inv, TypeOK, SetParticipant
  <1>3. TypeOK'
    BY <1>2 DEF Inv, TypeOK, PC
  <1>4. TreesByPhase' /\ Open' = Open
    BY TreesFrame DEF Inv
  <1>5. Control' /\ OneIntent' /\ PhaseAt' /\ IntentAccepted' /\ RegistryAt' /\ TreesAt'
    BY <1>1, <1>4 DEF Inv, Control, OneIntent, PhaseAt, IntentAccepted, RegistryAt, TreesAt
  <1>6. NothingLeftBehind' /\ Participant' /\ LedgerAt' /\ JournalAt'
    BY <1>1, <1>2, <1>4 DEF Inv, NothingLeftBehind, Participant, LedgerAt, InFlight, JournalAt,
                      PreCommit, Committed
  <1> QED  BY <1>3, <1>4, <1>5, <1>6 DEF Inv

LEMMA RemoveStageInv ==
    ASSUME Inv, RemoveStage
    PROVE  Inv'
  <1> USE DEF RemoveStage, Goto
  <1>1. cur \in Op /\ cur # None /\ Open = {cur}
    BY BusyFacts
  <1>2. /\ stage' \in [Op -> Tree] /\ \A o \in Op \ {cur} : stage'[o] = stage[o]
        /\ stage[cur] \notin Version => stage'[cur] = NoTree
    BY <1>1, TreeFacts DEF Inv, TypeOK
  <1>3. TypeOK'
    BY <1>2 DEF Inv, TypeOK, PC
  <1>4. TreesByPhase' /\ Open' = Open
    BY TreesFrame DEF Inv
  <1>5. pc \in {"remove_stage", "discard_stage"} /\ pc' \in {pc, "remove_backup", "restore_registry"}
        /\ (pc' = "remove_backup" => pc = "remove_stage" /\ stage[cur] \notin Version)
        /\ (pc' = "restore_registry" => pc = "discard_stage")
    OBVIOUS
  <1>6. TreesAt'
    BY <1>2, <1>5 DEF Inv, TreesAt, Untouched
  <1>7. Control' /\ OneIntent' /\ PhaseAt' /\ IntentAccepted' /\ RegistryAt'
    BY <1>1, <1>4, <1>5 DEF Inv, Control, OneIntent, PhaseAt, IntentAccepted, RegistryAt
  <1>8. NothingLeftBehind' /\ Participant' /\ LedgerAt' /\ JournalAt'
    BY <1>1, <1>2, <1>4, <1>5 DEF Inv, NothingLeftBehind, Participant, LedgerAt, InFlight, JournalAt,
                      PreCommit, Committed
  <1> QED  BY <1>3, <1>4, <1>6, <1>7, <1>8 DEF Inv

\* Only a finished intent loses its backup.
LEMMA RemoveBackupInv ==
    ASSUME Inv, RemoveBackup
    PROVE  Inv'
  <1> USE DEF RemoveBackup, Goto
  <1>1. cur \in Op /\ cur # None /\ Open = {cur}
    BY BusyFacts
  <1>2. /\ backup' \in [Op -> Tree] /\ \A o \in Op \ {cur} : backup'[o] = backup[o]
        /\ backup[cur] \notin Version => backup'[cur] = NoTree
    BY <1>1, TreeFacts DEF Inv, TypeOK
  <1>3. TypeOK'
    BY <1>2 DEF Inv, TypeOK, PC
  <1>4. Open' = Open
    BY DEF Open
  <1>5. intents[cur].phase \in {"committed", "rolled_back"}
    BY DEF Inv, PhaseAt
  <1>6. intents[cur].phase = "rolled_back" => Untouched(cur) /\ backup'[cur] = NoTree
    BY <1>1, <1>2, TreeFacts DEF Inv, TreesByPhase, Untouched
  <1>7. TreesByPhase'
    BY <1>1, <1>4, <1>5, <1>6 DEF Inv, TreesByPhase, Untouched, Applied
  <1>8. TreesAt'
    BY <1>2 DEF Inv, TreesAt
  <1>9. Control' /\ OneIntent' /\ PhaseAt' /\ IntentAccepted' /\ RegistryAt'
    BY <1>1, <1>4 DEF Inv, Control, OneIntent, PhaseAt, IntentAccepted, RegistryAt
  <1>10. NothingLeftBehind' /\ Participant' /\ LedgerAt' /\ JournalAt'
    BY <1>1, <1>2, <1>4 DEF Inv, NothingLeftBehind, Participant, LedgerAt, InFlight, JournalAt,
                      PreCommit, Committed
  <1> QED  BY <1>3, <1>7, <1>8, <1>9, <1>10 DEF Inv

\* The transaction is over: its trees are those of packages.json.
LEMMA UnlinkIntentInv ==
    ASSUME Inv, UnlinkIntent
    PROVE  Inv'
  <1> USE DEF UnlinkIntent, Return, End
  <1>1. cur \in Op /\ Open = {cur}
    BY BusyFacts
  <1>2. /\ intents' \in [Op -> {None} \cup Intent] /\ intents'[cur] = None
        /\ \A o \in Op \ {cur} : intents'[o] = intents[o]
    BY <1>1 DEF Inv, TypeOK
  <1>3. Open' = {}
    BY <1>1, <1>2 DEF Open
  <1>4. pc' \in {"idle", "recover"} /\ cur' = None
    OBVIOUS
  <1>5. TypeOK'
    BY <1>2 DEF Inv, TypeOK, PC
  <1>6. \A p \in Package : files[p] = registry[p].version
    <2>1. \/ HasVersions(intents[cur].after) /\ Applied(cur)
          \/ HasVersions(intents[cur].before) /\ Untouched(cur)
      BY <1>1 DEF Inv, PhaseAt, RegistryAt, TreesByPhase
    <2>2. /\ \A p \in Package \ {Pkg(cur)} : files[p] = intents[cur].before[p].version
          /\ \A p \in Package \ {Pkg(cur)} : intents[cur].after[p] = intents[cur].before[p]
      BY <1>1, OpenFacts DEF Inv, TreesByPhase
    <2> QED  BY <2>1, <2>2 DEF Applied, Untouched
  <1>7. TreesByPhase'
    BY <1>3, <1>6 DEF TreesByPhase
  <1>8. stage[cur] = NoTree /\ backup[cur] = NoTree /\ participants[cur] = "none" /\ prepared[cur] = None
        /\ \A m \in Migration : ~InFlight(m)
    BY DEF Inv, TreesAt, Participant, LedgerAt
  <1>9. NothingLeftBehind'
    BY <1>1, <1>8 DEF Inv, NothingLeftBehind
  <1>10. Participant' /\ LedgerAt'
    BY <1>4, <1>8 DEF Inv, Participant, LedgerAt, InFlight
  <1>11. Control' /\ OneIntent' /\ PhaseAt' /\ IntentAccepted' /\ RegistryAt' /\ TreesAt' /\ JournalAt'
    BY <1>3, <1>4 DEF Control, OneIntent, PhaseAt, IntentAccepted, RegistryAt, TreesAt, JournalAt, PreCommit
  <1> QED  BY <1>5, <1>7, <1>9, <1>10, <1>11 DEF Inv

\* What a quarantine does to the registry: no version changes.
LEMMA ContainedChange ==
    ASSUME NEW reg \in Registry, NEW p \in Package, CanQuarantine(reg, p)
    PROVE  /\ Quarantined(reg, p) \in Registry
           /\ \A q \in Package : Quarantined(reg, p)[q].version = reg[q].version
  <1> DEFINE new == [reg[p] EXCEPT !.status = "disabled"]
  <1>1. reg[p] \in [version : Version, status : {"installed", "enabled", "disabled"}]
    BY DEF CanQuarantine, Installed, Registry, PackageRecord, Absent
  <1>2. new = [version |-> reg[p].version, status |-> "disabled"]
    BY <1>1
  <1>3. new \in PackageRecord /\ new.version = reg[p].version
    BY <1>1, <1>2 DEF PackageRecord
  <1>4. Quarantined(reg, p) = [reg EXCEPT ![p] = new]
    BY DEF Quarantined
  <1> HIDE DEF new
  <1> QED  BY <1>3, <1>4 DEF Registry

\* Containment between two calls: whatever is open, the versions stay.
LEMMA QuarantineInv ==
    ASSUME Inv, NEW p \in Package, Quarantine(p)
    PROVE  Inv'
  <1> USE DEF Quarantine, Return, End
  <1>1. /\ registry' \in Registry
        /\ \A q \in Package : registry'[q].version = registry[q].version
    BY ContainedChange DEF Inv, TypeOK
  <1>2. TypeOK'
    BY <1>1 DEF Inv, TypeOK, PC
  <1>3. Open' = Open /\ \A o \in Op : (PreCommit(o)' <=> PreCommit(o))
    BY DEF Open, PreCommit
  <1>4. TreesByPhase'
    BY <1>1, <1>3 DEF Inv, TreesByPhase, OldTree, Applied, Untouched
  <1>5. RegistryByPhase'
    BY <1>1, <1>3 DEF Inv, RegistryAt
  <1>6. pc' = "idle" /\ cur' = None
    OBVIOUS
  <1> HIDE DEF RegistryByPhase, HasVersions, Quarantine
  <1>7. Control' /\ OneIntent' /\ PhaseAt' /\ IntentAccepted' /\ RegistryAt' /\ TreesAt'
    BY <1>3, <1>5, <1>6 DEF Inv, Control, OneIntent, PhaseAt, IntentAccepted, RegistryAt, TreesAt,
                    Quarantine
  <1>8. NothingLeftBehind' /\ Participant' /\ LedgerAt' /\ JournalAt'
    BY <1>3, <1>6 DEF Inv, NothingLeftBehind, Participant, LedgerAt, InFlight, JournalAt, Quarantine
  <1> QED  BY <1>2, <1>4, <1>7, <1>8 DEF Inv

-----------------------------------------------------------------------------
(* The invariant.                                                          *)

\* Nothing changes in a stuttering step.
LEMMA StutterInv ==
    ASSUME Inv, UNCHANGED vars
    PROVE  Inv'
  <1> USE DEF vars
  <1>1. Durable' /\ Open' = Open
    BY DurableFrame DEF durable
  <1>2. TypeOK'
    BY DEF Inv, TypeOK
  <1> QED
    BY <1>1, <1>2 DEF Inv, Durable, Control, OneIntent, PhaseAt, IntentAccepted, RegistryAt,
                    TreesAt, Untouched, Applied, Participant, LedgerAt, InFlight, JournalAt,
                    PreCommit, Committed

LEMMA NextInv ==
    ASSUME Inv, [Next]_vars
    PROVE  Inv'
  <1>1. CASE \E o \in Op \cup {None} : Call(o)
    BY <1>1, CallInv
  <1>2. CASE RecoverStep
    BY <1>2, RecoverIntentInv, RecoverRefusedInv, RecoverDoneInv DEF RecoverStep
  <1>3. CASE StartStep
    BY <1>3, ReplayInv, BeginInv, AcceptInv, RejectInv, ResetOccupancyInv DEF StartStep
  <1>4. CASE ForwardStep
    BY <1>4, WriteIntentInv, StageInv, ApplyFilesInv, FilesAppliedInv, SqlIntentInv, PrepareInv,
       MarkApplyingInv, SqlPreparedInv, RecordStartedInv, FailInv, WriteRegistryInv,
       RegistryAppliedInv, CommitInv DEF ForwardStep
  <1>5. CASE CompletionStep
    BY <1>5, CommitSqlInv, MarkAppliedInv, SqlFinishedInv, PostconditionInv, SucceedInv
       DEF CompletionStep
  <1>6. CASE RollbackStep
    BY <1>6, RollbackSqlInv, MarkRolledBackInv, RemovePackageTreeInv, RestoreBackupInv,
       RestoreRegistryInv, RolledBackInv, MarkFailedInv DEF RollbackStep
  <1>7. CASE CleanupStep
    BY <1>7, ReleaseOwnerInv, UnlinkParticipantInv, RemoveStageInv, RemoveBackupInv,
       UnlinkIntentInv DEF CleanupStep
  <1>8. CASE Refuse \/ Fail \/ Crash
    BY <1>8, RejectInv, FailInv, CrashInv
  <1>9. CASE UNCHANGED vars
    BY <1>9, StutterInv
  <1>10. CASE \E p \in Package : Quarantine(p)
    BY <1>10, QuarantineInv
  <1> QED
    BY <1>1, <1>2, <1>3, <1>4, <1>5, <1>6, <1>7, <1>8, <1>9, <1>10 DEF Next, Step

\* The invariant of every behaviour, with any number of crashes, failures and replays.
THEOREM Invariance == Spec => []Inv
  BY InitInv, NextInv, PTL DEF Spec

\* Whatever is interrupted, every durable file, row and directory is one that
\* recovery can read again.
THEOREM LifecycleTypeCorrect == Spec => []TypeOK
  <1>1. Inv => TypeOK
    BY DEF Inv
  <1> QED  BY <1>1, Invariance, PTL

\* Recovery before every operation: two transactions are never open.
THEOREM OneTransactionAtATime == Spec => []AtMostOneIntent
  <1>1. Inv => AtMostOneIntent
    BY DEF Inv, OneIntent, AtMostOneIntent
  <1> QED  BY <1>1, Invariance, PTL

\* _cleanup_intent: no tree, participant record or prepared transaction is left
\* of an operation whose intent is gone, however it ended.
THEOREM CleanupIsComplete == Spec => []NothingLeftBehind
  <1>1. Inv => NothingLeftBehind
    BY DEF Inv
  <1> QED  BY <1>1, Invariance, PTL

\* With no transaction open, every package tree is whole and of the version that
\* packages.json names, and no migration is in flight.
THEOREM TreesFollowTheRegistry == Spec => []TreesMatchRegistry
  <1>1. Inv => TreesMatchRegistry
    BY DEF Inv, TreesByPhase, LedgerAt, InFlight, TreesMatchRegistry
  <1> QED  BY <1>1, Invariance, PTL

\* _apply_files and _rollback_intent: until the decision the installed version is
\* whole, at its path or in the backup, through interrupted rollbacks too.
THEOREM OldVersionIsNeverLost == Spec => []OldVersionSurvives
  <1>1. Inv => OldVersionSurvives
    <2> SUFFICES ASSUME Inv, NEW o \in Op, PreCommit(o), ActionOf(o) \in {"update", "uninstall"}
                 PROVE  intents[o].before[Pkg(o)].version \in {files[Pkg(o)], backup[o]}
      BY DEF OldVersionSurvives
    <2>1. o \in Open /\ intents[o].phase \in Phase /\ intents[o].phase # "committed"
      BY OpenFacts DEF PreCommit, Inv
    <2>2. CASE intents[o].phase = "rolled_back"
      BY <2>1, <2>2 DEF Inv, TreesByPhase, Untouched
    <2>3. CASE intents[o].phase \in Undecided
      BY <2>1, <2>3 DEF Inv, TreesByPhase, OldTree
    <2> QED  BY <2>1, <2>2, <2>3 DEF Phase
  <1> QED  BY <1>1, Invariance, PTL

-----------------------------------------------------------------------------
(* The two-phase commit.                                                   *)

\* Three steps touch a prepared transaction: prepare() and the two that end it.
LEMMA PreparedChanges ==
    ASSUME [Next]_vars, prepared' # prepared
    PROVE  Prepare \/ CommitSql \/ RollbackSql
  <1>1. Next
    BY DEF vars
  <1>2. ~(\E o \in Op \cup {None} : Call(o)) /\ ~Refuse /\ ~Fail /\ ~Crash
        /\ ~(\E p \in Package : Quarantine(p))
    BY DEF Call, Refuse, FailWithoutIntent, Fail, RollBack, Crash, Quarantine
  <1>3. ~RecoverStep /\ ~StartStep
    BY DEF RecoverStep, RecoverIntent, RecoverRefused, RecoverDone,
           StartStep, Replay, Begin, Accept, Reject, ResetOccupancy, FailWithoutIntent
  <1>4. ForwardStep => Prepare
    BY DEF ForwardStep, WriteIntent, Stage, ApplyFiles, FilesApplied, SqlIntent, MarkApplying,
           SqlPrepared, RecordStarted, PrepareRefused, RollBack, WriteRegistry, RegistryApplied, Commit
  <1>5. CompletionStep => CommitSql
    BY DEF CompletionStep, MarkApplied, SqlFinished, Postcondition, Succeed
  <1>6. RollbackStep => RollbackSql
    BY DEF RollbackStep, MarkRolledBack, RemovePackageTree, RestoreBackup, RestoreRegistry,
           RolledBack, MarkFailed
  <1>7. ~CleanupStep
    BY DEF CleanupStep, ReleaseOwner, UnlinkParticipant, RemoveStage, RemoveBackup, UnlinkIntent
  <1> QED  BY <1>1, <1>2, <1>3, <1>4, <1>5, <1>6, <1>7 DEF Next, Step

\* The prepared database transaction ends the way the intent was decided: its
\* migrations are in the schema exactly when the intent is committed
\* (package_sql_recovery_action, PackageSqlLifecycle.commit and rollback).
THEOREM DatabaseFollowsTheDecision == Spec => DecisionIsRespected
  <1> DEFINE Ends == \A o \in Op :
                        prepared[o] # None /\ prepared'[o] = None =>
                           IF Committed(o) THEN prepared[o] \subseteq schema' ELSE schema' = schema
  <1>1. ASSUME Inv, [Next]_vars PROVE Ends
    <2> SUFFICES ASSUME NEW o \in Op, prepared[o] # None, prepared'[o] = None
                 PROVE  IF Committed(o) THEN prepared[o] \subseteq schema' ELSE schema' = schema
      OBVIOUS
    <2> USE <1>1
    <2>1. Prepare \/ CommitSql \/ RollbackSql
      BY PreparedChanges
    <2>2. cur \in Op /\ Open = {cur}
      BY <2>1, BusyFacts DEF Prepare, CommitSql, RollbackSql
    <2>3. CASE Prepare
      <3>1. {m \in MigrationsOf(cur) : ledger[m] # "applied"} \in SUBSET Migration
        BY <2>2, MigrationFacts
      <3> QED  BY <2>2, <2>3, <3>1, RequestAssumption DEF Prepare, Inv, TypeOK
    <2>4. CASE CommitSql
      <3>1. o = cur
        BY <2>2, <2>4 DEF CommitSql, Inv, TypeOK
      <3>2. Committed(cur)
        BY <2>2, <2>4 DEF CommitSql, Inv, PhaseAt, Committed
      <3>3. schema' = schema \cup prepared[cur]
        BY <2>4, <3>1 DEF CommitSql
      <3> QED  BY <3>1, <3>2, <3>3
    <2>5. CASE RollbackSql
      <3>1. schema' = schema
        BY <2>5 DEF RollbackSql
      <3>2. o = cur
        BY <2>2, <2>5 DEF RollbackSql, Inv, TypeOK
      <3>3. ~Committed(cur)
        BY <2>2, <2>5 DEF RollbackSql, Inv, PhaseAt, Committed
      <3> QED  BY <3>1, <3>2, <3>3
    <2> QED  BY <2>1, <2>3, <2>4, <2>5
  <1>2. ASSUME Inv, [Next]_vars PROVE [Ends]_vars
    BY <1>1, <1>2
  <1> QED  BY <1>2, Invariance, PTL DEF Spec, DecisionIsRespected

-----------------------------------------------------------------------------
(* The refinement of PackageRegistry.                                      *)

\* The registry callers see, and the operations that took effect: the values
\* Abstract gives the variables of PackageRegistry.
SeenRegistry ==
    IF \E o \in Op : PreCommit(o)
    THEN intents[CHOOSE o \in Op : PreCommit(o)].before
    ELSE registry

SeenDone == {o \in Op : journal[o] = "succeeded" \/ Committed(o)}

\* With one intent at most, the seen registry is its before or packages.json.
LEMMA Seen ==
    ASSUME \A o, q \in Open : o = q
    PROVE  /\ \A o \in Op : PreCommit(o) => SeenRegistry = intents[o].before
           /\ (\A o \in Op : ~PreCommit(o)) => SeenRegistry = registry
  <1>1. ASSUME NEW o \in Op, PreCommit(o) PROVE SeenRegistry = intents[o].before
    <2>1. \A q \in Op : PreCommit(q) => q = o
      BY <1>1 DEF PreCommit
    <2>2. (CHOOSE q \in Op : PreCommit(q)) = o
      BY <1>1, <2>1
    <2> QED  BY <1>1, <2>2 DEF SeenRegistry
  <1> QED  BY <1>1 DEF SeenRegistry

\* The resolver of PackageRegistry, as Abstract instantiates it, is the one the
\* transaction calls: both are PackageGraph's, over the same constants.
LEMMA SameResolver ==
    ASSUME NEW reg, NEW r
    PROVE  /\ Abstract!Accepts(reg, r) <=> Accepts(reg, r)
           /\ Abstract!After(reg, r) = After(reg, r)
  <1>1. \A x : Abstract!Installed(x) = Installed(x) /\ Abstract!Enabled(x) = Enabled(x)
    BY DEF Abstract!Installed, Installed, Abstract!Enabled, Enabled
  <1>2. \A x, p : /\ Abstract!ManifestOf(x, p) = ManifestOf(x, p)
                  /\ Abstract!Required(x, p) = Required(x, p)
    BY DEF Abstract!ManifestOf, ManifestOf, Abstract!Required, Required
  <1>3. \A x, S : Abstract!ResolveCapabilities(x, S) <=> ResolveCapabilities(x, S)
    BY <1>2 DEF Abstract!ResolveCapabilities, ResolveCapabilities
  <1>4. \A x : Abstract!ResolveInstallOrder(x) <=> ResolveInstallOrder(x)
    <2> TAKE x
    <2>1. Abstract!NoConflicts(x) <=> NoConflicts(x)
      BY <1>1, <1>2 DEF Abstract!NoConflicts, NoConflicts
    <2>2. Abstract!DependenciesMatch(x) <=> DependenciesMatch(x)
      BY <1>1, <1>2 DEF Abstract!DependenciesMatch, DependenciesMatch
    <2>3. Abstract!Acyclic(x) <=> Acyclic(x)
      BY <1>1, <1>2 DEF Abstract!Acyclic, Acyclic
    <2> QED  BY <1>1, <1>2, <1>3, <2>1, <2>2, <2>3 DEF Abstract!ResolveInstallOrder, ResolveInstallOrder
  <1>5. \A x, q : Abstract!RequireEnabledDependencies(x, q) <=> RequireEnabledDependencies(x, q)
    BY <1>2 DEF Abstract!RequireEnabledDependencies, RequireEnabledDependencies
  <1>6. \A x, S, T : Abstract!RequireEnabledCapabilities(x, S, T) <=> RequireEnabledCapabilities(x, S, T)
    BY <1>1, <1>3 DEF Abstract!RequireEnabledCapabilities, RequireEnabledCapabilities
  <1>7. \A x, q, S : Abstract!RequiredDependents(x, q, S) = RequiredDependents(x, q, S)
    BY <1>2 DEF Abstract!RequiredDependents, RequiredDependents
  <1>8. Abstract!After(reg, r) = After(reg, r)
    BY DEF Abstract!After, After, Abstract!Absent, Absent
  <1>9. /\ Abstract!CanInstall(reg, r) <=> CanInstall(reg, r)
        /\ Abstract!CanUpdate(reg, r) <=> CanUpdate(reg, r)
    BY <1>1, <1>4, <1>5, <1>6, <1>8
       DEF Abstract!CanInstall, CanInstall, Abstract!CanUpdate, CanUpdate
  <1>10. Abstract!CanEnable(reg, r) <=> CanEnable(reg, r)
    BY <1>1, <1>5, <1>6 DEF Abstract!CanEnable, CanEnable
  <1>11. /\ Abstract!CanDisable(reg, r) <=> CanDisable(reg, r)
         /\ Abstract!CanUninstall(reg, r) <=> CanUninstall(reg, r)
    BY <1>1, <1>6, <1>7 DEF Abstract!CanDisable, CanDisable, Abstract!CanUninstall, CanUninstall
  <1> QED  BY <1>8, <1>9, <1>10, <1>11 DEF Abstract!Accepts, Accepts

\* And so is its containment.
LEMMA SameContainment ==
    ASSUME NEW reg, NEW p
    PROVE  /\ Abstract!CanQuarantine(reg, p) <=> CanQuarantine(reg, p)
           /\ Abstract!Quarantined(reg, p) = Quarantined(reg, p)
  BY DEF Abstract!CanQuarantine, CanQuarantine, Abstract!Installed, Installed,
         Abstract!Quarantined, Quarantined

\* The same of the next state.
LEMMA SeenNext ==
    ASSUME (\A o, q \in Open : o = q)'
    PROVE  /\ \A o \in Op : PreCommit(o)' => SeenRegistry' = intents'[o].before
           /\ (\A o \in Op : ~PreCommit(o)') => SeenRegistry' = registry'
  <1>1. ASSUME NEW o \in Op, PreCommit(o)' PROVE SeenRegistry' = intents'[o].before
    <2>1. \A q \in Op : PreCommit(q)' => q = o
      BY <1>1 DEF PreCommit
    <2>2. (CHOOSE q \in Op : PreCommit(q)') = o
      BY <1>1, <2>1
    <2> QED  BY <1>1, <2>2 DEF SeenRegistry
  <1> QED  BY <1>1 DEF SeenRegistry

\* A step that touches neither packages.json, nor an intent, nor a success in the
\* journal is invisible.
LEMMA SeenFrame ==
    ASSUME Inv, Inv', UNCHANGED <<registry, intents>>,
           \A o \in Op : journal'[o] = "succeeded" <=> journal[o] = "succeeded"
    PROVE  UNCHANGED <<SeenRegistry, SeenDone>>
  <1>1. /\ Open' = Open
        /\ \A o \in Op : (PreCommit(o)' <=> PreCommit(o)) /\ (Committed(o)' <=> Committed(o))
    BY DEF Open, PreCommit, Committed
  <1>2. SeenDone' = SeenDone
    BY <1>1 DEF SeenDone
  <1>3. SeenRegistry' = SeenRegistry
    BY <1>1, Seen, SeenNext DEF Inv, OneIntent
  <1> QED  BY <1>2, <1>3

\* The journal writes that do not record a success.
LEMMA SeenJournal ==
    ASSUME Inv, Inv', RecoverDone \/ Begin \/ Reject \/ Refuse \/ MarkFailed
    PROVE  UNCHANGED <<SeenRegistry, SeenDone>>
  <1>1. UNCHANGED <<registry, intents>>
    BY DEF RecoverDone, Begin, Reject, Refuse, FailWithoutIntent, MarkFailed
  <1>2. \A o \in Op : journal'[o] = "succeeded" <=> journal[o] = "succeeded"
    <2>1. CASE RecoverDone
      BY <2>1 DEF RecoverDone
    <2>2. CASE Begin
      BY <2>2 DEF Begin, SetJournal, Inv, TypeOK
    <2>3. CASE Reject \/ Refuse
      <3>1. cur \in Op /\ journal[cur] # "succeeded"
        BY <2>3 DEF Reject, Refuse, Inv, JournalAt, Control, TypeOK
      <3>2. journal' = [journal EXCEPT ![cur] = "failed"]
        BY <2>3 DEF Reject, Refuse, FailWithoutIntent, SetJournal
      <3> QED  BY <3>1, <3>2 DEF Inv, TypeOK
    <2>4. CASE MarkFailed
      BY <2>4 DEF MarkFailed, SetJournal, Inv, TypeOK
    <2> QED  BY <2>1, <2>2, <2>3, <2>4
  <1> QED  BY <1>1, <1>2, SeenFrame

\* The intent is written: the registry it holds is the one callers see.
LEMMA SeenWriteIntent ==
    ASSUME Inv, Inv', WriteIntent
    PROVE  UNCHANGED <<SeenRegistry, SeenDone>>
  <1> USE DEF WriteIntent, Goto
  <1>1. cur \in Op /\ Open = {}
    BY DEF Inv, TypeOK, Control, OneIntent
  <1>2. cur' \in Open' /\ intents'[cur].phase = "prepared" /\ intents'[cur].before = registry
    BY <1>1 DEF Inv, TypeOK, OneIntent
  <1>3. PreCommit(cur)' /\ \A o \in Op : ~PreCommit(o) /\ ~Committed(o) /\ ~Committed(o)'
    BY <1>1, <1>2 DEF Inv, OneIntent, PreCommit, Committed
  <1>4. SeenRegistry = registry /\ SeenRegistry' = registry
    BY <1>1, <1>2, <1>3, Seen, SeenNext DEF Inv, OneIntent
  <1>5. SeenDone' = SeenDone
    BY <1>3 DEF SeenDone
  <1> QED  BY <1>4, <1>5

\* Before the decision neither the phase nor packages.json is visible.
LEMMA SeenPreCommit ==
    ASSUME Inv, Inv',
           FilesApplied \/ WriteRegistry \/ RegistryApplied \/ RestoreRegistry \/ RolledBack
    PROVE  UNCHANGED <<SeenRegistry, SeenDone>>
  <1>1. cur \in Op /\ Open = {cur} /\ intents[cur].phase # "committed"
    BY BusyFacts DEF FilesApplied, WriteRegistry, RegistryApplied, RestoreRegistry, RolledBack, Inv, PhaseAt
  <1>2. /\ UNCHANGED journal /\ Open' = Open
        /\ intents'[cur].phase # "committed"
        /\ intents'[cur].before = intents[cur].before
    <2>1. CASE WriteRegistry \/ RestoreRegistry
      BY <1>1, <2>1 DEF WriteRegistry, RestoreRegistry, Open
    <2>2. CASE FilesApplied
      <3>1. SetPhase("files_applied") /\ "files_applied" \in Phase
        BY <2>2 DEF FilesApplied, Phase
      <3> QED  BY <1>1, <2>2, <3>1, SetPhaseFacts DEF Inv, FilesApplied
    <2>3. CASE RegistryApplied
      <3>1. SetPhase("registry_applied") /\ "registry_applied" \in Phase
        BY <2>3 DEF RegistryApplied, Phase
      <3> QED  BY <1>1, <2>3, <3>1, SetPhaseFacts DEF Inv, RegistryApplied
    <2>4. CASE RolledBack
      <3>1. SetPhase("rolled_back") /\ "rolled_back" \in Phase
        BY <2>4 DEF RolledBack, Phase
      <3> QED  BY <1>1, <2>4, <3>1, SetPhaseFacts DEF Inv, RolledBack
    <2> QED  BY <2>1, <2>2, <2>3, <2>4
  <1>3. PreCommit(cur) /\ PreCommit(cur)' /\ \A o \in Op : ~Committed(o) /\ ~Committed(o)'
    <2>1. cur' = cur
      BY DEF FilesApplied, WriteRegistry, RegistryApplied, RestoreRegistry, RolledBack, Goto
    <2> QED  BY <1>1, <1>2, <2>1 DEF PreCommit, Committed
  <1>4. SeenRegistry' = SeenRegistry
    <2>1. cur' = cur
      BY DEF FilesApplied, WriteRegistry, RegistryApplied, RestoreRegistry, RolledBack, Goto
    <2> QED  BY <1>1, <1>2, <1>3, <2>1, Seen, SeenNext DEF Inv, OneIntent
  <1>5. SeenDone' = SeenDone
    BY <1>2, <1>3 DEF SeenDone
  <1> QED  BY <1>4, <1>5

\* The success of a decided operation was visible since the decision.
LEMMA SeenSucceed ==
    ASSUME Inv, Inv', Succeed
    PROVE  UNCHANGED <<SeenRegistry, SeenDone>>
  <1>1. cur \in Op /\ Open = {cur} /\ UNCHANGED <<registry, intents>>
    BY BusyFacts DEF Succeed
  <1>2. Committed(cur)
    BY <1>1 DEF Succeed, Inv, PhaseAt, Committed
  <1>3. \A o \in Op \ {cur} : journal'[o] = journal[o]
    BY <1>1 DEF Succeed, SetJournal, Inv, TypeOK
  <1>4. /\ Open' = Open
        /\ \A o \in Op : (PreCommit(o)' <=> PreCommit(o)) /\ (Committed(o)' <=> Committed(o))
    BY <1>1 DEF Open, PreCommit, Committed
  <1>5. SeenDone' = SeenDone
    BY <1>2, <1>3, <1>4 DEF SeenDone
  <1>6. SeenRegistry' = SeenRegistry
    BY <1>1, <1>4, Seen, SeenNext DEF Inv, OneIntent
  <1> QED  BY <1>5, <1>6

\* The end of a transaction: packages.json is what callers already saw, and a
\* decided operation stays done by its journal entry.
LEMMA SeenUnlinkIntent ==
    ASSUME Inv, Inv', UnlinkIntent
    PROVE  UNCHANGED <<SeenRegistry, SeenDone>>
  <1>1. cur \in Op /\ Open = {cur} /\ UNCHANGED <<registry, journal>> /\ pc = "unlink_intent"
    BY BusyFacts DEF UnlinkIntent
  <1>2. Open' = {}
    BY <1>1 DEF UnlinkIntent, Open, Inv, TypeOK
  <1>3. \A o \in Op : ~PreCommit(o)' /\ ~Committed(o)'
    BY <1>2 DEF PreCommit, Committed
  <1>4. SeenRegistry' = registry
    BY <1>1, <1>3, SeenNext DEF Inv, OneIntent
  <1>5. CASE intents[cur].phase = "committed"
    <2>1. Committed(cur) /\ journal[cur] = "succeeded" /\ \A o \in Op : ~PreCommit(o)
      BY <1>1, <1>5 DEF Inv, JournalAt, PreCommit, Committed
    <2>2. SeenRegistry = registry
      BY <2>1, Seen DEF Inv, OneIntent
    <2>3. SeenDone' = SeenDone
      BY <1>1, <1>3, <2>1 DEF SeenDone, Committed
    <2> QED  BY <1>4, <2>2, <2>3
  <1>6. CASE intents[cur].phase = "rolled_back"
    <2>1. PreCommit(cur) /\ registry = intents[cur].before /\ \A o \in Op : ~Committed(o)
      BY <1>1, <1>6 DEF Inv, RegistryAt, PreCommit, Committed
    <2>2. SeenRegistry = registry
      BY <1>1, <2>1, Seen DEF Inv, OneIntent
    <2>3. SeenDone' = SeenDone
      BY <1>1, <1>3, <2>1 DEF SeenDone
    <2> QED  BY <1>4, <2>2, <2>3
  <1> QED  BY <1>1, <1>5, <1>6 DEF Inv, PhaseAt

\* The write of the committed intent is the one visible step: it is the atomic
\* operation, accepted in the registry callers saw and applied for the first time.
LEMMA SeenCommit ==
    ASSUME Inv, Inv', Commit
    PROVE  /\ cur \in Op /\ cur \notin SeenDone
           /\ Accepts(SeenRegistry, Request[cur])
           /\ SeenRegistry' = After(SeenRegistry, Request[cur])
           /\ SeenDone' = SeenDone \cup {cur}
  <1>1. cur \in Op /\ Open = {cur} /\ UNCHANGED <<registry, journal, cur>> /\ pc = "commit"
    BY BusyFacts DEF Commit, Goto
  <1>2. PreCommit(cur) /\ ~Committed(cur)
    BY <1>1 DEF Inv, PhaseAt, PreCommit, Committed
  <1>3. SeenRegistry = intents[cur].before
    BY <1>1, <1>2, Seen DEF Inv, OneIntent
  <1>4. Open' = Open /\ intents'[cur].phase = "committed"
    <2>1. SetPhase("committed") /\ "committed" \in Phase
      BY DEF Commit, Phase
    <2> QED  BY <1>1, <2>1, SetPhaseFacts DEF Inv
  <1>5. Committed(cur)' /\ \A o \in Op : ~PreCommit(o)'
    BY <1>1, <1>4 DEF PreCommit, Committed
  <1>6. SeenRegistry' = registry
    BY <1>1, <1>5, SeenNext DEF Inv, OneIntent
  <1>7. registry = After(intents[cur].before, Request[cur]) /\ Accepts(intents[cur].before, Request[cur])
    BY <1>1 DEF Inv, RegistryAt, IntentAccepted
  <1>8. journal[cur] # "succeeded"
    BY <1>1, <1>2 DEF Inv, JournalAt
  <1>9. \A o \in Op \ {cur} : ~Committed(o) /\ ~Committed(o)'
    BY <1>1, <1>4 DEF Committed
  <1>10. SeenDone' = SeenDone \cup {cur}
    BY <1>1, <1>5, <1>9 DEF SeenDone
  <1>11. cur \notin SeenDone
    BY <1>2, <1>8 DEF SeenDone
  <1> QED  BY <1>1, <1>3, <1>6, <1>7, <1>10, <1>11

\* Containment is visible at once, unless an undecided transaction hides
\* packages.json: its rollback will undo it.
LEMMA SeenQuarantine ==
    ASSUME Inv, Inv', NEW p \in Package, Quarantine(p)
    PROVE  /\ SeenDone' = SeenDone
           /\ \/ SeenRegistry' = SeenRegistry
              \/ CanQuarantine(SeenRegistry, p) /\ SeenRegistry' = Quarantined(SeenRegistry, p)
  <1>1. /\ UNCHANGED <<intents, journal>>
        /\ CanQuarantine(registry, p) /\ registry' = Quarantined(registry, p)
    BY DEF Quarantine
  <1>2. /\ Open' = Open
        /\ \A o \in Op : (PreCommit(o)' <=> PreCommit(o)) /\ (Committed(o)' <=> Committed(o))
    BY <1>1 DEF Open, PreCommit, Committed
  <1>3. SeenDone' = SeenDone
    BY <1>1, <1>2 DEF SeenDone
  <1>4. CASE \E o \in Op : PreCommit(o)
    BY <1>1, <1>2, <1>3, <1>4, Seen, SeenNext DEF Inv, OneIntent
  <1>5. CASE \A o \in Op : ~PreCommit(o)
    <2>1. SeenRegistry = registry /\ SeenRegistry' = registry'
      BY <1>2, <1>5, Seen, SeenNext DEF Inv, OneIntent
    <2> QED  BY <1>1, <1>3, <2>1
  <1> QED  BY <1>4, <1>5

\* Every step but the decision and the containment is invisible.
LEMMA OnlyCommitIsSeen ==
    ASSUME Inv, Inv', [Next]_vars, ~Commit, ~(\E p \in Package : Quarantine(p))
    PROVE  UNCHANGED <<SeenRegistry, SeenDone>>
  <1> DEFINE Quiet == UNCHANGED <<registry, intents, journal>>
  <1>1. Quiet => UNCHANGED <<SeenRegistry, SeenDone>>
    BY SeenFrame
  <1>2. CASE (\E o \in Op \cup {None} : Call(o)) \/ Fail \/ Crash \/ UNCHANGED vars
    BY <1>1, <1>2 DEF Call, Fail, RollBack, Crash, vars
  <1>3. CASE RecoverStep
    BY <1>1, <1>3, SeenJournal DEF RecoverStep, RecoverIntent, RecoverRefused
  <1>4. CASE StartStep \/ Refuse
    BY <1>1, <1>4, SeenJournal DEF StartStep, Replay, Accept, ResetOccupancy
  <1>5. CASE ForwardStep
    BY <1>1, <1>5, SeenWriteIntent, SeenPreCommit
       DEF ForwardStep, Stage, ApplyFiles, SqlIntent, Prepare, MarkApplying, SqlPrepared,
           RecordStarted, PrepareRefused, RollBack
  <1>6. CASE CompletionStep
    BY <1>1, <1>6, SeenSucceed DEF CompletionStep, CommitSql, MarkApplied, SqlFinished, Postcondition
  <1>7. CASE RollbackStep
    BY <1>1, <1>7, SeenPreCommit, SeenJournal
       DEF RollbackStep, RollbackSql, MarkRolledBack, RemovePackageTree, RestoreBackup
  <1>8. CASE CleanupStep
    BY <1>1, <1>8, SeenUnlinkIntent DEF CleanupStep, ReleaseOwner, UnlinkParticipant, RemoveStage, RemoveBackup
  <1> QED  BY <1>2, <1>3, <1>4, <1>5, <1>6, <1>7, <1>8 DEF Next, Step

\* The transactional package manager implements the atomic registry: callers see
\* one change per operation identifier, when the committed intent is written,
\* whatever crashes, fails, is rolled back, replayed or quarantined around it.
THEOREM LifecycleIsAtomic == Spec => IsAtomic
  <1>1. ASSUME Init PROVE Abstract!Init
    <2>1. \A o \in Op : ~PreCommit(o) /\ ~Committed(o)
      BY <1>1 DEF Init, PreCommit, Committed, Open
    <2> QED  BY <1>1, <2>1 DEF Init, Abstract!Init, Abstract!Absent, Absent
  <1>2. ASSUME Inv, Inv', [Next]_vars PROVE [Abstract!Next]_(Abstract!vars)
    <2>1. CASE Commit
      <3>1. PICK o \in Op : o = cur
        BY <1>2, <2>1, SeenCommit
      <3>2. /\ o \notin SeenDone
            /\ Accepts(SeenRegistry, Request[o])
            /\ SeenRegistry' = After(SeenRegistry, Request[o])
            /\ SeenDone' = SeenDone \cup {o}
        BY <1>2, <2>1, <3>1, SeenCommit
      <3>3. Abstract!Commit(o)
        BY <3>2, SameResolver DEF Abstract!Commit, SeenRegistry, SeenDone
      <3> QED  BY <3>3 DEF Abstract!Next
    <2>2. CASE \E p \in Package : Quarantine(p)
      <3>1. PICK p \in Package : Quarantine(p)
        BY <2>2
      <3>2. CASE SeenRegistry' = SeenRegistry
        BY <1>2, <3>1, <3>2, SeenQuarantine DEF Abstract!vars, SeenRegistry, SeenDone
      <3>3. CASE /\ CanQuarantine(SeenRegistry, p)
                 /\ SeenRegistry' = Quarantined(SeenRegistry, p)
        <4>1. Abstract!Quarantine(p)
          BY <1>2, <3>1, <3>3, SeenQuarantine, SameContainment
             DEF Abstract!Quarantine, SeenRegistry, SeenDone
        <4> QED  BY <4>1 DEF Abstract!Next
      <3> QED  BY <1>2, <3>1, <3>2, <3>3, SeenQuarantine
    <2>3. CASE ~Commit /\ ~(\E p \in Package : Quarantine(p))
      BY <1>2, <2>3, OnlyCommitIsSeen DEF Abstract!vars, SeenRegistry, SeenDone
    <2> QED  BY <2>1, <2>2, <2>3
  <1> QED  BY <1>1, <1>2, Invariance, PTL DEF Spec, IsAtomic, Abstract!Spec

=================================================================================
