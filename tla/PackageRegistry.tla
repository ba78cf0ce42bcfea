----------------------------- MODULE PackageRegistry -----------------------------
(***************************************************************************)
(* What the package manager promises its callers: every operation is one   *)
(* atomic change of the registry, applied at most once per operation       *)
(* identifier, and only when the resulting set of packages is sound.  The  *)
(* emergency quarantine (packages.py) changes the registry beside it.      *)
(* PackageLifecycle implements this specification.                         *)
(***************************************************************************)
EXTENDS PackageGraph

CONSTANTS
    Op,                 \* operation identifiers (idempotency keys)
    Request             \* the operation an identifier stands for

Requests == [action : Action, package : Package, version : Version]

ASSUME RequestAssumption == Request \in [Op -> Requests]

VARIABLES
    registry,           \* the committed packages.json
    done                \* the operations that took effect

vars == <<registry, done>>

\* packages.json holds well-formed records only: an uninstalled package leaves
\* nothing behind, every other one has a version and a status (_write_records).
TypeOK ==
    /\ registry \in Registry
    /\ done \subseteq Op

Init ==
    /\ registry = [p \in Package |-> Absent]
    /\ done = {}

\* A rejected or rolled-back operation, and the replay of one that is done,
\* changes nothing.
Commit(o) ==
    /\ o \notin done
    /\ Accepts(registry, Request[o])
    /\ registry' = After(registry, Request[o])
    /\ done' = done \cup {o}

\* Emergency containment, under the same locks: no operation identifier, no check
\* of the dependants, and no repair of them.
Quarantine(p) ==
    /\ CanQuarantine(registry, p)
    /\ registry' = Quarantined(registry, p)
    /\ UNCHANGED done

Next ==
    \/ \E o \in Op : Commit(o)
    \/ \E p \in Package : Quarantine(p)

Spec == Init /\ [][Next]_vars

-----------------------------------------------------------------------------
(* Properties.                                                             *)

\* The installed set always resolves (resolve_install_order): no conflict, every
\* dependency present in a version its dependent accepts, no cycle, although
\* uninstall, disable and quarantine do not run the resolver.
InstalledSound ==
    /\ NoConflicts(registry)
    /\ DependenciesMatch(registry)
    /\ Acyclic(registry)

\* Enabled packages without one of their required dependencies.
Orphans(reg) == {q \in Enabled(reg) : ~RequireEnabledDependencies(reg, q)}

\* "enabled dependants may become non-runnable" (packages.py quarantine): by a
\* quarantine and by nothing else.  No update, disable or uninstall ever takes a
\* dependency from an enabled package, nor is one enabled without its own,
\* whatever was contained before; and a quarantine hits only the packages that
\* require the contained one.
OrphansAreContained ==
    [][\A q \in Orphans(registry') \ Orphans(registry) :
          \E p \in Package :
             Quarantine(p) /\ q \in RequiredDependents(registry, p, Enabled(registry))]_vars

EnabledVersions(reg) == {<<p, reg[p].version>> : p \in Enabled(reg)}

\* Enabled packages that require a capability no enabled package provides.
Unserved(reg) ==
    {q \in Enabled(reg) : \E acceptable \in ManifestOf(reg, q).requires :
        \A p \in Enabled(reg) : ManifestOf(reg, p).provides \cap acceptable = {}}

Serves(reg, p, q) ==
    \E acceptable \in ManifestOf(reg, q).requires : ManifestOf(reg, p).provides \cap acceptable # {}

\* "and must fail closed until an audited operator recovery": an operation that
\* changes which packages are enabled, or the version of one, is accepted only if
\* it leaves every enabled package with the capabilities it requires, those an
\* earlier quarantine left without included; and a quarantine takes a capability
\* only from packages the contained one could serve.
UnservedAreContained ==
    [][EnabledVersions(registry') # EnabledVersions(registry) =>
          \/ Unserved(registry') = {}
          \/ \E p \in Package :
                /\ Quarantine(p) /\ p \in Enabled(registry)
                /\ \A q \in Unserved(registry') \ Unserved(registry) : Serves(registry, p, q)]_vars
==================================================================================
