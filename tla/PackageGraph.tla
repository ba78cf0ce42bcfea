------------------------------ MODULE PackageGraph ------------------------------
(***************************************************************************)
(* What the package manager decides from the registry alone: the           *)
(* dependency resolver (dependencies.py) and the registry checks of each   *)
(* lifecycle operation (package_lifecycle.py).                             *)
(*                                                                         *)
(* A registry maps every package to a record; version 0 and status         *)
(* "absent" stand for "not a key of packages.json".  A PEP 440 specifier   *)
(* is the set of versions it matches.  A capability is an identifier with  *)
(* its version, a requirement the set of capabilities that satisfy it; an  *)
(* optional requirement can never be refused and is left out.              *)
(***************************************************************************)
EXTENDS Integers

CONSTANTS
    Package,
    MaximumVersion,     \* versions are 1..MaximumVersion, in release order
    Migration,
    Manifest,           \* the signed manifest of a package at a version
    Protected           \* packages that can be neither disabled nor uninstalled

Version == 1..MaximumVersion

ASSUME ManifestAssumption ==
    /\ MaximumVersion \in Nat
    /\ Protected \subseteq Package
    /\ \A p \in Package, v \in Version :
          /\ \A d \in Manifest[p][v].dependencies :
                d.package \in Package /\ d.versions \subseteq Version /\ d.optional \in BOOLEAN
          /\ \A c \in Manifest[p][v].conflicts :
                c.package \in Package /\ c.versions \subseteq Version
          /\ Manifest[p][v].core_ok \in BOOLEAN
          /\ Manifest[p][v].migrations \subseteq Migration

Action == {"install", "update", "enable", "disable", "uninstall"}

Absent == [version |-> 0, status |-> "absent"]

PackageRecord ==
    {Absent} \cup [version : Version, status : {"installed", "enabled", "disabled"}]

Registry == [Package -> PackageRecord]

Installed(reg) == {p \in Package : reg[p].status # "absent"}

Enabled(reg) == {p \in Package : reg[p].status = "enabled"}

ManifestOf(reg, p) == Manifest[p][reg[p].version]

Required(reg, p) == {d \in ManifestOf(reg, p).dependencies : ~d.optional}

-----------------------------------------------------------------------------
(* dependencies.py                                                         *)

\* Any selected package may provide what a selected package requires.
ResolveCapabilities(reg, selected) ==
    \A p \in selected : \A acceptable \in ManifestOf(reg, p).requires :
        \E q \in selected : ManifestOf(reg, q).provides \cap acceptable # {}

NoConflicts(reg) ==
    \A p \in Installed(reg) : \A c \in ManifestOf(reg, p).conflicts :
        reg[c.package].version \notin c.versions

DependenciesMatch(reg) ==
    \A p \in Installed(reg) : \A d \in ManifestOf(reg, p).dependencies :
        IF reg[d.package].status = "absent"
        THEN d.optional
        ELSE reg[d.package].version \in d.versions

\* The depth-first search of visit(): no package is reached again while it is
\* being visited.  Optional edges count when their target is installed.
Acyclic(reg) ==
    \A S \in SUBSET Installed(reg) :
        S # {} => \E p \in S : \A d \in ManifestOf(reg, p).dependencies : d.package \notin S

ResolveInstallOrder(reg) ==
    /\ \A p \in Installed(reg) : ManifestOf(reg, p).core_ok
    /\ NoConflicts(reg)
    /\ DependenciesMatch(reg)
    /\ ResolveCapabilities(reg, Installed(reg))
    /\ Acyclic(reg)

-----------------------------------------------------------------------------
(* The registry checks of package_lifecycle.py                             *)

RequireEnabledDependencies(reg, p) ==
    \A d \in Required(reg, p) :
        /\ reg[d.package].status = "enabled"
        /\ reg[d.package].version \in d.versions

RequireEnabledCapabilities(reg, enabling, disabling) ==
    ResolveCapabilities(reg, (Enabled(reg) \cup enabling) \ disabling)

RequiredDependents(reg, p, among) ==
    {q \in among : \E d \in Required(reg, q) : d.package = p}

\* registry_after of the transaction.
After(reg, r) ==
    [reg EXCEPT ![r.package] =
        CASE r.action = "install"   -> [version |-> r.version, status |-> "installed"]
          [] r.action = "update"    -> [@ EXCEPT !.version = r.version]
          [] r.action = "enable"    -> [@ EXCEPT !.status = "enabled"]
          [] r.action = "disable"   -> [@ EXCEPT !.status = "disabled"]
          [] r.action = "uninstall" -> Absent]

CanInstall(reg, r) ==
    /\ r.action = "install"
    /\ r.package \notin Installed(reg)
    /\ ResolveInstallOrder(After(reg, r))

CanUpdate(reg, r) ==
    /\ r.action = "update"
    /\ r.package \in Installed(reg)
    /\ r.version > reg[r.package].version
    /\ ResolveInstallOrder(After(reg, r))
    /\ r.package \in Enabled(reg) =>
          /\ RequireEnabledDependencies(After(reg, r), r.package)
          /\ RequireEnabledCapabilities(After(reg, r), {}, {})

CanEnable(reg, r) ==
    /\ r.action = "enable"
    /\ r.package \in Installed(reg)
    /\ RequireEnabledDependencies(reg, r.package)
    /\ RequireEnabledCapabilities(reg, {r.package}, {})

\* Mutant: the enabled dependents are not consulted.
CanDisableNeeded(reg, r) ==
    /\ r.action = "disable"
    /\ r.package \in Installed(reg) \ Protected
    /\ RequireEnabledCapabilities(reg, {}, {r.package})

\* Mutant: the capabilities are resolved as if the package stayed enabled.
CanDisableProvider(reg, r) ==
    /\ r.action = "disable"
    /\ r.package \in Installed(reg) \ Protected
    /\ RequiredDependents(reg, r.package, Enabled(reg)) = {}
    /\ RequireEnabledCapabilities(reg, {}, {})

CanDisable(reg, r) ==
    /\ r.action = "disable"
    /\ r.package \in Installed(reg) \ Protected
    /\ RequiredDependents(reg, r.package, Enabled(reg)) = {}
    /\ RequireEnabledCapabilities(reg, {}, {r.package})

\* Mutant: only enabled dependents block an uninstall.
CanUninstallNeeded(reg, r) ==
    /\ r.action = "uninstall"
    /\ r.package \in Installed(reg) \ Protected
    /\ r.package \notin Enabled(reg)
    /\ RequiredDependents(reg, r.package, Enabled(reg)) = {}

CanUninstall(reg, r) ==
    /\ r.action = "uninstall"
    /\ r.package \in Installed(reg) \ Protected
    /\ r.package \notin Enabled(reg)
    /\ RequiredDependents(reg, r.package, Installed(reg)) = {}

\* packages.py: an emergency takes a package out of service.  Nobody is asked who
\* depends on it.
CanQuarantine(reg, p) == p \in Installed(reg) \ Protected

Quarantined(reg, p) == [reg EXCEPT ![p].status = "disabled"]

Accepts(reg, r) ==
    \/ CanInstall(reg, r)
    \/ CanUpdate(reg, r)
    \/ CanEnable(reg, r)
    \/ CanDisable(reg, r)
    \/ CanUninstall(reg, r)
=================================================================================
