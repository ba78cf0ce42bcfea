-------------------------- MODULE PackageRegistryProofs --------------------------
(***************************************************************************)
(* Proofs about PackageRegistry, for every set of packages, manifests and  *)
(* operations.  The soundness of the installed set is inductive; that of   *)
(* the enabled set is not, as a quarantine ends it at any moment.  So what *)
(* is proved of the enabled set is proved of each step from any sound      *)
(* installed set: an update keeps the enabled dependents of a package that *)
(* had their dependencies because the resolver has looked at all installed *)
(* ones, and an uninstall concerns none of them because a package that has *)
(* its dependencies requires no package that is not enabled.               *)
(***************************************************************************)
EXTENDS PackageRegistry, TLAPS

\* What After puts at the package's own entry, action by action.
LEMMA AfterOwn ==
    ASSUME NEW reg \in Registry, NEW r \in Requests
    PROVE  LET new == After(reg, r)[r.package]
               old == reg[r.package]
           IN  /\ r.action = "install" => new = [version |-> r.version, status |-> "installed"]
               /\ r.action = "update" => new = [old EXCEPT !.version = r.version]
               /\ r.action = "enable" => new = [old EXCEPT !.status = "enabled"]
               /\ r.action = "disable" => new = [old EXCEPT !.status = "disabled"]
               /\ r.action = "uninstall" => new = Absent
  <1>1. r.package \in Package /\ r.action \in Action
    BY DEF Requests
  <1> QED  BY <1>1 DEF After, Registry

\* An operation touches the entry of its own package only.
LEMMA AfterOthers ==
    ASSUME NEW reg \in Registry, NEW r \in Requests, NEW q \in Package, q # r.package
    PROVE  After(reg, r)[q] = reg[q]
  BY DEF After, Registry

LEMMA RecordFields ==
    ASSUME NEW rec \in PackageRecord
    PROVE  /\ rec.status = "absent" => rec = Absent
           /\ rec.status # "absent" => rec.version \in Version
           /\ rec.status \in {"absent", "installed", "enabled", "disabled"}
           /\ rec = [version |-> rec.version, status |-> rec.status]
  BY DEF PackageRecord, Absent

\* An accepted operation yields a registry.
LEMMA AfterType ==
    ASSUME NEW reg \in Registry, NEW r \in Requests, Accepts(reg, r)
    PROVE  After(reg, r) \in Registry
  <1> DEFINE new == After(reg, r)[r.package]
             old == reg[r.package]
  <1>1. r.package \in Package /\ r.version \in Version /\ old \in PackageRecord
    BY DEF Requests, Registry
  <1>2. r.action # "install" => old.status # "absent"
    BY DEF Accepts, CanInstall, CanUpdate, CanEnable, CanDisable, CanUninstall, Installed
  <1>3. old.status # "absent" =>
          /\ old.version \in Version
          /\ old = [version |-> old.version, status |-> old.status]
          /\ old.status \in {"installed", "enabled", "disabled"}
    BY <1>1, RecordFields
  <1>4. new \in PackageRecord
    <2>1. r.action \in Action
      BY DEF Requests
    <2>2. CASE r.action = "install"
      <3>1. new = [version |-> r.version, status |-> "installed"]
        BY <2>2, AfterOwn
      <3> QED  BY <3>1, <1>1 DEF PackageRecord
    <2>3. CASE r.action = "update"
      <3>1. new = [old EXCEPT !.version = r.version]
        BY <2>3, AfterOwn
      <3>2. new = [version |-> r.version, status |-> old.status]
        BY <3>1, <1>2, <1>3, <2>3
      <3> QED  BY <3>2, <1>1, <1>2, <1>3, <2>3 DEF PackageRecord
    <2>4. CASE r.action = "enable"
      <3>1. new = [old EXCEPT !.status = "enabled"]
        BY <2>4, AfterOwn
      <3>2. new = [version |-> old.version, status |-> "enabled"]
        BY <3>1, <1>2, <1>3, <2>4
      <3> QED  BY <3>2, <1>2, <1>3, <2>4 DEF PackageRecord
    <2>5. CASE r.action = "disable"
      <3>1. new = [old EXCEPT !.status = "disabled"]
        BY <2>5, AfterOwn
      <3>2. new = [version |-> old.version, status |-> "disabled"]
        BY <3>1, <1>2, <1>3, <2>5
      <3> QED  BY <3>2, <1>2, <1>3, <2>5 DEF PackageRecord
    <2>6. CASE r.action = "uninstall"
      BY <2>6, AfterOwn DEF PackageRecord
    <2> QED  BY <2>1, <2>2, <2>3, <2>4, <2>5, <2>6 DEF Action
  <1>5. \A q \in Package : After(reg, r)[q] \in PackageRecord
    BY <1>4, AfterOthers DEF Registry
  <1>6. After(reg, r) = [q \in Package |-> After(reg, r)[q]]
    <2>1. \A x : [reg EXCEPT ![r.package] = x]
                  = [q \in Package |-> [reg EXCEPT ![r.package] = x][q]]
      BY DEF Registry
    <2> QED  BY <2>1 DEF After
  <1> QED  BY <1>5, <1>6 DEF Registry

-----------------------------------------------------------------------------
(* What the resolver looks at is the versions of the installed packages.   *)

LEMMA SameVersions ==
    ASSUME NEW reg \in Registry, NEW reg2 \in Registry,
           \A p \in Package : reg2[p].version = reg[p].version,
           \A p \in Package : reg2[p].status = "absent" <=> reg[p].status = "absent"
    PROVE  /\ NoConflicts(reg) => NoConflicts(reg2)
           /\ DependenciesMatch(reg) => DependenciesMatch(reg2)
           /\ Acyclic(reg) => Acyclic(reg2)
  <1>1. Installed(reg2) = Installed(reg)
    BY DEF Installed
  <1>2. \A p \in Package : ManifestOf(reg2, p) = ManifestOf(reg, p)
    BY DEF ManifestOf
  <1>3. Installed(reg) \subseteq Package
    BY DEF Installed
  <1>4. \A p \in Installed(reg) : /\ reg[p].version \in Version
                                  /\ p \in Package
    BY RecordFields DEF Installed, Registry
  <1>5. \A p \in Installed(reg) :
          /\ \A d \in ManifestOf(reg, p).dependencies : d.package \in Package
          /\ \A c \in ManifestOf(reg, p).conflicts : c.package \in Package
    BY <1>4, ManifestAssumption DEF ManifestOf
  <1>6. NoConflicts(reg) => NoConflicts(reg2)
    BY <1>1, <1>2, <1>3, <1>5 DEF NoConflicts
  <1>7. DependenciesMatch(reg) => DependenciesMatch(reg2)
    BY <1>1, <1>2, <1>3, <1>5 DEF DependenciesMatch
  <1>8. Acyclic(reg) => Acyclic(reg2)
    BY <1>1, <1>2, <1>3 DEF Acyclic
  <1> QED  BY <1>6, <1>7, <1>8

\* The dependencies and conflicts an installed package declares.
LEMMA Declared ==
    ASSUME NEW reg \in Registry, NEW p \in Installed(reg)
    PROVE  /\ p \in Package /\ reg[p].version \in Version
           /\ \A d \in ManifestOf(reg, p).dependencies :
                 d.package \in Package /\ d.versions \subseteq Version
           /\ \A c \in ManifestOf(reg, p).conflicts :
                 c.package \in Package /\ c.versions \subseteq Version
  <1>1. p \in Package /\ reg[p].version \in Version
    BY RecordFields DEF Installed, Registry
  <1> QED  BY <1>1, ManifestAssumption DEF ManifestOf

LEMMA EnabledInstalled ==
    ASSUME NEW reg \in Registry
    PROVE  Enabled(reg) \subseteq Installed(reg)
  BY DEF Enabled, Installed

-----------------------------------------------------------------------------
(* One lemma per operation: what it does to the installed and enabled sets. *)

Sound(reg) ==
    /\ NoConflicts(reg)
    /\ DependenciesMatch(reg)
    /\ Acyclic(reg)

\* From reg to reg2 nothing is lost: the installed set still resolves, no enabled
\* package loses a dependency, and if the enabled set changes all are served.
Kept(reg, reg2) ==
    /\ Sound(reg2)
    /\ Orphans(reg2) \subseteq Orphans(reg)
    /\ EnabledVersions(reg2) # EnabledVersions(reg) => Unserved(reg2) = {}

\* Nobody is unserved exactly when the capabilities of the enabled set resolve.
LEMMA ServedResolves ==
    ASSUME NEW reg, RequireEnabledCapabilities(reg, {}, {})
    PROVE  Unserved(reg) = {}
  <1>1. (Enabled(reg) \cup {}) \ {} = Enabled(reg)
    OBVIOUS
  <1> QED  BY <1>1 DEF RequireEnabledCapabilities, ResolveCapabilities, Unserved

\* What happens to the entry of a package that is not enabled, before or after,
\* is of no concern to the enabled packages: those that have their dependencies
\* require only enabled ones.
LEMMA OtherEntry ==
    ASSUME NEW reg \in Registry, NEW reg2 \in Registry, NEW p \in Package,
           p \notin Enabled(reg), p \notin Enabled(reg2),
           \A q \in Package : q # p => reg2[q] = reg[q]
    PROVE  /\ Orphans(reg2) \subseteq Orphans(reg)
           /\ EnabledVersions(reg2) = EnabledVersions(reg)
  <1>1. Enabled(reg2) = Enabled(reg)
    BY DEF Enabled
  <1>2. \A q \in Enabled(reg) : q \in Package /\ q # p /\ reg2[q] = reg[q]
    BY DEF Enabled
  <1>3. ASSUME NEW q \in Enabled(reg), RequireEnabledDependencies(reg, q)
        PROVE  RequireEnabledDependencies(reg2, q)
    <2>1. Required(reg2, q) = Required(reg, q)
      BY <1>2 DEF Required, ManifestOf
    <2>2. q \in Installed(reg)
      BY EnabledInstalled
    <2>3. \A d \in Required(reg, q) : d.package \in Package /\ d.package # p
      BY <2>2, <1>3, Declared DEF Required, RequireEnabledDependencies, Enabled
    <2> QED  BY <1>3, <2>1, <2>3 DEF RequireEnabledDependencies
  <1>4. Orphans(reg2) \subseteq Orphans(reg)
    BY <1>1, <1>3 DEF Orphans
  <1>5. EnabledVersions(reg2) = EnabledVersions(reg)
    BY <1>1, <1>2 DEF EnabledVersions
  <1> QED  BY <1>4, <1>5

LEMMA InstallKeeps ==
    ASSUME NEW reg \in Registry, NEW r \in Requests, Sound(reg), CanInstall(reg, r),
           After(reg, r) \in Registry
    PROVE  Kept(reg, After(reg, r))
  <1> DEFINE reg2 == After(reg, r)
  <1>1. r.package \in Package /\ r.package \notin Enabled(reg)
    BY DEF Requests, CanInstall, Installed, Enabled
  <1>2. reg2[r.package].status = "installed"
    <2>1. reg2[r.package] = [version |-> r.version, status |-> "installed"]
      BY AfterOwn DEF CanInstall
    <2> QED  BY <2>1
  <1>3. r.package \notin Enabled(reg2)
    BY <1>2 DEF Enabled
  <1>4. \A q \in Package : q # r.package => reg2[q] = reg[q]
    BY AfterOthers
  <1>5. /\ Orphans(reg2) \subseteq Orphans(reg)
        /\ EnabledVersions(reg2) = EnabledVersions(reg)
    <2> HIDE DEF reg2
    <2> QED  BY <1>1, <1>3, <1>4, OtherEntry DEF reg2
  <1> QED  BY <1>5 DEF Kept, Sound, CanInstall, ResolveInstallOrder

LEMMA UpdateKeeps ==
    ASSUME NEW reg \in Registry, NEW r \in Requests, Sound(reg), CanUpdate(reg, r),
           After(reg, r) \in Registry
    PROVE  Kept(reg, After(reg, r))
  <1> DEFINE reg2 == After(reg, r)
             p == r.package
  <1>1. p \in Package
    BY DEF Requests
  <1>2. reg2[p].status = reg[p].status
    <2>1. reg[p] \in PackageRecord /\ reg[p] = [version |-> reg[p].version, status |-> reg[p].status]
      BY <1>1, RecordFields DEF Registry
    <2>2. reg2[p] = [reg[p] EXCEPT !.version = r.version]
      BY AfterOwn DEF CanUpdate
    <2> QED  BY <2>1, <2>2
  <1>3. \A q \in Package : q # p => reg2[q] = reg[q]
    BY AfterOthers
  <1>4. Enabled(reg2) = Enabled(reg)
    BY <1>1, <1>2, <1>3 DEF Enabled
  <1>5. Sound(reg2) /\ DependenciesMatch(reg2)
    BY DEF CanUpdate, ResolveInstallOrder, Sound
  <1> HIDE DEF reg2, p
  <1>6. CASE p \notin Enabled(reg)
    <2>1. /\ Orphans(reg2) \subseteq Orphans(reg)
          /\ EnabledVersions(reg2) = EnabledVersions(reg)
      BY <1>1, <1>3, <1>4, <1>6, OtherEntry DEF reg2
    <2> QED  BY <2>1, <1>5 DEF Kept, reg2
  <1>7. CASE p \in Enabled(reg)
    <2>1. RequireEnabledDependencies(reg2, p) /\ RequireEnabledCapabilities(reg2, {}, {})
      BY <1>7 DEF CanUpdate, reg2, p
    <2>2. ASSUME NEW q \in Enabled(reg2), q # p, RequireEnabledDependencies(reg, q)
          PROVE  RequireEnabledDependencies(reg2, q)
      <3>1. q \in Package /\ ManifestOf(reg2, q) = ManifestOf(reg, q)
        BY <2>2, <1>3 DEF Enabled, ManifestOf
      <3>2. Required(reg2, q) = Required(reg, q)
        BY <3>1 DEF Required
      <3>3. q \in Installed(reg2) /\ q \in Installed(reg)
        BY <1>4, EnabledInstalled DEF reg2
      <3>4. \A d \in Required(reg2, q) :
              d.package \in Package /\ d \in ManifestOf(reg2, q).dependencies
        BY <3>2, <3>3, Declared, <3>1 DEF Required
      <3>5. \A d \in Required(reg2, q) :
              /\ reg2[d.package].status = "enabled"
              /\ reg2[d.package].status # "absent"
        BY <2>2, <3>2, <3>4, <1>1, <1>2, <1>3 DEF RequireEnabledDependencies
      <3>6. \A d \in Required(reg2, q) : reg2[d.package].version \in d.versions
        BY <3>3, <3>4, <3>5, <1>5 DEF DependenciesMatch
      <3> QED  BY <3>5, <3>6 DEF RequireEnabledDependencies
    <2>3. Orphans(reg2) \subseteq Orphans(reg)
      BY <2>1, <2>2, <1>4 DEF Orphans
    <2>4. Unserved(reg2) = {}
      BY <2>1, ServedResolves
    <2> QED  BY <2>3, <2>4, <1>5 DEF Kept, reg2
  <1> QED  BY <1>6, <1>7 DEF reg2

\* What is common to the operations that change the status of an installed
\* package, quarantine included.
LEMMA StatusOnly ==
    ASSUME NEW reg \in Registry, NEW reg2 \in Registry, NEW p \in Installed(reg), Sound(reg),
           NEW status \in {"installed", "enabled", "disabled"},
           reg2[p].status = status, reg2[p].version = reg[p].version,
           \A q \in Package : q # p => reg2[q] = reg[q]
    PROVE  /\ Sound(reg2)
           /\ \A q \in Package : ManifestOf(reg2, q) = ManifestOf(reg, q)
  <1>1. p \in Package /\ reg[p].status # "absent"
    BY DEF Installed
  <1>2. \A q \in Package : reg2[q].version = reg[q].version
    OBVIOUS
  <1>3. \A q \in Package : reg2[q].status = "absent" <=> reg[q].status = "absent"
    BY <1>1
  <1>4. Sound(reg2)
    BY <1>2, <1>3, SameVersions DEF Sound
  <1> QED  BY <1>2, <1>4 DEF ManifestOf

LEMMA EnableKeeps ==
    ASSUME NEW reg \in Registry, NEW r \in Requests, Sound(reg), CanEnable(reg, r),
           After(reg, r) \in Registry
    PROVE  Kept(reg, After(reg, r))
  <1> DEFINE reg2 == After(reg, r)
             p == r.package
  <1>1. p \in Package /\ reg[p].status # "absent" /\ p \in Installed(reg)
    BY DEF Requests, CanEnable, Installed
  <1>2. reg2[p].status = "enabled" /\ reg2[p].version = reg[p].version
    <2>1. reg[p] = [version |-> reg[p].version, status |-> reg[p].status]
      BY <1>1, RecordFields DEF Registry
    <2>2. reg2[p] = [reg[p] EXCEPT !.status = "enabled"]
      BY AfterOwn DEF CanEnable
    <2> QED  BY <2>1, <2>2
  <1>3. \A q \in Package : q # p => reg2[q] = reg[q]
    BY AfterOthers
  <1>4. Enabled(reg2) = Enabled(reg) \cup {p}
    BY <1>1, <1>2, <1>3 DEF Enabled
  <1>r. reg2 \in Registry
    OBVIOUS
  <1> HIDE DEF reg2, p
  <1>v. \A q \in Package : reg2[q].version = reg[q].version
    BY <1>2, <1>3
  <1>e. \A q \in Package : reg[q].status = "enabled" => reg2[q].status = "enabled"
    BY <1>2, <1>3
  <1>5. Sound(reg2) /\ \A q \in Package : ManifestOf(reg2, q) = ManifestOf(reg, q)
    BY <1>r, <1>1, <1>2, <1>3, StatusOnly
  <1>7. ASSUME NEW q \in Enabled(reg2), RequireEnabledDependencies(reg, q)
        PROVE  RequireEnabledDependencies(reg2, q)
    <2>1. q \in Installed(reg) /\ q \in Package
      BY <1>1, <1>4, EnabledInstalled DEF Enabled
    <2>2. \A d \in Required(reg, q) : d.package \in Package
      BY <2>1, Declared DEF Required
    <2>3. Required(reg2, q) = Required(reg, q)
      BY <2>1, <1>5 DEF Required
    <2> QED  BY <1>7, <2>2, <2>3, <1>e, <1>v DEF RequireEnabledDependencies
  <1>8. RequireEnabledDependencies(reg, p)
    BY DEF CanEnable, p
  <1>9. Orphans(reg2) \subseteq Orphans(reg)
    BY <1>4, <1>7, <1>8 DEF Orphans
  <1>10. RequireEnabledCapabilities(reg2, {}, {})
    <2>1. ResolveCapabilities(reg, (Enabled(reg) \cup {p}) \ {})
      BY DEF CanEnable, RequireEnabledCapabilities, p
    <2>2. (Enabled(reg) \cup {p}) \ {} = (Enabled(reg2) \cup {}) \ {}
      BY <1>4
    <2>3. (Enabled(reg2) \cup {}) \ {} \subseteq Package
      BY DEF Enabled
    <2>4. ResolveCapabilities(reg2, (Enabled(reg2) \cup {}) \ {})
      BY <2>1, <2>2, <2>3, <1>5 DEF ResolveCapabilities
    <2> QED  BY <2>4 DEF RequireEnabledCapabilities
  <1> QED  BY <1>5, <1>9, <1>10, ServedResolves DEF Kept, reg2

\* A package that goes out of service, by disable or by quarantine: its dependents
\* lose it, nobody else loses a dependency.
LEMMA OutOfService ==
    ASSUME NEW reg \in Registry, NEW reg2 \in Registry, NEW p \in Installed(reg), Sound(reg),
           reg2[p].status = "disabled", reg2[p].version = reg[p].version,
           \A q \in Package : q # p => reg2[q] = reg[q]
    PROVE  /\ Sound(reg2)
           /\ Enabled(reg2) = Enabled(reg) \ {p}
           /\ \A q \in Package : ManifestOf(reg2, q) = ManifestOf(reg, q)
           /\ \A q \in Orphans(reg2) \ Orphans(reg) :
                 q \in RequiredDependents(reg, p, Enabled(reg))
  <1>1. Sound(reg2) /\ \A q \in Package : ManifestOf(reg2, q) = ManifestOf(reg, q)
    BY StatusOnly
  <1>2. p \in Package
    BY DEF Installed
  <1>3. Enabled(reg2) = Enabled(reg) \ {p}
    BY <1>2 DEF Enabled
  <1>4. ASSUME NEW q \in Enabled(reg2), RequireEnabledDependencies(reg, q),
               q \notin RequiredDependents(reg, p, Enabled(reg))
        PROVE  RequireEnabledDependencies(reg2, q)
    <2>1. q \in Enabled(reg) /\ q \in Package
      BY <1>3 DEF Enabled
    <2>2. \A d \in Required(reg, q) : d.package \in Package
      BY <2>1, EnabledInstalled, Declared DEF Required
    <2>3. \A d \in Required(reg, q) : d.package # p
      BY <2>1, <1>4 DEF RequiredDependents
    <2>4. Required(reg2, q) = Required(reg, q)
      BY <2>1, <1>1 DEF Required
    <2> QED  BY <1>4, <2>2, <2>3, <2>4 DEF RequireEnabledDependencies
  <1>5. \A q \in Orphans(reg2) \ Orphans(reg) : q \in RequiredDependents(reg, p, Enabled(reg))
    BY <1>3, <1>4 DEF Orphans
  <1> QED  BY <1>1, <1>3, <1>5

LEMMA DisableKeeps ==
    ASSUME NEW reg \in Registry, NEW r \in Requests, Sound(reg), CanDisable(reg, r),
           After(reg, r) \in Registry
    PROVE  Kept(reg, After(reg, r))
  <1> DEFINE reg2 == After(reg, r)
             p == r.package
  <1>1. p \in Package /\ p \in Installed(reg) /\ reg[p].status # "absent"
    BY DEF Requests, CanDisable, Installed
  <1>2. reg2[p].status = "disabled" /\ reg2[p].version = reg[p].version
    <2>1. reg[p] = [version |-> reg[p].version, status |-> reg[p].status]
      BY <1>1, RecordFields DEF Registry
    <2>2. reg2[p] = [reg[p] EXCEPT !.status = "disabled"]
      BY AfterOwn DEF CanDisable
    <2> QED  BY <2>1, <2>2
  <1>3. \A q \in Package : q # p => reg2[q] = reg[q]
    BY AfterOthers
  <1>r. reg2 \in Registry
    OBVIOUS
  <1> HIDE DEF reg2, p
  <1>4. /\ Sound(reg2)
        /\ Enabled(reg2) = Enabled(reg) \ {p}
        /\ \A q \in Package : ManifestOf(reg2, q) = ManifestOf(reg, q)
        /\ \A q \in Orphans(reg2) \ Orphans(reg) :
              q \in RequiredDependents(reg, p, Enabled(reg))
    BY <1>r, <1>1, <1>2, <1>3, OutOfService
  <1>5. Orphans(reg2) \subseteq Orphans(reg)
    BY <1>4 DEF CanDisable, p
  <1>6. RequireEnabledCapabilities(reg2, {}, {})
    <2>1. ResolveCapabilities(reg, (Enabled(reg) \cup {}) \ {p})
      BY DEF CanDisable, RequireEnabledCapabilities, p
    <2>2. (Enabled(reg) \cup {}) \ {p} = (Enabled(reg2) \cup {}) \ {}
      BY <1>4
    <2>3. (Enabled(reg2) \cup {}) \ {} \subseteq Package
      BY DEF Enabled
    <2>4. ResolveCapabilities(reg2, (Enabled(reg2) \cup {}) \ {})
      BY <2>1, <2>2, <2>3, <1>4 DEF ResolveCapabilities
    <2> QED  BY <2>4 DEF RequireEnabledCapabilities
  <1> QED  BY <1>4, <1>5, <1>6, ServedResolves DEF Kept, reg2

LEMMA UninstallKeeps ==
    ASSUME NEW reg \in Registry, NEW r \in Requests, Sound(reg), CanUninstall(reg, r),
           After(reg, r) \in Registry
    PROVE  Kept(reg, After(reg, r))
  <1> DEFINE reg2 == After(reg, r)
             p == r.package
  <1>1. p \in Package /\ p \notin Enabled(reg)
    BY DEF Requests, CanUninstall
  <1>2. reg2[p] = Absent
    BY AfterOwn DEF CanUninstall
  <1>3. \A q \in Package : q # p => reg2[q] = reg[q]
    BY AfterOthers
  <1>4. Installed(reg2) = Installed(reg) \ {p} /\ p \notin Enabled(reg2)
    BY <1>1, <1>2, <1>3 DEF Installed, Enabled, Absent
  <1>5. \A q \in Installed(reg2) : q \in Installed(reg) /\ ManifestOf(reg2, q) = ManifestOf(reg, q)
    BY <1>3, <1>4 DEF Installed, ManifestOf
  <1> HIDE DEF reg2, p
  <1>6. NoConflicts(reg2)
    <2>1. reg2[p].version \notin Version
      BY <1>2, ManifestAssumption DEF Absent, Version
    <2>2. ASSUME NEW q \in Installed(reg2), NEW c \in ManifestOf(reg2, q).conflicts
          PROVE  reg2[c.package].version \notin c.versions
      <3>1. c.package \in Package /\ c.versions \subseteq Version
        BY <1>5, Declared
      <3>2. reg[c.package].version \notin c.versions
        BY <1>5 DEF Sound, NoConflicts
      <3> QED  BY <3>1, <3>2, <2>1, <1>3
    <2> QED  BY <2>2 DEF NoConflicts
  <1>7. DependenciesMatch(reg2)
    <2>1. ASSUME NEW q \in Installed(reg2), NEW d \in ManifestOf(reg2, q).dependencies
          PROVE  IF reg2[d.package].status = "absent"
                 THEN d.optional
                 ELSE reg2[d.package].version \in d.versions
      <3>1. /\ q \in Installed(reg) /\ d \in ManifestOf(reg, q).dependencies
            /\ d.package \in Package
        BY <1>5, Declared
      <3>2. CASE d.package = p
        <4>1. d \notin Required(reg, q)
          BY <3>1, <3>2 DEF CanUninstall, RequiredDependents, p
        <4> QED  BY <4>1, <3>1, <3>2, <1>2 DEF Required, Absent
      <3>3. CASE d.package # p
        BY <3>1, <3>3, <1>3 DEF Sound, DependenciesMatch
      <3> QED  BY <3>2, <3>3
    <2> QED  BY <2>1 DEF DependenciesMatch
  <1>8. Acyclic(reg2)
    BY <1>4, <1>5 DEF Sound, Acyclic
  <1>9. /\ Orphans(reg2) \subseteq Orphans(reg)
        /\ EnabledVersions(reg2) = EnabledVersions(reg)
    BY <1>1, <1>3, <1>4, OtherEntry DEF reg2
  <1> QED  BY <1>6, <1>7, <1>8, <1>9 DEF Kept, Sound, reg2

\* A quarantine: the dependents of the package become orphans, and what it provided
\* is missing.
LEMMA QuarantineEffect ==
    ASSUME NEW reg \in Registry, NEW p \in Package, Sound(reg), CanQuarantine(reg, p)
    PROVE  LET reg2 == Quarantined(reg, p) IN
           /\ reg2 \in Registry
           /\ Sound(reg2)
           /\ \A q \in Orphans(reg2) \ Orphans(reg) :
                 q \in RequiredDependents(reg, p, Enabled(reg))
           /\ \A q \in Unserved(reg2) \ Unserved(reg) : Serves(reg, p, q)
           /\ p \notin Enabled(reg) => EnabledVersions(reg2) = EnabledVersions(reg)
  <1> DEFINE reg2 == Quarantined(reg, p)
             new == [reg[p] EXCEPT !.status = "disabled"]
  <1>1. /\ p \in Installed(reg) /\ reg[p] \in PackageRecord
        /\ reg[p] = [version |-> reg[p].version, status |-> reg[p].status]
        /\ reg[p].version \in Version
    BY RecordFields DEF CanQuarantine, Registry, Installed
  <1>2. new = [version |-> reg[p].version, status |-> "disabled"]
    BY <1>1
  <1>3. new \in PackageRecord
    BY <1>1, <1>2 DEF PackageRecord
  <1>4. reg2 = [reg EXCEPT ![p] = new]
    BY DEF Quarantined
  <1> HIDE DEF new
  <1>5. reg2 \in Registry
    BY <1>3, <1>4 DEF Registry
  <1>6. reg2[p] = new /\ \A q \in Package : q # p => reg2[q] = reg[q]
    BY <1>4 DEF Registry
  <1>7. reg2[p].status = "disabled" /\ reg2[p].version = reg[p].version
    BY <1>2, <1>6
  <1> HIDE DEF reg2
  <1>8. /\ Sound(reg2)
        /\ Enabled(reg2) = Enabled(reg) \ {p}
        /\ \A q \in Package : ManifestOf(reg2, q) = ManifestOf(reg, q)
        /\ \A q \in Orphans(reg2) \ Orphans(reg) :
              q \in RequiredDependents(reg, p, Enabled(reg))
    BY <1>1, <1>5, <1>6, <1>7, OutOfService
  <1>9. Enabled(reg) \subseteq Package
    BY DEF Enabled
  <1>10. ASSUME NEW q \in Unserved(reg2), q \notin Unserved(reg)
         PROVE  Serves(reg, p, q)
    <2>1. q \in Enabled(reg) /\ q \in Package
      BY <1>8, <1>9 DEF Unserved
    <2>2. PICK acceptable \in ManifestOf(reg, q).requires :
            \A x \in Enabled(reg) \ {p} : ManifestOf(reg, x).provides \cap acceptable = {}
      BY <2>1, <1>8, <1>9 DEF Unserved
    <2>3. PICK x \in Enabled(reg) : ManifestOf(reg, x).provides \cap acceptable # {}
      BY <2>1, <2>2, <1>10 DEF Unserved
    <2> QED  BY <2>2, <2>3 DEF Serves
  <1>11. p \notin Enabled(reg) => EnabledVersions(reg2) = EnabledVersions(reg)
    <2>1. ASSUME p \notin Enabled(reg)
          PROVE  Enabled(reg2) = Enabled(reg) /\ \A q \in Enabled(reg) : reg2[q] = reg[q]
      BY <2>1, <1>6, <1>8, <1>9
    <2> QED  BY <2>1 DEF EnabledVersions
  <1> QED  BY <1>5, <1>8, <1>10, <1>11 DEF reg2

-----------------------------------------------------------------------------

Inv == registry \in Registry /\ done \subseteq Op /\ Sound(registry)

LEMMA CommitKeeps ==
    ASSUME Inv, NEW o \in Op, Commit(o)
    PROVE  registry' \in Registry /\ done' \subseteq Op /\ Kept(registry, registry')
  <1> DEFINE r == Request[o]
  <1>1. r \in Requests /\ Accepts(registry, r) /\ registry \in Registry /\ Sound(registry)
    BY RequestAssumption DEF Commit, Inv
  <1>2. registry' = After(registry, r)
    BY DEF Commit
  <1>3. After(registry, r) \in Registry
    BY <1>1, AfterType
  <1> HIDE DEF r
  <1>4. Kept(registry, After(registry, r))
    BY <1>1, <1>3, InstallKeeps, UpdateKeeps, EnableKeeps, DisableKeeps, UninstallKeeps
       DEF Accepts
  <1> QED  BY <1>2, <1>3, <1>4 DEF Commit, Inv

LEMMA Inductive == Spec => []Inv
  <1>1. Init => Inv
    <2> SUFFICES ASSUME Init PROVE Inv
      OBVIOUS
    <2>1. registry \in Registry
      BY DEF Init, Registry, PackageRecord
    <2>2. Installed(registry) = {}
      BY DEF Init, Installed, Absent
    <2>3. Acyclic(registry)
      BY <2>2 DEF Acyclic
    <2>4. Sound(registry)
      BY <2>2, <2>3 DEF Sound, NoConflicts, DependenciesMatch
    <2> QED  BY <2>1, <2>4 DEF Init, Inv
  <1>2. Inv /\ [Next]_vars => Inv'
    <2> SUFFICES ASSUME Inv, [Next]_vars PROVE Inv'
      OBVIOUS
    <2>1. CASE UNCHANGED vars
      BY <2>1 DEF Inv, vars, Sound, NoConflicts, DependenciesMatch, Acyclic, Installed, ManifestOf
    <2>2. registry' \in Registry /\ done' \subseteq Op /\ Sound(registry') => Inv'
      BY DEF Inv, Sound, NoConflicts, DependenciesMatch, Acyclic, Installed, ManifestOf
    <2>3. ASSUME NEW o \in Op, Commit(o) PROVE Inv'
      BY <2>2, <2>3, CommitKeeps DEF Kept
    <2>4. ASSUME NEW p \in Package, Quarantine(p) PROVE Inv'
      <3>1. registry' = Quarantined(registry, p) /\ done' \subseteq Op
        BY <2>4 DEF Quarantine, Inv
      <3> QED  BY <2>2, <2>4, <3>1, QuarantineEffect DEF Quarantine, Inv
    <2> QED  BY <2>1, <2>3, <2>4 DEF Next
  <1> QED  BY <1>1, <1>2, PTL DEF Spec

\* The package registry is always one of well-formed records.
THEOREM TypeCorrect == Spec => []TypeOK
  <1>1. Inv => TypeOK
    BY DEF Inv, TypeOK
  <1> QED  BY <1>1, Inductive, PTL

\* The installed set always resolves, although only install and update run the
\* resolver (package_lifecycle.py _validate_graph) and a quarantine runs nothing.
THEOREM InstalledSetResolves == Spec => []InstalledSound
  <1>1. Inv => InstalledSound
    BY DEF Inv, Sound, InstalledSound
  <1> QED  BY <1>1, Inductive, PTL

\* From any reachable registry, those an earlier quarantine broke included, no
\* operation takes a dependency from an enabled package, and a quarantine takes it
\* only from the dependents of the package it contains (package_lifecycle.py
\* _require_enabled_dependencies, packages.py quarantine).
THEOREM OnlyQuarantineOrphans == Spec => OrphansAreContained
  <1> DEFINE A == \A q \in Orphans(registry') \ Orphans(registry) :
                     \E p \in Package :
                        Quarantine(p) /\ q \in RequiredDependents(registry, p, Enabled(registry))
  <1>1. Inv /\ [Next]_vars => A
    <2> SUFFICES ASSUME Inv, [Next]_vars PROVE A
      OBVIOUS
    <2>1. CASE UNCHANGED vars
      BY <2>1 DEF vars
    <2>2. ASSUME NEW o \in Op, Commit(o) PROVE A
      BY <2>2, CommitKeeps DEF Kept
    <2>3. ASSUME NEW p \in Package, Quarantine(p) PROVE A
      <3>1. registry' = Quarantined(registry, p)
        BY <2>3 DEF Quarantine
      <3>2. \A q \in Orphans(registry') \ Orphans(registry) :
              q \in RequiredDependents(registry, p, Enabled(registry))
        BY <2>3, <3>1, QuarantineEffect DEF Quarantine, Inv
      <3> QED  BY <2>3, <3>2
    <2> QED  BY <2>1, <2>2, <2>3 DEF Next
  <1> QED  BY <1>1, Inductive, PTL DEF Spec, OrphansAreContained

\* From any reachable registry an operation on the enabled set is accepted only if
\* it leaves everyone enabled served, and a quarantine takes a capability only from
\* packages the contained one could serve (package_lifecycle.py
\* _require_enabled_capabilities, packages.py quarantine).
THEOREM OperationsFailClosed == Spec => UnservedAreContained
  <1> DEFINE A == EnabledVersions(registry') # EnabledVersions(registry) =>
                    \/ Unserved(registry') = {}
                    \/ \E p \in Package :
                          /\ Quarantine(p) /\ p \in Enabled(registry)
                          /\ \A q \in Unserved(registry') \ Unserved(registry) :
                                Serves(registry, p, q)
  <1>1. Inv /\ [Next]_vars => A
    <2> SUFFICES ASSUME Inv, [Next]_vars PROVE A
      OBVIOUS
    <2>1. CASE UNCHANGED vars
      BY <2>1 DEF vars
    <2>2. ASSUME NEW o \in Op, Commit(o) PROVE A
      BY <2>2, CommitKeeps DEF Kept
    <2>3. ASSUME NEW p \in Package, Quarantine(p) PROVE A
      <3>1. registry' = Quarantined(registry, p)
        BY <2>3 DEF Quarantine
      <3>2. /\ \A q \in Unserved(registry') \ Unserved(registry) : Serves(registry, p, q)
            /\ p \notin Enabled(registry) => EnabledVersions(registry') = EnabledVersions(registry)
        BY <2>3, <3>1, QuarantineEffect DEF Quarantine, Inv
      <3> QED  BY <2>3, <3>2
    <2> QED  BY <2>1, <2>2, <2>3 DEF Next
  <1> QED  BY <1>1, Inductive, PTL DEF Spec, UnservedAreContained
==================================================================================
