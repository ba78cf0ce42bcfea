--------------------------- MODULE MCPackageLifecycle ---------------------------
(* A package that owns a PostgreSQL schema: installed, updated, uninstalled   *)
(* and installed again.                                                       *)
EXTENDS PackageLifecycle

CONSTANTS base, m1, m2, i1, u2, r1, i2

Carries(migrations) ==
    [dependencies |-> {}, conflicts |-> {}, provides |-> {}, requires |-> {},
     core_ok |-> TRUE, migrations |-> migrations]

\* Version 2 carries the migration of version 1 and adds one.
MCManifest == [p \in {base} |-> <<Carries({m1}), Carries({m1, m2})>>]

Req(a, v) == [action |-> a, package |-> base, version |-> v]

MCRequest ==
    [o \in Op |-> CASE o = i1 -> Req("install", 1)
                    [] o = u2 -> Req("update", 2)
                    [] o = r1 -> Req("uninstall", 1)
                    [] o = i2 -> Req("install", 2)]
=================================================================================
