---------------------------- MODULE MCPackageRegistry ----------------------------
(* Three packages: a module, an extension of it that is picky about its     *)
(* version, and a provider that the extension may be served by.             *)
EXTENDS PackageRegistry

CONSTANTS base, addon, pay, cap

Dep(p, vs, opt) == [package |-> p, versions |-> vs, optional |-> opt]

Plain == [dependencies |-> {}, conflicts |-> {}, provides |-> {}, requires |-> {},
          core_ok |-> TRUE, migrations |-> {}]

MCManifest ==
    [p \in {base, addon, pay} |->
        \* version 2 of the base package no longer provides the capability
        CASE p = base -> <<[Plain EXCEPT !.provides = {cap}], Plain>>
          \* version 1 of the addon needs version 1 of the base package
          [] p = addon -> <<[Plain EXCEPT !.dependencies = {Dep(base, {1}, FALSE)},
                                          !.requires = {{cap}}],
                            [Plain EXCEPT !.dependencies = {Dep(base, {1, 2}, FALSE),
                                                            Dep(pay, {1, 2}, TRUE)},
                                          !.requires = {{cap}}]>>
          \* version 2 conflicts with base 1 and is in a cycle with version 2 of the addon
          [] p = pay -> <<[Plain EXCEPT !.provides = {cap}],
                          [Plain EXCEPT !.provides = {cap},
                                        !.dependencies = {Dep(addon, {1, 2}, TRUE)},
                                        !.conflicts = {[package |-> base, versions |-> {1}]}]>>]

\* One identifier for every request that makes sense, and a second one for the
\* state changes.
MCOp ==
    {o \in [action : Action, package : Package, version : Version, n : 1..2] :
        /\ o.action \notin {"install", "update"} => o.version = 1
        /\ o.action = "update" => o.version = 2
        /\ o.n = 2 => o.package = base /\ o.action = "enable"}

MCRequest ==
    [o \in MCOp |-> [action |-> o.action, package |-> o.package, version |-> o.version]]
==================================================================================
