----------------------------- MODULE RemoteControl -----------------------------
(***************************************************************************)
(* The Remote Control record (remote_control.py) and the transaction that  *)
(* publishes it through an HTTPS gateway (https_gateway.py) whose provider *)
(* is nginx (nginx_https_gateway.py).                                      *)
(*                                                                         *)
(* The record changes under its store's file lock: every operation of the  *)
(* store is one action.  The transaction holds another lock, so that there *)
(* is one at a time, and reads the record between its steps; the operator  *)
(* and the enrolment (module RemoteEnrollment) may change it meanwhile.    *)
(*                                                                         *)
(* nginx has the managed file on disk and the configuration its workers    *)
(* run: a reload that reports a failure may have switched the workers or   *)
(* not.  A configuration is the set of its server blocks, each a name and  *)
(* what it proxies; certificates, headers and listeners are left out.      *)
(* Every stored intent has remote_access_requested set, which              *)
(* request_remote demands, and the installation is COMPLETED, which every  *)
(* operation demands.                                                      *)
(***************************************************************************)
EXTENDS Naturals, FiniteSets

CONSTANTS
    Host,               \* control hostnames
    Intent,             \* what operators request: [host, provider]
    None,
    MaxOperations       \* bound: operations of the operator

ASSUME RemoteAssumption ==
    /\ Intent \subseteq [host: Host, provider: {"nginx", "caddy"}]
    /\ None \notin Host /\ None \notin Intent
    /\ "public" \notin Host      \* the name of the public server block
    /\ MaxOperations \in Nat

VARIABLES
    remote,             \* the stored record
    tx,                 \* the gateway transaction
    disk, running,      \* nginx: the managed file, what the workers run
    operations

gateway == <<tx, disk, running>>
remoteVars == <<remote, tx, disk, running, operations>>

Status == {"disabled", "preflight", "enrollment_pending",
           "publication_pending", "enabled", "error"}
Active == Status \ {"disabled", "error"}

\* validate_observed_invariants: what the model accepts of a record.
RemoteRecord ==
    {r \in [intent: Intent \cup {None}, status: Status, rp: Host \cup {None}]:
        /\ r.status \in Active => r.intent # None
        /\ r.status \in {"publication_pending", "enabled"} => r.rp = r.intent.host}

NoRecord == [intent |-> None, status |-> "disabled", rp |-> None]

Enrolled(r) == r.intent # None /\ r.rp = r.intent.host

WanSurface(r) ==
    IF r.status = "enabled" /\ Enrolled(r) THEN "control_center"
    ELSE IF r.status \in {"enrollment_pending", "publication_pending"}
         THEN "activate_only"
         ELSE "closed"

PublicationSurface(r) ==
    IF r.status = "publication_pending" /\ Enrolled(r)
    THEN "control_center"
    ELSE WanSurface(r)

-----------------------------------------------------------------------------
(* Configurations: rendering a plan, and reading the surface back.         *)

Surface == {"closed", "activate_only", "control_center"}
Plan == [host: Host, surface: Surface]

\* GatewayPlan.from_record with the validator of the model.
PlanOf(r) == [host |-> r.intent.host, surface |-> PublicationSurface(r)]

\* _closed_containment_plan
ContainmentPlan(r) == PlanOf([r EXCEPT !.status = "disabled"])

\* render_nginx_gateway_config: no server blocks when closed, else the public
\* host to the web server and the control host to what the surface opens.
Render(plan) ==
    CASE plan.surface = "closed" -> {}
      [] plan.surface = "activate_only" ->
            {[name |-> "public", proxy |-> {"web"}],
             [name |-> plan.host, proxy |-> {"activate"}]}
      [] plan.surface = "control_center" ->
            {[name |-> "public", proxy |-> {"web"}],
             [name |-> plan.host, proxy |-> {"root"}]}

Config == {Render(plan): plan \in Plan}

\* inspect_nginx_config: the surface of a known topology.
Inspect(config) ==
    LET control == {block \in config: block.name # "public"}
    IN CASE config = {} -> "closed"
         [] \E block \in control: block.proxy = {"root"} -> "control_center"
         [] \E block \in control: block.proxy = {"activate"} -> "activate_only"

\* The host whose Control Center a configuration opens.
Opens(config, h) ==
    Inspect(config) = "control_center" /\ \E block \in config: block.name = h

-----------------------------------------------------------------------------
(* The store.                                                              *)

RemoteInit ==
    /\ remote = NoRecord
    /\ tx = [pc |-> "idle"]
    /\ disk = {} /\ running = {}
    /\ operations = 0

\* An operation of the operator: the record is read and written under the lock.
Operate(record) ==
    /\ operations < MaxOperations
    /\ operations' = operations + 1
    /\ remote' = record
    /\ UNCHANGED gateway

RequestRemote(intent) ==
    Operate([intent |-> intent, status |-> "preflight",
             rp |-> IF remote.rp = intent.host THEN remote.rp ELSE None])

PreflightFailed ==
    /\ remote.status \in Active
    /\ Operate([remote EXCEPT !.status = "error"])

PreflightSucceeded ==
    /\ remote.status = "preflight"
    /\ Operate([remote EXCEPT !.status = IF Enrolled(remote)
                                         THEN "publication_pending"
                                         ELSE "enrollment_pending"])

Fail ==
    /\ remote.status # "disabled"
    /\ Operate([remote EXCEPT !.status = "error"])

RetryPreflight ==
    /\ remote.status = "error" /\ remote.intent # None
    /\ Operate([remote EXCEPT !.status = "preflight"])

Disable == Operate([remote EXCEPT !.status = "disabled"])

\* record_admin_passkey_enrolled: called by the enrolment.
CanEnroll(h) ==
    /\ remote.status = "enrollment_pending"
    /\ remote.intent.host = h

RecordEnrolled(h) ==
    remote' = [remote EXCEPT !.status = "publication_pending", !.rp = h]

Operator ==
    \/ \E intent \in Intent: RequestRemote(intent)
    \/ PreflightFailed
    \/ PreflightSucceeded
    \/ Fail
    \/ RetryPreflight
    \/ Disable

-----------------------------------------------------------------------------
(* The transaction.                                                        *)

Goto(pc) == tx' = [tx EXCEPT !.pc = pc]
Finish == tx' = [pc |-> "idle"]

\* Mutant: when nothing was applied there is nothing to contain.
FailWithoutContainment(error) ==
    tx' = [tx EXCEPT !.pc = IF tx.attempted THEN "rollback" ELSE "settle",
                     !.error = error]

\* An exception before or after the provider's apply began: _fail_closed.
FailClosed(error) ==
    tx' = [tx EXCEPT !.pc = IF tx.attempted THEN "rollback" ELSE "contain",
                     !.error = error]

\* The record is read and the plan derived from it.  Without an intent, or with
\* one for another provider, the transaction ends and changes nothing.
Begin ==
    /\ tx.pc = "idle"
    /\ remote.intent # None /\ remote.intent.provider = "nginx"
    /\ tx' = [pc |-> "validate", record |-> remote, plan |-> PlanOf(remote),
              attempted |-> FALSE, previous |-> None, error |-> None]
    /\ UNCHANGED <<remote, disk, running, operations>>

\* provider.validate (which renders, and may fail on a certificate), then
\* _assert_record_current.
Validate ==
    /\ tx.pc = "validate"
    /\ \/ FailClosed("failed")
       \/ IF remote = tx.record
          THEN tx' = [tx EXCEPT !.pc = "apply", !.attempted = TRUE]
          ELSE FailClosed("drifted")
    /\ UNCHANGED <<remote, disk, running, operations>>

\* apply, up to the write of the managed file.
ApplyWrite ==
    /\ tx.pc = "apply"
    /\ \/ /\ tx' = [tx EXCEPT !.pc = "reload", !.previous = disk]
          /\ disk' = Render(tx.plan)
       \/ FailClosed("failed") /\ UNCHANGED disk
    /\ UNCHANGED <<remote, running, operations>>

\* test, reload and _assert_effective; on a failure the previous file is put
\* back and nginx is left with what it runs.
ApplyReload ==
    /\ tx.pc = "reload"
    /\ \/ Goto("verify") /\ running' = disk /\ UNCHANGED disk
       \/ /\ FailClosed("failed")
          /\ running' \in {running, disk}
          /\ disk' = tx.previous
    /\ UNCHANGED <<remote, operations>>

\* provider.verify, then _assert_record_current.
Verify ==
    /\ tx.pc = "verify"
    /\ \/ FailClosed("failed")
       \/ IF remote = tx.record THEN Goto("inspect") ELSE FailClosed("drifted")
    /\ UNCHANGED <<remote, disk, running, operations>>

\* provider.inspect reads the file nginx would load, not what its workers run.
InspectGateway ==
    /\ tx.pc = "inspect"
    /\ \/ FailClosed("failed")
       \/ /\ Inspect(disk) = tx.plan.surface
          /\ IF remote = tx.record THEN Goto("observe") ELSE FailClosed("drifted")
    /\ UNCHANGED <<remote, disk, running, operations>>

\* observe_control_center compares the record once more, under the store's lock.
Observe ==
    /\ tx.pc = "observe"
    /\ IF tx.record.status = "publication_pending"
       THEN IF remote = tx.record
            THEN remote' = [remote EXCEPT !.status = "enabled"] /\ Finish
            ELSE FailClosed("drifted") /\ UNCHANGED remote
       ELSE Finish /\ UNCHANGED remote
    /\ UNCHANGED <<disk, running, operations>>

\* provider.rollback; its failure is only noted.  Nothing was written when the
\* provider has no previous text.
Rollback ==
    /\ tx.pc = "rollback"
    /\ IF tx.previous = None
       THEN UNCHANGED <<disk, running>>
       ELSE disk' = tx.previous /\ running' \in {running, tx.previous}
    /\ Goto("contain")
    /\ UNCHANGED <<remote, operations>>

\* provider.apply of the containment plan, up to its write.
ContainWrite ==
    /\ tx.pc = "contain"
    /\ tx' = [tx EXCEPT !.pc = "contain_reload", !.previous = disk]
    /\ disk' = Render(ContainmentPlan(tx.record))
    /\ UNCHANGED <<remote, running, operations>>

\* Its reload and inspection.  When any of it fails the gateway is not proved
\* closed and the record is left alone.
ContainReload ==
    /\ tx.pc = "contain_reload"
    /\ \/ /\ running' = disk /\ UNCHANGED disk
          /\ \/ Inspect(disk) = "closed" /\ Goto("settle")
             \/ Finish
       \/ /\ running' \in {running, disk} /\ disk' = tx.previous
          /\ Finish
    /\ UNCHANGED <<remote, operations>>

\* fail_if_current, unless the record was found changed.
Settle ==
    /\ tx.pc = "settle"
    /\ IF tx.error # "drifted" /\ remote = tx.record /\ remote.status # "disabled"
       THEN remote' = [remote EXCEPT !.status = "error"]
       ELSE UNCHANGED remote
    /\ Finish
    /\ UNCHANGED <<disk, running, operations>>

\* The process dies: the lock is released, the file and nginx stay.
GatewayCrash ==
    /\ tx.pc # "idle"
    /\ Finish
    /\ UNCHANGED <<remote, disk, running, operations>>

\* nginx restarts or is reloaded by somebody else.
NginxReloads ==
    /\ running # disk
    /\ running' = disk
    /\ UNCHANGED <<remote, tx, disk, operations>>

Transaction ==
    \/ Begin
    \/ Validate
    \/ ApplyWrite
    \/ ApplyReload
    \/ Verify
    \/ InspectGateway
    \/ Observe
    \/ Rollback
    \/ ContainWrite
    \/ ContainReload
    \/ Settle
    \/ GatewayCrash
    \/ NginxReloads
================================================================================
