------------------------------- MODULE Installer -------------------------------
(***************************************************************************)
(* The installation of the platform (app.py, installer.py,                 *)
(* installer_config.py): the requests that move the persisted installer    *)
(* state forward, each journaled and audited, the change of the journals   *)
(* from files to PostgreSQL once the database is ready                     *)
(* (postgresql_security.py), and the recovery of unfinished operations     *)
(* (installer_recovery.py) by the health endpoint.                         *)
(*                                                                         *)
(* Two threads of the process: handler serves a request under the install  *)
(* lock, health takes no lock.  Every durable write is one action, and the *)
(* process may stop between any two of them.  A write may also raise,      *)
(* having reached the disk or not.                                         *)
(*                                                                         *)
(* An operation's identifier is a hash of its action, its target and its   *)
(* payload: here the pair <<action, payload>>.  The configurations a       *)
(* client sends share the immutable installation identifier; the           *)
(* identifier "bootstrap" of the first transitions is not told apart.      *)
(* A journal is abstracted to the last status of each operation, an audit  *)
(* log to the operations whose success it tells of.  An append to either   *)
(* derives its chain from the rows under a lock that it holds until the    *)
(* row is written, so it is one action.                                    *)
(***************************************************************************)
EXTENDS Naturals, FiniteSets

CONSTANTS
    Form,               \* configurations a client may send
    PostgreSQLDatabase, \* those whose database is PostgreSQL
    Email,              \* addresses of the first administrator
    None,
    Wizard,             \* BOOLEAN: clients besides plaik setup send requests
    MaxFaults           \* bound: steps that raise and stops of the process

ASSUME InstallerAssumption ==
    /\ PostgreSQLDatabase \subseteq Form /\ None \notin Form
    /\ Wizard \in BOOLEAN
    /\ MaxFaults \in Nat

NOT_STARTED == 0
REQUIREMENTS_CHECKED == 1
CONFIGURED == 2
DATABASE_READY == 3
ADMIN_READY == 4
THEME_READY == 5
COMPLETED == 6
INSTALL_SEQUENCE == NOT_STARTED..COMPLETED

Operation == ({"transition"} \X (INSTALL_SEQUENCE \ {NOT_STARTED}))
                \cup ({"configure"} \X Form) \cup ({"admin"} \X Email)
Action(op) == op[1]
Payload(op) == op[2]

Backend == {"file", "postgresql"}
Status == {"none", "started", "succeeded", "failed"}
Thread == {"handler", "health"}

VARIABLES
    state,              \* install state file
    configuration,      \* installer configuration file: [form, sealed] or None
    database,           \* configurations whose database is set up
    users,              \* addresses of active super administrators
    theme,              \* the default theme is enabled and selected
    operations,         \* operation journal of each backend
    audit,              \* audit log of each backend
    services,           \* backend of the journals the process has cached
    thread,             \* what each thread does
    faults,
    late,               \* history: transitions failed after they took effect
    behind              \* history: operations told of in the files when
                        \* PostgreSQL had its journals already

platform == <<state, configuration, database, users, theme>>
journals == <<operations, audit, behind>>
vars == <<platform, journals, services, thread, faults, late>>

TypeOK ==
    /\ state \in INSTALL_SEQUENCE
    /\ configuration \in [form: Form, sealed: BOOLEAN] \cup {None}
    /\ database \subseteq Form /\ users \subseteq Email /\ theme \in BOOLEAN
    /\ operations \in [Backend -> [Operation -> Status]]
    /\ audit \in [Backend -> SUBSET Operation]
    /\ services \in Backend \cup {None}
    /\ DOMAIN thread = Thread
    /\ faults \in 0..MaxFaults
    /\ late \subseteq Operation /\ behind \subseteq Operation

NoRows == [op \in Operation |-> "none"]

\* A thread: where it is, where it goes once it has its journals, the backend
\* of those, the file it read to adopt, the operation it works on, whether a
\* raised error is caught, the installer state it read, and the operations
\* recovery has left to look at.
Idle == [pc |-> "idle", then |-> "idle", journal |-> None, read |-> None,
         op |-> None, caught |-> FALSE, pending |-> {}]

Init ==
    /\ state = NOT_STARTED /\ configuration = None
    /\ database = {} /\ users = {} /\ theme = FALSE
    /\ operations = [b \in Backend |-> NoRows]
    /\ audit = [b \in Backend |-> {}]
    /\ services = None
    /\ thread = [t \in Thread |-> Idle]
    /\ faults = 0 /\ late = {} /\ behind = {}

Goto(t, label) == thread' = [thread EXCEPT ![t].pc = label]
\* The checkpoint of both heads, for which the services are looked up again.
Anchored(t) == [thread EXCEPT ![t] = [Idle EXCEPT !.pc = "services"]]
Done(t) == thread' = [thread EXCEPT ![t] = Idle]
At(t, label) == thread[t].pc = label
Op == thread["handler"].op

---------------------------------------------------------------------------
(* Journals *)

\* The last status of op in the journal the thread holds.
StatusOf(t, op) == operations[thread[t].journal][op]

\* An append reads the rows, derives the next event and writes it, all under
\* the lock of the chain; the row takes the next number of the journal.
Recorded(rows, op, status) == [rows EXCEPT ![op] = status]
Appended(entries, op) == entries \cup {op}

\* History: no process started later reads what is written to the files once
\* PostgreSQL has rows of its own.
WrittenBehind(t, op) ==
    behind' = IF /\ thread[t].journal = "file"
                 /\ operations["postgresql"] # NoRows \/ audit["postgresql"] # {}
              THEN behind \cup {op} ELSE behind

SetStatus(t, op, status) ==
    /\ operations' = [operations EXCEPT ![thread[t].journal] = Recorded(@, op, status)]
    /\ WrittenBehind(t, op)
    /\ UNCHANGED audit

\* succeed and fail: again the same outcome is accepted, the other raises.
CanFinish(t, op, status) == StatusOf(t, op) \in {"started", status}

\* append_audit_once: the set has each entry at most once.
AppendAudit(t, op) ==
    /\ audit' = [audit EXCEPT ![thread[t].journal] = Appended(@, op)]
    /\ WrittenBehind(t, op)
    /\ UNCHANGED operations

---------------------------------------------------------------------------
(* Which journals the process uses *)

postgresql_security_backend_ready ==
    state >= DATABASE_READY /\ configuration.form \in PostgreSQLDatabase

Obtained(t, backend) ==
    IF thread[t].then = "idle" THEN [thread EXCEPT ![t] = Idle]
    ELSE [thread EXCEPT ![t].journal = backend, ![t].read = None,
                        ![t].pc = thread[t].then]

\* Continue with cached services, or begin to build them: what the install
\* state says is read here and used when the services are stored.
SecurityServices(t) ==
    /\ At(t, "services")
    /\ thread' =
        IF services # None
        THEN Obtained(t, services)
        ELSE IF postgresql_security_backend_ready
        THEN [thread EXCEPT ![t].journal = "postgresql", ![t].pc = "read audit"]
        ELSE [thread EXCEPT ![t].journal = "file", ![t].pc = "store"]
    /\ UNCHANGED <<platform, journals, services, faults, late>>

\* Adoption reads the file, then imports what it read under the chain lock,
\* in one transaction and only into a journal without rows.
ReadAudit(t) ==
    /\ At(t, "read audit")
    /\ thread' = [thread EXCEPT ![t].read = audit["file"], ![t].pc = "adopt audit"]
    /\ UNCHANGED <<platform, journals, services, faults, late>>

AdoptAudit(t) ==
    /\ At(t, "adopt audit")
    /\ audit' = [audit EXCEPT !["postgresql"] = IF @ = {} THEN thread[t].read ELSE @]
    /\ Goto(t, "read operations")
    /\ UNCHANGED <<platform, operations, behind, services, faults, late>>

ReadOperations(t) ==
    /\ At(t, "read operations")
    /\ thread' = [thread EXCEPT ![t].read = operations["file"],
                                ![t].pc = "adopt operations"]
    /\ UNCHANGED <<platform, journals, services, faults, late>>


Adopted(rows, read) == IF rows = NoRows THEN read ELSE rows

AdoptOperations(t) ==
    /\ At(t, "adopt operations")
    /\ operations' =
        [operations EXCEPT !["postgresql"] = Adopted(@, thread[t].read)]
    /\ Goto(t, "store")
    /\ UNCHANGED <<platform, audit, behind, services, faults, late>>

StoreServices(t) ==
    /\ At(t, "store")
    /\ services' = thread[t].journal
    /\ thread' = Obtained(t, thread[t].journal)
    /\ UNCHANGED <<platform, journals, faults, late>>

Services(t) ==
    \/ SecurityServices(t) \/ ReadAudit(t) \/ AdoptAudit(t)
    \/ ReadOperations(t) \/ AdoptOperations(t) \/ StoreServices(t)

---------------------------------------------------------------------------
(* Requests: each takes the install lock, checks, and gets its journals *)

Receive(op) ==
    /\ At("handler", "idle")
    /\ thread' = [thread EXCEPT !["handler"] =
                    [Idle EXCEPT !.pc = "services", !.then = "begin", !.op = op]]
    /\ UNCHANGED <<platform, journals, services, faults, late>>

validate_transition(target) == target \in {state, state + 1}

AcceptsTransition(target) ==
    IF state = COMPLETED
    THEN target = COMPLETED /\ configuration # None
    ELSE validate_transition(target)

Accepts(op) ==
    \/ Action(op) = "transition" /\ AcceptsTransition(Payload(op))
    \/ Action(op) = "configure" /\ state \in {REQUIREMENTS_CHECKED, CONFIGURED}
    \/ Action(op) = "admin" /\ state = DATABASE_READY

\* The journals a process started now would use.
LiveOperations ==
    IF postgresql_security_backend_ready /\ operations["postgresql"] # NoRows
    THEN operations["postgresql"] ELSE operations["file"]

LiveAudit ==
    IF postgresql_security_backend_ready /\ audit["postgresql"] # {}
    THEN audit["postgresql"] ELSE audit["file"]

\* What plaik setup sends: it looks at the persisted state and moves on, and
\* never asks for the state it is in.  (The administrator is also sent again
\* when setup is, which changes nothing once it has succeeded.)
SetupSends(op) ==
    CASE state = REQUIREMENTS_CHECKED /\ configuration = None ->
            Action(op) = "configure"
      [] /\ state = DATABASE_READY
         /\ \A e \in Email: LiveOperations[<<"admin", e>>] # "succeeded" ->
            Action(op) = "admin"
      [] OTHER -> op = <<"transition", state + 1>>

Request(op) == Accepts(op) /\ (Wizard \/ SetupSends(op)) /\ Receive(op)

AuditPresent(op) == op \in audit[thread["handler"].journal]

\* begin_or_retry, and what the handler does with the answer.
Begin ==
    LET status == StatusOf("handler", Op)
        repeated == Action(Op) = "transition" /\ Payload(Op) = state
        locked == /\ repeated /\ state = COMPLETED /\ configuration.sealed
                  /\ status = "succeeded" /\ AuditPresent(Op)
        inconsistent ==
            /\ status = "succeeded"
            /\ \/ Action(Op) = "transition" /\ ~repeated
               \/ Action(Op) = "admin" /\ Payload(Op) \notin users
        replayed == Action(Op) = "configure" /\ status = "succeeded"
    IN  /\ At("handler", "begin")
        /\ IF status \in {"none", "failed"} THEN SetStatus("handler", Op, "started")
           ELSE UNCHANGED journals
        /\ thread' =
            IF inconsistent THEN [thread EXCEPT !["handler"] = Idle]
            ELSE IF locked \/ replayed THEN Anchored("handler")
            ELSE [thread EXCEPT
                    !["handler"].caught = ~repeated,
                    !["handler"].pc =
                        IF ~repeated THEN "work"
                        ELSE IF state = COMPLETED /\ ~configuration.sealed THEN "seal"
                        ELSE "audit"]
        /\ UNCHANGED <<platform, services, faults, late>>

\* The failure path: a refusal the handler knows is audited first.
Refuse == Goto("handler", "audit failure") /\ UNCHANGED <<faults, late>>

\* Any other error, and any in a request repeated at its own state, which is
\* not in the try statement.
Raise ==
    /\ faults < MaxFaults /\ faults' = faults + 1
    /\ IF thread["handler"].caught THEN Goto("handler", "fail") ELSE Done("handler")

Proceed(label) == Goto("handler", label) /\ UNCHANGED faults

\* The store refuses a sealed configuration and a change of the identifiers:
\* the handler accepts no configuration once one may be sealed.
Written(form) == [form |-> form, sealed |-> FALSE]

Configure ==
    /\ Action(Op) = "configure"
    /\ configuration' = Written(Payload(Op))
    /\ UNCHANGED <<state, database, users, theme>>

CreateAdmin ==
    /\ Action(Op) = "admin"
    /\ Payload(Op) \in users \/ users = {}
    /\ users' = users \cup {Payload(Op)}
    /\ UNCHANGED <<state, configuration, database, theme>>

\* What a transition does before the state moves.
Prepare ==
    /\ Action(Op) = "transition"
    /\ Payload(Op) \in {CONFIGURED, DATABASE_READY} => configuration # None
    /\ Payload(Op) = ADMIN_READY => users # {}
    /\ database' = IF Payload(Op) = DATABASE_READY
                   THEN database \cup {configuration.form} ELSE database
    /\ theme' = (theme \/ Payload(Op) = THEME_READY)
    /\ UNCHANGED <<state, configuration, users>>

Refuses ==
    \/ Action(Op) = "admin" /\ users \notin {{}, {Payload(Op)}}
    \/ Op = <<"transition", CONFIGURED>> /\ configuration = None
    \/ Op = <<"transition", ADMIN_READY>> /\ users = {}

Work ==
    /\ At("handler", "work")
    /\ \/ /\ Configure \/ CreateAdmin \/ Prepare
          /\ Proceed(IF Action(Op) = "transition" THEN "advance" ELSE "audit")
          /\ UNCHANGED late
       \/ Refuses /\ Refuse /\ UNCHANGED platform
       \/ Raise /\ UNCHANGED <<platform, late>>
    /\ UNCHANGED <<journals, services>>

\* A database that refuses its migrations is a failure the handler audits.
WorkFails ==
    /\ At("handler", "work") /\ Op = <<"transition", DATABASE_READY>>
    /\ faults < MaxFaults /\ faults' = faults + 1
    /\ Goto("handler", "audit failure")
    /\ UNCHANGED <<platform, journals, services, late>>

Advance ==
    /\ At("handler", "advance")
    /\ \/ /\ state' = Payload(Op)
          /\ Proceed(IF Payload(Op) = COMPLETED THEN "seal" ELSE "audit")
       \/ Raise /\ UNCHANGED state
    /\ UNCHANGED <<configuration, database, users, theme,
                   journals, services, late>>

Seal ==
    /\ At("handler", "seal")
    /\ \/ /\ configuration' = [configuration EXCEPT !.sealed = TRUE]
          /\ Proceed("audit")
       \/ Raise /\ UNCHANGED configuration
    /\ UNCHANGED <<state, database, users, theme, journals, services, late>>

Audit ==
    /\ At("handler", "audit")
    /\ \/ AppendAudit("handler", Op) /\ Proceed("succeed")
       \/ Raise /\ UNCHANGED journals
    /\ UNCHANGED <<platform, services, late>>

\* Past the cutover the cached journals, still the files, are dropped.
Succeed ==
    LET reset == /\ thread["handler"].caught /\ Op = <<"transition", DATABASE_READY>>
                 /\ configuration.form \in PostgreSQLDatabase
    IN  /\ At("handler", "succeed")
        /\ \/ /\ CanFinish("handler", Op, "succeeded")
              /\ SetStatus("handler", Op, "succeeded")
              /\ \/ reset /\ Proceed("reset")
                 \/ ~reset /\ thread' = Anchored("handler") /\ UNCHANGED faults
                 \/ Raise
           \/ Raise /\ UNCHANGED journals
        /\ UNCHANGED <<platform, services, late>>

Reset ==
    /\ At("handler", "reset")
    /\ services' = None
    /\ thread' = Anchored("handler")
    /\ UNCHANGED <<platform, journals, faults, late>>

AuditFailure ==
    /\ At("handler", "audit failure")
    /\ \/ Goto("handler", "fail") /\ UNCHANGED faults
       \/ faults < MaxFaults /\ faults' = faults + 1 /\ Done("handler")
    /\ UNCHANGED <<platform, journals, services, late>>

\* A transition may have taken effect before the step that raised: it is
\* marked failed all the same.
Fail ==
    /\ At("handler", "fail")
    /\ Done("handler")
    /\ \/ /\ CanFinish("handler", Op, "failed")
          /\ SetStatus("handler", Op, "failed")
          /\ late' = IF Action(Op) = "transition" /\ state >= Payload(Op)
                     THEN late \cup {Op} ELSE late
          /\ UNCHANGED faults
       \/ /\ ~CanFinish("handler", Op, "failed")
          /\ UNCHANGED <<journals, late, faults>>
       \/ /\ faults < MaxFaults /\ faults' = faults + 1
          /\ UNCHANGED <<journals, late>>
    /\ UNCHANGED <<platform, services>>

Handler ==
    \/ Services("handler") \/ Begin \/ Work \/ WorkFails \/ Advance \/ Seal \/ Audit
    \/ Succeed \/ Reset \/ AuditFailure \/ Fail

---------------------------------------------------------------------------
(* The health endpoint recovers what a stopped process left started *)

Health ==
    /\ At("health", "idle")
    /\ state # NOT_STARTED
    /\ configuration # None => (configuration.sealed <=> state = COMPLETED)
    /\ thread' = [thread EXCEPT !["health"] =
                    [Idle EXCEPT !.pc = "services", !.then = "pending"]]
    /\ UNCHANGED <<platform, journals, services, faults, late>>

RecoverPending ==
    /\ At("health", "pending")
    /\ thread' = [thread EXCEPT !["health"].pc = "recover",
                    !["health"].pending =
                        {op \in Operation: StatusOf("health", op) = "started"}]
    /\ UNCHANGED <<platform, journals, services, faults, late>>

\* The stored configuration has the operation's identifier.  Its seal is part
\* of what the identifier is computed from.
ConfigurationOf(op) == configuration = Written(Payload(op))

RecoverConfigure(op) == ConfigurationOf(op) /\ state >= REQUIREMENTS_CHECKED

RecoverAdminBootstrap(op) == Payload(op) \in users /\ state >= DATABASE_READY

\* The database answers, with the schema and the context of the configuration.
database_ready_verifier == configuration # None /\ configuration.form \in database

\* The default theme is enabled and the store has a selection.
theme_ready_verifier == configuration # None /\ theme

\* Mutant: a transition is recovered when its preparation is complete.
RecoverWithoutState(op) ==
    /\ Payload(op) = DATABASE_READY => database_ready_verifier
    /\ Payload(op) = ADMIN_READY => users # {}
    /\ Payload(op) = THEME_READY => theme_ready_verifier
    /\ Payload(op) = COMPLETED => configuration.sealed

RecoverTransition(op) ==
    /\ state >= Payload(op)
    /\ Payload(op) = DATABASE_READY => database_ready_verifier
    /\ Payload(op) = ADMIN_READY => users # {}
    /\ Payload(op) = THEME_READY => theme_ready_verifier
    /\ Payload(op) = COMPLETED => configuration.sealed

Recoverable(op) ==
    \/ Action(op) = "configure" /\ RecoverConfigure(op)
    \/ Action(op) = "admin" /\ RecoverAdminBootstrap(op)
    \/ Action(op) = "transition" /\ RecoverTransition(op)

\* Mutant: an administrator's operation is never given up.
SupersededConfigure(op) ==
    /\ state >= DATABASE_READY
    /\ Action(op) = "configure" /\ ~ConfigurationOf(op)

Superseded(op) ==
    /\ state >= DATABASE_READY
    /\ \/ Action(op) = "configure" /\ ~ConfigurationOf(op)
       \/ Action(op) = "admin" /\ users # {} /\ Payload(op) \notin users

TryRecover(op) ==
    /\ At("health", "recover") /\ op \in thread["health"].pending
    /\ \/ /\ Recoverable(op)
          /\ AppendAudit("health", op)
          /\ thread' = [thread EXCEPT !["health"].pc = "recovered", !["health"].op = op]
       \/ /\ ~Recoverable(op) /\ Superseded(op)
          /\ thread' = [thread EXCEPT !["health"].pc = "superseded", !["health"].op = op]
          /\ UNCHANGED journals
       \/ /\ ~Recoverable(op) /\ ~Superseded(op)
          /\ thread' = [thread EXCEPT !["health"].pending = @ \ {op}]
          /\ UNCHANGED journals
    /\ UNCHANGED <<platform, services, faults, late>>

\* The outcome recovery decided on; another one, which the handler was faster
\* to write, raises, and so does a failure with another error code.
Settle(label, status) ==
    LET op == thread["health"].op
    IN  /\ At("health", label)
        /\ \/ /\ CanFinish("health", op, status)
              /\ SetStatus("health", op, status)
              /\ thread' = [thread EXCEPT !["health"].pc = "recover",
                                          !["health"].op = None,
                                          !["health"].pending = @ \ {op}]
           \/ /\ ~CanFinish("health", op, status) \/ StatusOf("health", op) = "failed"
              /\ Done("health")
              /\ UNCHANGED journals
        /\ UNCHANGED <<platform, services, faults, late>>

Evidence(b, target) ==
    /\ operations[b][<<"transition", target>>] = "succeeded"
    /\ <<"transition", target>> \in audit[b]

\* Nothing left to recover: health reports an error, or anchors the heads.
Report ==
    /\ At("health", "recover") /\ thread["health"].pending = {}
    /\ IF /\ state >= DATABASE_READY
          /\ \A op \in Operation: StatusOf("health", op) # "started"
          /\ \A target \in DATABASE_READY..state: Evidence(thread["health"].journal, target)
       THEN thread' = Anchored("health")
       ELSE Done("health")
    /\ UNCHANGED <<platform, journals, services, faults, late>>

HealthThread ==
    \/ Health \/ Services("health") \/ RecoverPending
    \/ \E op \in Operation: TryRecover(op)
    \/ Settle("recovered", "succeeded") \/ Settle("superseded", "failed")
    \/ Report

---------------------------------------------------------------------------

\* The process stops and is started again: only what is on disk is left.
Crash ==
    /\ faults < MaxFaults /\ faults' = faults + 1
    /\ services' = None
    /\ thread' = [t \in Thread |-> Idle]
    /\ UNCHANGED <<platform, journals, late>>

Next ==
    \/ \E op \in Operation: Request(op)
    \/ Handler \/ HealthThread \/ Crash

Spec == Init /\ [][Next]_vars

\* plaik setup is run until it reports success, and a thread goes on.
FairSpec ==
    /\ Spec
    /\ WF_vars(\E op \in Operation: SetupSends(op) /\ Request(op))
    /\ WF_vars(Handler)
    /\ WF_vars(HealthThread)

---------------------------------------------------------------------------
(* Properties *)

NoRequest == At("handler", "idle")


\* An operation the journal in use calls succeeded has its effect on disk: no
\* recovery, no cutover and no retry makes the journal run ahead of the
\* installation.  (installer_recovery.py _try_recover, app.py
\* install_transition)
SucceededHasEffect ==
    \A op \in Operation: LiveOperations[op] = "succeeded" =>
        CASE Action(op) = "transition" ->
                /\ state >= Payload(op)
                /\ Payload(op) = DATABASE_READY => configuration.form \in database
                /\ Payload(op) = ADMIN_READY => users # {}
                /\ Payload(op) = THEME_READY => theme
                /\ Payload(op) = COMPLETED => configuration.sealed
          [] Action(op) = "admin" -> Payload(op) \in users
          [] OTHER -> configuration # None

\* Past DATABASE_READY a pending operation makes the health check fail, so one
\* that no request works on must have a way out: recovery finishes it or gives
\* it up, or a client may send it again.  (app.py:899)
PendingCanSettle ==
    (NoRequest /\ state >= DATABASE_READY) => \A op \in Operation:
        LiveOperations[op] = "started" =>
            Recoverable(op) \/ Superseded(op) \/ Accepts(op)

\* docs/installation/INSTALLATION.md:82, "The setup is resumable. Re-running
\* `sudo plaik setup` continues from the persisted installer state": run again
\* after a stop it ends with a sealed configuration, without which the
\* health check and the public process refuse the installation.
SetupCompletes == <>(state = COMPLETED /\ configuration.sealed)

================================================================================
