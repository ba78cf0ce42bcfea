------------------------- MODULE RemoteEnrollmentProofs -------------------------
(***************************************************************************)
(* Proofs about RemoteControl and RemoteEnrollment for every set of hosts, *)
(* intents, clients and administrators, and every limit of the pairing and *)
(* passkey files.                                                          *)
(***************************************************************************)
EXTENDS RemoteEnrollment, TLAPS

(* The inductive invariant, in parts.                                      *)

TxStep == {"validate", "apply", "reload", "verify", "inspect", "observe", "rollback",
           "contain", "contain_reload", "settle"}
Configs == Config \cup {{}}
Tx == [pc: TxStep, record: RemoteRecord, plan: Plan, attempted: BOOLEAN,
       previous: Configs \cup {None}, error: {None, "failed", "drifted"}]

\* The record satisfies its validator, and a transaction works on the plan of
\* the record it read.
RemoteOK ==
    /\ remote \in RemoteRecord
    /\ disk \in Configs /\ running \in Configs
    /\ \/ tx = [pc |-> "idle"]
       \/ tx \in Tx /\ tx.record.intent # None /\ tx.plan = PlanOf(tx.record)

\* What the transaction has made of nginx when it comes to write the record.
GatewaySettled ==
    /\ tx.pc \in {"verify", "inspect", "observe"} =>
          disk = Render(tx.plan) /\ running = Render(tx.plan)
    /\ tx.pc = "reload" => disk = Render(tx.plan)
    /\ tx.pc = "settle" => running = disk /\ Inspect(disk) = "closed"

ClientStep ==
    [pc: {"idle"}]
    \cup [pc: {"hashing"}, host: Host, code: 1 .. MaxCodes]
    \cup [pc: {"options", "auth_options", "auth"}, host: Host]
    \cup [pc: {"register", "enroll", "refused", "destroy"}, host: Host,
          token: Token, user: Admin]

PairingOK ==
    /\ pairing \in Pairing \cup {None}
    /\ cookie \in [Client -> Token \cup {None}]
    /\ issuing \in Host \cup {None}
    /\ codes \in 0 .. MaxCodes
    /\ wrong \in [1 .. MaxCodes -> Nat] /\ granted \in [1 .. MaxCodes -> Nat]

PasskeysOK ==
    /\ passkeys \in [rp: Host \cup {None}, user: Admin \cup {None},
                     pending: SUBSET [id: 1 .. MaxChallenges,
                                      purpose: {"register", "authenticate"}]]
    /\ challenges \in 0 .. MaxChallenges
    /\ spent \in [1 .. MaxChallenges -> Nat]
    /\ verified \subseteq Host

TypeOK == RemoteOK /\ PairingOK /\ PasskeysOK /\ client \in [Client -> ClientStep]

\* A code that is still in the file opened no session, and its wrong answers
\* are the file's count; a later code has seen nothing.
CodesInv ==
    /\ issuing # None => codes < MaxCodes
    /\ pairing # None /\ pairing.code # 0 =>
          /\ pairing.code <= codes
          /\ granted[pairing.code] = 0
          /\ wrong[pairing.code] = pairing.failed /\ pairing.failed < MaxFailed
    /\ \A c \in 1 .. MaxCodes:
          /\ granted[c] <= 1 /\ wrong[c] <= MaxFailed
          /\ c > codes => granted[c] = 0 /\ wrong[c] = 0

\* A pending challenge was never accepted, and is the only one of its number.
ChallengesInv ==
    /\ \A c \in passkeys.pending:
          /\ c.id <= challenges /\ spent[c.id] = 0
          /\ \A d \in passkeys.pending: c.id = d.id => c = d
    /\ \A i \in 1 .. MaxChallenges:
          /\ spent[i] <= 1
          /\ i > challenges => spent[i] = 0

\* A configuration opens nothing but hosts with a verified registration.
Safe(config) == \A h \in Host: Opens(config, h) => h \in verified

\* The provider holds the text that was there before.
HasPrevious == tx.previous # None \/ tx.pc \in {"reload", "contain_reload"}

\* Everything from which a host may come to be recorded or opened.
GatewayOpenInv ==
    /\ remote.rp # None => remote.rp \in verified
    /\ Safe(disk) /\ Safe(running)
    /\ tx.pc # "idle" =>
          /\ Safe(Render(tx.plan))
          /\ HasPrevious => tx.previous \in Configs /\ Safe(tx.previous)
EnrollOpenInv ==
    /\ passkeys.user # None => passkeys.rp \in verified
    /\ \A r \in Client: At(r, "enroll") => client[r].host \in verified


-----------------------------------------------------------------------------
(* The record, the plan and what nginx is given.                           *)

\* A rendered plan opens a Control Center only when it says so, for its host.
LEMMA RenderOpens ==
    ASSUME NEW plan \in Plan
    PROVE  /\ \A h \in Host: Opens(Render(plan), h) =>
                 plan.surface = "control_center" /\ h = plan.host
           /\ plan.surface = "control_center" => Opens(Render(plan), plan.host)
           /\ plan.surface = "closed" => Render(plan) = {}
<1>1. plan.host \in Host /\ plan.host # "public" /\ plan.surface \in Surface
    BY RemoteAssumption DEF Plan
<1>2. CASE plan.surface = "closed"
    BY <1>2 DEF Render, Opens, Inspect
<1>3. CASE plan.surface = "activate_only"
    <2> DEFINE web == [name |-> "public", proxy |-> {"web"}]
               own == [name |-> plan.host, proxy |-> {"activate"}]
    <2>1. Render(plan) = {web, own}
        BY <1>3 DEF Render
    <2>2. {web, own} # {} /\ {block \in {web, own}: block.name # "public"} = {own}
        BY <1>1
    <2>3. own.proxy = {"activate"} /\ {"activate"} # {"root"}
        OBVIOUS
    <2>4. Inspect({web, own}) = "activate_only"
        BY <2>2, <2>3 DEF Inspect
    <2> QED
        BY <1>3, <2>1, <2>4 DEF Opens
<1>4. CASE plan.surface = "control_center"
    <2> DEFINE web == [name |-> "public", proxy |-> {"web"}]
               own == [name |-> plan.host, proxy |-> {"root"}]
    <2>1. Render(plan) = {web, own}
        BY <1>4 DEF Render
    <2>2. {web, own} # {} /\ own \in {block \in {web, own}: block.name # "public"}
          /\ own.proxy = {"root"}
        BY <1>1
    <2>3. Inspect({web, own}) = "control_center"
        BY <2>2 DEF Inspect
    <2>4. \A h \in Host: (\E block \in {web, own}: block.name = h) <=> h = plan.host
        BY <1>1, RemoteAssumption
    <2> QED
        BY <1>1, <1>4, <2>1, <2>3, <2>4 DEF Opens
<1> QED
    BY <1>1, <1>2, <1>3, <1>4 DEF Surface

\* A valid record has a plan, which opens the host of an enrolled admin or none;
\* the containment plan opens nothing.
LEMMA PlanOfRecord ==
    ASSUME NEW r \in RemoteRecord, r.intent # None
    PROVE  /\ PlanOf(r) \in Plan
           /\ PlanOf(r).host = r.intent.host /\ r.intent.host \in Host
           /\ PlanOf(r).surface = "control_center" => r.rp = r.intent.host
           /\ r.status = "publication_pending" => PlanOf(r).surface = "control_center"
           /\ ContainmentPlan(r) \in Plan /\ ContainmentPlan(r).surface = "closed"
<1>1. /\ r \in [intent: Intent \cup {None}, status: Status, rp: Host \cup {None}]
      /\ r.status \in {"publication_pending", "enabled"} => r.rp = r.intent.host
    BY DEF RemoteRecord
<1>2. r.intent.host \in Host
    BY <1>1, RemoteAssumption
<1>3. PublicationSurface(r) \in Surface
      /\ (PublicationSurface(r) = "control_center" => r.rp = r.intent.host)
      /\ (r.status = "publication_pending" => PublicationSurface(r) = "control_center")
    BY <1>1 DEF PublicationSurface, WanSurface, Enrolled, Surface
<1> DEFINE d == [r EXCEPT !.status = "disabled"]
<1>4. d.intent = r.intent /\ d.status = "disabled"
    BY <1>1
<1>5. PublicationSurface(d) = "closed"
    BY <1>4 DEF PublicationSurface, WanSurface
<1> QED
    BY <1>2, <1>3, <1>4, <1>5 DEF PlanOf, ContainmentPlan, Plan, Surface

\* The configurations of nginx.
LEMMA RenderConfigs ==
    /\ \A plan \in Plan: Render(plan) \in Configs
    /\ {} \in Configs /\ \A h \in Host: ~Opens({}, h)
    /\ Inspect({}) = "closed"
BY DEF Configs, Config, Opens, Inspect

\* The operator's operations keep the record valid and enrol nobody.
LEMMA OperatorStep ==
    ASSUME remote \in RemoteRecord, Operator
    PROVE  /\ remote' \in RemoteRecord
           /\ remote'.rp \in {remote.rp, None}
           /\ UNCHANGED <<tx, disk, running>>
<1>0. UNCHANGED <<tx, disk, running>>
    BY DEF Operator, RequestRemote, PreflightFailed, PreflightSucceeded, Fail, RetryPreflight,
           Disable, Operate, gateway
<1>1. ASSUME NEW intent \in Intent, RequestRemote(intent)
      PROVE  remote' \in RemoteRecord /\ remote'.rp \in {remote.rp, None}
    <2>1. intent.host \in Host /\ intent # None
        BY RemoteAssumption
    <2>2. remote'.rp \in {remote.rp, None} /\ remote'.rp \in Host \cup {None}
        BY <1>1, <2>1 DEF RequestRemote, Operate
    <2>3. remote' = [intent |-> intent, status |-> "preflight", rp |-> remote'.rp]
        BY <1>1 DEF RequestRemote, Operate
    <2> QED
        BY <2>1, <2>2, <2>3 DEF RemoteRecord, Status, Active
<1>2. CASE PreflightFailed \/ Fail \/ Disable
    <2>1. PICK status \in {"error", "disabled"}: remote' = [remote EXCEPT !.status = status]
        BY <1>2 DEF PreflightFailed, Fail, Disable, Operate
    <2>2. status \in Status /\ status \notin Active
        BY DEF Status, Active
    <2>3. status \notin {"publication_pending", "enabled"}
        OBVIOUS
    <2> QED
        BY <1>0, <2>1, <2>2, <2>3 DEF RemoteRecord
<1>3. CASE RetryPreflight
    <2>1. remote' = [remote EXCEPT !.status = "preflight"] /\ remote.intent # None
        BY <1>3 DEF RetryPreflight, Operate
    <2>2. "preflight" \in Status
        BY DEF Status
    <2> QED
        BY <1>0, <2>1, <2>2 DEF RemoteRecord, Active
<1>4. CASE PreflightSucceeded
    <2> DEFINE status == IF Enrolled(remote) THEN "publication_pending" ELSE "enrollment_pending"
    <2>1. remote' = [remote EXCEPT !.status = status] /\ remote.status = "preflight"
        BY <1>4 DEF PreflightSucceeded, Operate
    <2>2. remote.intent # None
        BY <2>1 DEF RemoteRecord, Active, Status
    <2>3. /\ status \in Status
          /\ status \in {"publication_pending", "enabled"} => remote.rp = remote.intent.host
        BY DEF Status, Enrolled
    <2> HIDE DEF status
    <2> QED
        BY <1>0, <2>1, <2>2, <2>3 DEF RemoteRecord
<1> QED
    BY <1>0, <1>1, <1>2, <1>3, <1>4 DEF Operator

GatewayInv == RemoteOK /\ GatewaySettled /\ GatewayOpenInv

\* The transaction in a step that is not the first.
LEMMA InTransaction ==
    ASSUME GatewayInv, tx.pc # "idle"
    PROVE  /\ tx \in Tx /\ tx.record.intent # None /\ tx.plan = PlanOf(tx.record)
           /\ Safe(Render(tx.plan)) /\ tx.plan \in Plan /\ tx.record \in RemoteRecord
           /\ HasPrevious => Safe(tx.previous) /\ tx.previous \in Configs
<1>1. tx \in Tx /\ tx.record.intent # None /\ tx.plan = PlanOf(tx.record)
    BY DEF GatewayInv, RemoteOK
<1> QED
    BY <1>1 DEF Tx, GatewayInv, GatewayOpenInv

\* A step that ends the transaction.
LEMMA Finishes ==
    ASSUME GatewayInv, Finish, remote' \in RemoteRecord, remote'.rp = remote.rp,
           disk' \in Configs, running' \in Configs, Safe(disk)', Safe(running)',
           UNCHANGED verified
    PROVE  GatewayInv'
<1>1. tx' = [pc |-> "idle"] /\ tx'.pc = "idle"
    BY DEF Finish
<1> QED
    BY <1>1 DEF GatewayInv, RemoteOK, GatewaySettled, GatewayOpenInv

\* A step to another step of the transaction.
LEMMA Moves ==
    ASSUME GatewayInv, tx.pc # "idle", tx' \in Tx, UNCHANGED verified,
           tx'.record = tx.record, tx'.plan = tx.plan, UNCHANGED remote,
           HasPrevious' => tx'.previous \in Configs /\ Safe(tx'.previous),
           disk' \in Configs, running' \in Configs, Safe(disk)', Safe(running)',
           GatewaySettled'
    PROVE  GatewayInv'
<1>1. RemoteOK'
    BY InTransaction DEF GatewayInv, RemoteOK
<1>2. Safe(Render(tx'.plan)) /\ UNCHANGED verified
    BY InTransaction
<1>3. GatewayOpenInv'
    BY <1>2 DEF GatewayInv, GatewayOpenInv, Safe
<1> QED
    BY <1>1, <1>3 DEF GatewayInv

\* _fail_closed leads to the rollback or the containment.
LEMMA FailsClosed ==
    ASSUME GatewayInv, tx.pc # "idle", NEW error \in {"failed", "drifted"},
           FailClosed(error), UNCHANGED verified, UNCHANGED remote,
           disk' \in Configs, running' \in Configs, Safe(disk)', Safe(running)'
    PROVE  GatewayInv'
<1>1. /\ tx' \in Tx /\ tx'.pc \in {"rollback", "contain"}
      /\ tx'.record = tx.record /\ tx'.plan = tx.plan /\ tx'.previous = tx.previous
    BY InTransaction DEF FailClosed, Tx, TxStep
<1>2. GatewaySettled' /\ (HasPrevious' => HasPrevious)
    BY <1>1 DEF GatewaySettled, HasPrevious
<1> QED
    BY <1>1, <1>2, InTransaction, Moves

\* Every step of the transaction keeps what holds of the gateway.
LEMMA TransactionStep ==
    ASSUME GatewayInv, Transaction, UNCHANGED verified
    PROVE  GatewayInv'
<1> USE DEF Goto
<1>1. /\ disk \in Configs /\ running \in Configs /\ Safe(disk) /\ Safe(running)
      /\ \A config \in Configs: Safe(config) => Safe(config)'
    BY DEF GatewayInv, RemoteOK, GatewayOpenInv, Safe
<1>2. ASSUME UNCHANGED <<disk, running>>
      PROVE  disk' \in Configs /\ running' \in Configs /\ Safe(disk)' /\ Safe(running)'
    BY <1>1, <1>2 DEF Safe
<1>3. CASE Begin
    <2>1. remote.intent # None /\ remote \in RemoteRecord
          /\ tx' = [pc |-> "validate", record |-> remote, plan |-> PlanOf(remote),
                    attempted |-> FALSE, previous |-> None, error |-> None]
          /\ UNCHANGED <<remote, disk, running>>
        BY <1>3 DEF Begin, GatewayInv, RemoteOK
    <2>2. PlanOf(remote) \in Plan
        BY <2>1, PlanOfRecord
    <2>3. tx' \in Tx
        BY <2>1, <2>2 DEF Tx, TxStep
    <2>4. RemoteOK'
        BY <2>1, <2>3 DEF GatewayInv, RemoteOK
    <2>5. Safe(Render(PlanOf(remote)))
        <3> SUFFICES ASSUME NEW h \in Host, Opens(Render(PlanOf(remote)), h)
                     PROVE  h \in verified
            BY DEF Safe
        <3>1. PlanOf(remote).surface = "control_center" /\ h = PlanOf(remote).host
            BY <2>2, RenderOpens
        <3>2. remote.rp = h
            BY <2>1, <3>1, PlanOfRecord
        <3> QED
            BY <3>2, RemoteAssumption DEF GatewayInv, GatewayOpenInv
    <2>6. GatewayOpenInv'
        <3>1. ~HasPrevious' /\ tx'.plan = PlanOf(remote)
            BY <2>1 DEF HasPrevious
        <3>2. Safe(disk)' /\ Safe(running)'
            BY <1>2, <2>1
        <3>3. remote'.rp # None => remote'.rp \in verified'
            BY <2>1 DEF GatewayInv, GatewayOpenInv
        <3>4. Safe(Render(tx.plan))'
            BY <2>5, <3>1 DEF Safe
        <3> QED
            BY <3>1, <3>2, <3>3, <3>4 DEF GatewayOpenInv
    <2>7. GatewaySettled'
        BY <2>1 DEF GatewaySettled
    <2> QED
        BY <2>4, <2>6, <2>7 DEF GatewayInv
<1>4. CASE Validate
    <2>1. UNCHANGED <<remote, disk, running>> /\ tx.pc = "validate"
        BY <1>4 DEF Validate
    <2>2. CASE tx' = [tx EXCEPT !.pc = "apply", !.attempted = TRUE]
        <3>1. /\ tx' \in Tx /\ tx'.pc = "apply" /\ tx'.previous = tx.previous
              /\ tx'.record = tx.record /\ tx'.plan = tx.plan
            BY <2>1, <2>2, InTransaction DEF Tx, TxStep
        <3>2. GatewaySettled' /\ (HasPrevious' => HasPrevious)
            BY <3>1 DEF GatewaySettled, HasPrevious
        <3> QED
            BY <1>2, <2>1, <3>1, <3>2, InTransaction, Moves
    <2> QED
        BY <1>2, <1>4, <2>1, <2>2, FailsClosed DEF Validate
<1>5. CASE ApplyWrite
    <2>1. UNCHANGED <<remote, running>> /\ tx.pc = "apply"
        BY <1>5 DEF ApplyWrite
    <2>2. CASE tx' = [tx EXCEPT !.pc = "reload", !.previous = disk] /\ disk' = Render(tx.plan)
        <3>1. /\ tx' \in Tx /\ tx'.pc = "reload" /\ tx'.previous = disk
              /\ tx'.record = tx.record /\ tx'.plan = tx.plan
            BY <1>1, <2>1, <2>2, InTransaction DEF Tx, TxStep
        <3>2. GatewaySettled'
            BY <2>2, <3>1 DEF GatewaySettled
        <3>3. disk' \in Configs /\ Safe(disk)' /\ running' \in Configs /\ Safe(running)'
            BY <1>1, <2>1, <2>2, InTransaction, RenderConfigs DEF Safe
        <3> QED
            BY <1>1, <2>1, <3>1, <3>2, <3>3, Moves
    <2> QED
        BY <1>2, <1>5, <2>1, <2>2, FailsClosed DEF ApplyWrite
<1>6. CASE ApplyReload
    <2>1. UNCHANGED remote /\ tx.pc = "reload"
        BY <1>6 DEF ApplyReload
    <2>2. CASE Goto("verify") /\ running' = disk /\ UNCHANGED disk
        <3>1. /\ tx' \in Tx /\ tx'.pc = "verify" /\ tx'.previous = tx.previous
              /\ tx'.record = tx.record /\ tx'.plan = tx.plan
            BY <2>1, <2>2, InTransaction DEF Tx, TxStep
        <3>2. disk = Render(tx.plan)
            BY <2>1 DEF GatewayInv, GatewaySettled
        <3>3. GatewaySettled' /\ (HasPrevious' => HasPrevious)
            BY <2>2, <3>1, <3>2 DEF GatewaySettled, HasPrevious
        <3>4. disk' \in Configs /\ Safe(disk)' /\ running' \in Configs /\ Safe(running)'
            BY <1>1, <2>2 DEF Safe
        <3> QED
            BY <2>1, <3>1, <3>3, <3>4, InTransaction, Moves
    <2>3. CASE FailClosed("failed") /\ running' \in {running, disk} /\ disk' = tx.previous
        <3>1. tx.previous \in Configs /\ Safe(tx.previous)
            BY <2>1, InTransaction DEF HasPrevious
        <3>2. disk' \in Configs /\ Safe(disk)' /\ running' \in Configs /\ Safe(running)'
            BY <1>1, <2>3, <3>1 DEF Safe
        <3> QED
            BY <2>1, <2>3, <3>2, FailsClosed
    <2> QED
        BY <1>6, <2>2, <2>3 DEF ApplyReload
<1>7. CASE Verify
    <2>1. UNCHANGED <<remote, disk, running>> /\ tx.pc = "verify"
        BY <1>7 DEF Verify
    <2>2. CASE tx' = [tx EXCEPT !.pc = "inspect"]
        <3>1. /\ tx' \in Tx /\ tx'.pc = "inspect" /\ tx'.previous = tx.previous
              /\ tx'.record = tx.record /\ tx'.plan = tx.plan
            BY <2>1, <2>2, InTransaction DEF Tx, TxStep
        <3>2. GatewaySettled' /\ (HasPrevious' => HasPrevious)
            BY <2>1, <3>1 DEF GatewayInv, GatewaySettled, HasPrevious
        <3> QED
            BY <1>2, <2>1, <3>1, <3>2, InTransaction, Moves
    <2> QED
        BY <1>2, <1>7, <2>1, <2>2, FailsClosed DEF Verify
<1>8. CASE InspectGateway
    <2>1. UNCHANGED <<remote, disk, running>> /\ tx.pc = "inspect"
        BY <1>8 DEF InspectGateway
    <2>2. CASE tx' = [tx EXCEPT !.pc = "observe"]
        <3>1. /\ tx' \in Tx /\ tx'.pc = "observe" /\ tx'.previous = tx.previous
              /\ tx'.record = tx.record /\ tx'.plan = tx.plan
            BY <2>1, <2>2, InTransaction DEF Tx, TxStep
        <3>2. GatewaySettled' /\ (HasPrevious' => HasPrevious)
            BY <2>1, <3>1 DEF GatewayInv, GatewaySettled, HasPrevious
        <3> QED
            BY <1>2, <2>1, <3>1, <3>2, InTransaction, Moves
    <2> QED
        BY <1>2, <1>8, <2>1, <2>2, FailsClosed DEF InspectGateway
<1>9. CASE Observe
    <2>1. UNCHANGED <<disk, running>> /\ tx.pc = "observe"
        BY <1>9 DEF Observe
    <2>2. CASE FailClosed("drifted") /\ UNCHANGED remote
        BY <1>2, <2>1, <2>2, FailsClosed
    <2>3. CASE Finish /\ UNCHANGED remote
        BY <1>2, <2>1, <2>3, Finishes DEF GatewayInv, RemoteOK
    <2>4. CASE /\ remote = tx.record /\ tx.record.status = "publication_pending"
               /\ remote' = [remote EXCEPT !.status = "enabled"] /\ Finish
        <3>1. remote' \in RemoteRecord /\ remote'.rp = remote.rp
            BY <2>4 DEF GatewayInv, RemoteOK, RemoteRecord, Status, Active
        <3> QED
            BY <1>2, <2>1, <2>4, <3>1, Finishes
    <2> QED
        BY <1>9, <2>2, <2>3, <2>4 DEF Observe
<1>10. CASE Rollback
    <2>1. UNCHANGED remote /\ tx.pc = "rollback" /\ tx' = [tx EXCEPT !.pc = "contain"]
        BY <1>10 DEF Rollback
    <2>2. /\ tx' \in Tx /\ tx'.pc = "contain" /\ tx'.previous = tx.previous
          /\ tx'.record = tx.record /\ tx'.plan = tx.plan
        BY <2>1, InTransaction DEF Tx, TxStep
    <2>3. GatewaySettled' /\ (HasPrevious' => HasPrevious)
        BY <2>2 DEF GatewaySettled, HasPrevious
    <2>4. disk' \in Configs /\ Safe(disk)' /\ running' \in Configs /\ Safe(running)'
        <3>1. CASE tx.previous = None
            BY <1>2, <1>10, <3>1 DEF Rollback
        <3>2. CASE tx.previous # None
            <4>1. tx.previous \in Configs /\ Safe(tx.previous)
                BY <2>1, <3>2, InTransaction DEF HasPrevious
            <4>2. disk' = tx.previous /\ running' \in {running, tx.previous}
                BY <1>10, <3>2 DEF Rollback
            <4> QED
                BY <1>1, <4>1, <4>2 DEF Safe
        <3> QED
            BY <3>1, <3>2
    <2> QED
        BY <2>1, <2>2, <2>3, <2>4, InTransaction, Moves
<1>11. CASE ContainWrite
    <2>1. /\ UNCHANGED <<remote, running>> /\ tx.pc = "contain"
          /\ tx' = [tx EXCEPT !.pc = "contain_reload", !.previous = disk]
          /\ disk' = Render(ContainmentPlan(tx.record))
        BY <1>11 DEF ContainWrite
    <2>2. /\ tx' \in Tx /\ tx'.pc = "contain_reload" /\ tx'.previous = disk
          /\ tx'.record = tx.record /\ tx'.plan = tx.plan
        BY <1>1, <2>1, InTransaction DEF Tx, TxStep
    <2>3. GatewaySettled'
        BY <2>2 DEF GatewaySettled
    <2>4. disk' = {}
        BY <2>1, InTransaction, PlanOfRecord, RenderOpens
    <2>5. disk' \in Configs /\ Safe(disk)' /\ running' \in Configs /\ Safe(running)'
        BY <1>1, <2>1, <2>4, RenderConfigs DEF Safe
    <2> QED
        BY <1>1, <2>1, <2>2, <2>3, <2>5, Moves
<1>12. CASE ContainReload
    <2>1. UNCHANGED remote /\ tx.pc = "contain_reload"
        BY <1>12 DEF ContainReload
    <2>2. tx.previous \in Configs /\ Safe(tx.previous)
        BY <2>1, InTransaction DEF HasPrevious
    <2>3. CASE running' = disk /\ UNCHANGED disk /\ Inspect(disk) = "closed" /\ Goto("settle")
        <3>1. /\ tx' \in Tx /\ tx'.pc = "settle" /\ tx'.previous = tx.previous
              /\ tx'.record = tx.record /\ tx'.plan = tx.plan
            BY <2>1, <2>3, InTransaction DEF Tx, TxStep
        <3>2. GatewaySettled' /\ (HasPrevious' => tx'.previous \in Configs /\ Safe(tx'.previous))
            BY <2>2, <2>3, <3>1 DEF GatewaySettled
        <3>3. disk' \in Configs /\ Safe(disk)' /\ running' \in Configs /\ Safe(running)'
            BY <1>1, <2>3 DEF Safe
        <3> QED
            BY <2>1, <3>1, <3>2, <3>3, Moves
    <2>4. CASE /\ running' \in {running, disk} /\ disk' \in {disk, tx.previous}
               /\ Finish
        <3>1. disk' \in Configs /\ Safe(disk)' /\ running' \in Configs /\ Safe(running)'
            BY <1>1, <2>2, <2>4 DEF Safe
        <3>2. remote' \in RemoteRecord /\ remote'.rp = remote.rp
            BY <2>1 DEF GatewayInv, RemoteOK
        <3> QED
            BY <2>4, <3>1, <3>2, Finishes
    <2> QED
        BY <1>12, <2>3, <2>4 DEF ContainReload
<1>13. CASE Settle
    <2>1. UNCHANGED <<disk, running>> /\ Finish
        BY <1>13 DEF Settle
    <2>2. remote' = remote \/ remote' = [remote EXCEPT !.status = "error"]
        BY <1>13 DEF Settle
    <2>3. remote' \in RemoteRecord /\ remote'.rp = remote.rp
        BY <2>2 DEF GatewayInv, RemoteOK, RemoteRecord, Status, Active
    <2> QED
        BY <1>2, <2>1, <2>3, Finishes
<1>14. CASE GatewayCrash
    BY <1>2, <1>14, Finishes DEF GatewayCrash, GatewayInv, RemoteOK
<1>15. CASE NginxReloads
    <2>1. running # disk /\ running' = disk /\ UNCHANGED <<remote, tx, disk>>
        BY <1>15 DEF NginxReloads
    <2>2. RemoteOK'
        BY <2>1 DEF GatewayInv, RemoteOK
    <2>3. GatewaySettled'
        BY <2>1 DEF GatewayInv, GatewaySettled
    <2>4. GatewayOpenInv'
        BY <2>1 DEF GatewayInv, GatewayOpenInv, Safe, HasPrevious
    <2> QED
        BY <2>2, <2>3, <2>4 DEF GatewayInv
<1> QED
    BY <1>3, <1>4, <1>5, <1>6, <1>7, <1>8, <1>9, <1>10, <1>11, <1>12, <1>13, <1>14, <1>15
       DEF Transaction

\* Steps that leave the record and the gateway alone.
LEMMA GatewayLeftAlone ==
    ASSUME GatewayInv, UNCHANGED <<remote, tx, disk, running>>, verified \subseteq verified'
    PROVE  GatewayInv'
<1>1. RemoteOK'
    BY DEF GatewayInv, RemoteOK
<1>2. GatewaySettled'
    BY DEF GatewayInv, GatewaySettled
<1>3. GatewayOpenInv'
    BY DEF GatewayInv, GatewayOpenInv, Safe, HasPrevious
<1> QED
    BY <1>1, <1>2, <1>3 DEF GatewayInv

\* The operator's steps.
LEMMA OperatorGatewayStep ==
    ASSUME GatewayInv, Operator, UNCHANGED verified
    PROVE  GatewayInv'
<1>1. /\ remote' \in RemoteRecord /\ remote'.rp \in {remote.rp, None}
      /\ UNCHANGED <<tx, disk, running>>
    BY OperatorStep DEF GatewayInv, RemoteOK
<1>2. RemoteOK'
    BY <1>1 DEF GatewayInv, RemoteOK
<1>3. GatewaySettled'
    BY <1>1 DEF GatewayInv, GatewaySettled
<1>4. GatewayOpenInv'
    BY <1>1 DEF GatewayInv, GatewayOpenInv, Safe, HasPrevious
<1> QED
    BY <1>2, <1>3, <1>4 DEF GatewayInv

\* record_admin_passkey_enrolled, for a host with a verified registration.
LEMMA EnrolledGatewayStep ==
    ASSUME GatewayInv, NEW h \in verified, CanEnroll(h), RecordEnrolled(h),
           UNCHANGED gateway, UNCHANGED verified
    PROVE  GatewayInv'
<1>1. UNCHANGED <<tx, disk, running>>
    BY DEF gateway
<1>2. /\ remote \in [intent: Intent \cup {None}, status: Status, rp: Host \cup {None}]
      /\ remote.intent # None /\ remote.intent.host = h /\ h \in Host
    BY RemoteAssumption DEF CanEnroll, GatewayInv, RemoteOK, RemoteRecord, Active, Status
<1>3. remote' \in RemoteRecord /\ remote'.rp = h
    BY <1>2 DEF RecordEnrolled, RemoteRecord, Status, Active
<1>4. RemoteOK'
    BY <1>1, <1>3 DEF GatewayInv, RemoteOK
<1>5. GatewaySettled'
    BY <1>1 DEF GatewayInv, GatewaySettled
<1>6. GatewayOpenInv'
    BY <1>1, <1>3 DEF GatewayInv, GatewayOpenInv, Safe, HasPrevious
<1> QED
    BY <1>4, <1>5, <1>6 DEF GatewayInv

\* The two steps of a transaction that write the record write what is so.
LEMMA WritesWhatIsSo ==
    ASSUME GatewayInv, Transaction, tx' # tx, remote' # remote
    PROVE  \/ remote'.status = "enabled" /\ Opens(running, remote.intent.host)
           \/ remote'.status = "error" /\ Inspect(running) = "closed"
<1>1. CASE Observe
    <2>1. /\ tx.pc = "observe" /\ tx.record.status = "publication_pending"
          /\ remote = tx.record /\ remote' = [remote EXCEPT !.status = "enabled"]
        BY <1>1 DEF Observe
    <2>2. remote'.status = "enabled"
        BY <2>1 DEF GatewayInv, RemoteOK, RemoteRecord
    <2>3. /\ running = Render(tx.plan) /\ tx.plan \in Plan /\ tx.plan = PlanOf(remote)
          /\ remote.intent # None /\ remote \in RemoteRecord
        BY <2>1, InTransaction DEF GatewayInv, GatewaySettled
    <2>4. tx.plan.surface = "control_center" /\ tx.plan.host = remote.intent.host
        BY <2>1, <2>3, PlanOfRecord
    <2> QED
        BY <2>2, <2>3, <2>4, RenderOpens
<1>2. CASE Settle
    <2>1. tx.pc = "settle" /\ remote' = [remote EXCEPT !.status = "error"]
        BY <1>2 DEF Settle
    <2>2. remote'.status = "error"
        BY <2>1 DEF GatewayInv, RemoteOK, RemoteRecord
    <2> QED
        BY <2>1, <2>2 DEF GatewayInv, GatewaySettled
<1> QED
    BY <1>1, <1>2 DEF Transaction, Begin, Validate, ApplyWrite, ApplyReload, Verify,
       InspectGateway, Rollback, ContainWrite, ContainReload, GatewayCrash, NginxReloads

-----------------------------------------------------------------------------
(* The pairing file.                                                       *)

\* What the updates of the pairing file that answer no code do.
LEMMA ReleasedKeeps ==
    ASSUME NEW p \in Pairing \cup {None}, NEW code
    PROVE  /\ Released(p, code) \in Pairing \cup {None}
           /\ Unleased(p) \in Pairing \cup {None}
           /\ \A q \in {Released(p, code), Unleased(p)}:
                 q # None => p # None /\ q.code = p.code /\ q.failed = p.failed
<1>1. CASE p = None
    BY <1>1 DEF Released, Unleased
<1>2. CASE p # None
    <2>1. p \in Pairing
        BY <1>2
    <2>2. p.inFlight \in Nat /\ p.leased \in BOOLEAN
        BY <2>1 DEF Pairing
    <2> DEFINE n == p.inFlight - 1
               l == p.leased /\ p.inFlight > 1
    <2>4. p.inFlight > 0 => n \in Nat
        BY <2>2
    <2>5. l \in BOOLEAN
        OBVIOUS
    <2>6. Released(p, code) = IF p.code = code /\ p.inFlight > 0
                              THEN [p EXCEPT !.inFlight = n, !.leased = l]
                              ELSE p
        BY <1>2, <2>1 DEF Released, Pairing
    <2>7. Unleased(p) \in {p, [p EXCEPT !.inFlight = 0]}
        BY DEF Unleased
    <2> HIDE DEF n, l
    <2>8. /\ Released(p, code) \in Pairing /\ Released(p, code).code = p.code
          /\ Released(p, code).failed = p.failed
        <3>1. CASE p.code = code /\ p.inFlight > 0
            <4>1. n \in Nat /\ Released(p, code) = [p EXCEPT !.inFlight = n, !.leased = l]
                BY <2>4, <2>6, <3>1
            <4> QED
                BY <2>1, <2>5, <4>1 DEF Pairing
        <3>2. CASE ~(p.code = code /\ p.inFlight > 0)
            BY <2>1, <2>6, <3>2
        <3> QED
            BY <3>1, <3>2
    <2>9. /\ Unleased(p) \in Pairing /\ Unleased(p).code = p.code
          /\ Unleased(p).failed = p.failed
        BY <2>1, <2>7 DEF Pairing
    <2> QED
        BY <1>2, <2>8, <2>9
<1> QED
    BY <1>1, <1>2

\* _register_failure_unlocked counts, and gives the code up at the maximum.
LEMMA AfterFailureCounts ==
    ASSUME NEW p \in Pairing
    PROVE  /\ AfterFailure(p) \in Pairing
           /\ AfterFailure(p).failed = p.failed + 1
           /\ AfterFailure(p).code # 0 =>
                 AfterFailure(p).code = p.code /\ p.failed + 1 < MaxFailed
<1> DEFINE locks == p.failed + 1 >= MaxFailed
           slots == IF locks \/ p.inFlight = 0 THEN 0 ELSE p.inFlight - 1
<1>1. /\ p.failed \in Nat /\ p.inFlight \in Nat /\ p.code \in 0 .. MaxCodes
      /\ p.leased \in BOOLEAN
    BY DEF Pairing
<1>2. slots \in Nat /\ locks \in BOOLEAN /\ MaxCodes \in Nat /\ MaxFailed \in Nat
    BY <1>1, EnrollmentAssumption
<1> DEFINE leased == p.leased /\ slots > 0
           code == IF locks THEN 0 ELSE p.code
           q == [p EXCEPT !.code = code, !.failed = p.failed + 1,
                          !.inFlight = slots, !.leased = leased, !.locked = locks]
<1>3. AfterFailure(p) = q /\ leased \in BOOLEAN /\ code \in 0 .. MaxCodes
    BY <1>1, <1>2 DEF AfterFailure, Pairing
<1> HIDE DEF locks, slots, leased, code
<1>4. q \in Pairing /\ q.failed = p.failed + 1 /\ q.code = code
    <2>1. p \in [host: Host, code: 0 .. MaxCodes, expired: BOOLEAN, failed: Nat,
                  inFlight: Nat, leased: BOOLEAN, locked: BOOLEAN,
                  session: Token \cup {None}, live: BOOLEAN]
        BY DEF Pairing
    <2>2. q.failed = p.failed + 1 /\ q.code = code
        BY <2>1
    <2>3. p.failed + 1 \in Nat
        BY <1>1
    <2>4. q \in Pairing
        BY <1>2, <1>3, <2>1, <2>3 DEF Pairing
    <2> QED
        BY <2>2, <2>4
<1> QED
    BY <1>1, <1>2, <1>3, <1>4 DEF locks, code

PairingInv == PairingOK /\ CodesInv

\* A step after which the file holds the code it held, with its count, or none.
LEMMA PairingUpdate ==
    ASSUME PairingInv, UNCHANGED <<codes, wrong, granted, issuing>>,
           cookie' \in [Client -> Token \cup {None}],
           pairing' \in Pairing \cup {None},
           pairing' # None /\ pairing'.code # 0 =>
               /\ pairing # None
               /\ pairing'.code = pairing.code /\ pairing'.failed = pairing.failed
    PROVE  PairingInv'
BY DEF PairingInv, PairingOK, CodesInv

\* A wrong answer to the code in the file.
LEMMA CountedFailure ==
    ASSUME PairingInv, pairing # None, pairing.code # 0, pairing' = AfterFailure(pairing),
           wrong' = [wrong EXCEPT ![pairing.code] = @ + 1],
           UNCHANGED <<codes, granted, issuing, cookie>>
    PROVE  PairingInv'
<1> DEFINE c == pairing.code
<1>1. pairing \in Pairing /\ c \in 1 .. MaxCodes /\ pairing.failed \in Nat
    BY DEF PairingInv, PairingOK, Pairing
<1>2. /\ granted[c] = 0 /\ wrong[c] = pairing.failed /\ pairing.failed < MaxFailed /\ c <= codes
      /\ MaxFailed \in Nat /\ codes \in Nat
    BY EnrollmentAssumption DEF PairingInv, PairingOK, CodesInv
<1>3. /\ wrong' \in [1 .. MaxCodes -> Nat] /\ wrong'[c] = pairing.failed + 1
      /\ \A d \in 1 .. MaxCodes: d # c => wrong'[d] = wrong[d]
    BY <1>1, <1>2 DEF PairingInv, PairingOK
<1>4. PairingOK'
    BY <1>1, <1>3, AfterFailureCounts DEF PairingInv, PairingOK
<1>5. pairing'.code # 0 => pairing'.code = c /\ pairing'.failed = pairing.failed + 1
                           /\ pairing.failed + 1 < MaxFailed
    BY <1>1, AfterFailureCounts
<1> HIDE DEF c
<1>6. \A d \in 1 .. MaxCodes:
         /\ granted'[d] <= 1 /\ wrong'[d] <= MaxFailed
         /\ d > codes' => granted'[d] = 0 /\ wrong'[d] = 0
    BY <1>1, <1>2, <1>3 DEF PairingInv, CodesInv
<1>7. CodesInv'
    BY <1>2, <1>3, <1>5, <1>6 DEF PairingInv, CodesInv
<1> QED
    BY <1>4, <1>7 DEF PairingInv

\* Every step keeps the pairing file's invariant: the steps that change it.
LEMMA PairingStep ==
    ASSUME PairingInv, Next
    PROVE  PairingInv'
<1>1. pairing \in Pairing \cup {None} /\ cookie \in [Client -> Token \cup {None}]
    BY DEF PairingInv, PairingOK
<1>2. ASSUME UNCHANGED <<pairing, cookie, issuing, codes, wrong, granted>>
      PROVE  PairingInv'
    BY <1>2, <1>1, PairingUpdate
<1>3. ASSUME NEW h \in Host, BeginIssue(h) PROVE PairingInv'
    BY <1>3 DEF BeginIssue, counters, history, PairingInv, PairingOK, CodesInv
<1>4. CASE Issue
    <2>1. issuing # None /\ codes < MaxCodes /\ issuing \in Host /\ codes \in Nat
          /\ MaxCodes \in Nat /\ MaxFailed \in Nat \ {0}
        BY <1>4, EnrollmentAssumption DEF Issue, PairingInv, CodesInv, PairingOK
    <2>2. pairing' \in Pairing /\ pairing'.code = codes + 1 /\ pairing'.failed = 0
        BY <1>4, <2>1 DEF Issue, Pairing
    <2>3. codes' = codes + 1 /\ issuing' = None /\ UNCHANGED <<cookie, wrong, granted>>
        BY <1>4 DEF Issue, history
    <2>4. PairingOK'
        BY <2>1, <2>2, <2>3 DEF PairingInv, PairingOK
    <2>5. CodesInv'
        BY <2>1, <2>2, <2>3 DEF PairingInv, CodesInv
    <2> QED
        BY <2>4, <2>5 DEF PairingInv
<1>5. CASE PairingExpires
    <2>1. UNCHANGED <<cookie, issuing, codes, wrong, granted>> /\ pairing \in Pairing
          /\ pairing # None
        BY <1>1, <1>5 DEF PairingExpires, counters, history
    <2>2. /\ pairing' \in Pairing
          /\ pairing'.code = pairing.code /\ pairing'.failed = pairing.failed
        BY <1>5, <2>1 DEF PairingExpires, Pairing
    <2> QED
        BY <1>1, <2>1, <2>2, PairingUpdate
<1>6. ASSUME NEW r \in Client, NEW h \in Host, ConsumeReserve(r, h) PROVE PairingInv'
    <2> DEFINE p == Unleased(pairing)
    <2>1. UNCHANGED <<cookie, issuing, codes, wrong, granted>>
        BY <1>6 DEF ConsumeReserve, counters, history
    <2>2. /\ p \in Pairing \cup {None}
          /\ p # None => pairing # None /\ p.code = pairing.code /\ p.failed = pairing.failed
        BY <1>1, ReleasedKeeps
    <2>3. \/ pairing' = p
          \/ p # None /\ pairing' = [p EXCEPT !.inFlight = @ + 1, !.leased = TRUE]
        BY <1>6 DEF ConsumeReserve, LiveCode
    <2> HIDE DEF p
    <2>4. /\ pairing' \in Pairing \cup {None}
          /\ pairing' # None => pairing # None /\ pairing'.code = pairing.code
                                /\ pairing'.failed = pairing.failed
        <3>1. CASE pairing' = p
            BY <2>2, <3>1
        <3>2. CASE p # None /\ pairing' = [p EXCEPT !.inFlight = @ + 1, !.leased = TRUE]
            <4>1. p \in Pairing /\ p.inFlight \in Nat /\ p.inFlight + 1 \in Nat
                BY <2>2, <3>2 DEF Pairing
            <4>2. pairing' \in Pairing /\ pairing'.code = p.code /\ pairing'.failed = p.failed
                BY <3>2, <4>1 DEF Pairing
            <4> QED
                BY <2>2, <3>2, <4>2
        <3> QED
            BY <2>3, <3>1, <3>2
    <2> QED
        BY <1>1, <2>1, <2>4, PairingUpdate
<1>7. ASSUME NEW r \in Client, ConsumeMalformed(r) PROVE PairingInv'
    <2> DEFINE me == client[r]
               then == IF pairing = None THEN None ELSE [pairing EXCEPT !.expired = FALSE]
               counts == SameLiveCode(then, me.host, me.code)
    <2>1. UNCHANGED <<cookie, issuing, codes, granted>>
        BY <1>7 DEF ConsumeMalformed, counters
    <2>2. CASE counts
        <3>1. pairing # None /\ me.code = pairing.code /\ pairing.code # 0
            BY <1>1, <2>2 DEF SameLiveCode, LiveCode, Pairing
        <3>2. pairing' = AfterFailure(pairing) /\ wrong' = [wrong EXCEPT ![pairing.code] = @ + 1]
            BY <1>7, <2>2, <3>1 DEF ConsumeMalformed
        <3> QED
            BY <2>1, <3>1, <3>2, CountedFailure
    <2>3. CASE ~counts
        BY <1>1, <1>7, <2>1, <2>3, ReleasedKeeps, PairingUpdate DEF ConsumeMalformed
    <2> QED
        BY <2>2, <2>3
<1>8. ASSUME NEW r \in Client, ConsumeWrong(r) PROVE PairingInv'
    <2> DEFINE me == client[r]
               counts == EnrollmentSurface(me.host) /\ SameLiveCode(pairing, me.host, me.code)
    <2>1. UNCHANGED <<cookie, issuing, codes, granted>>
        BY <1>8 DEF ConsumeWrong, counters
    <2>2. CASE counts
        <3>1. pairing # None /\ me.code = pairing.code /\ pairing.code # 0
            BY <2>2 DEF SameLiveCode, LiveCode
        <3>2. pairing' = AfterFailure(pairing) /\ wrong' = [wrong EXCEPT ![pairing.code] = @ + 1]
            BY <1>8, <2>2, <3>1 DEF ConsumeWrong
        <3> QED
            BY <2>1, <3>1, <3>2, CountedFailure
    <2>3. CASE ~counts
        BY <1>1, <1>8, <2>1, <2>3, ReleasedKeeps, PairingUpdate DEF ConsumeWrong
    <2> QED
        BY <2>2, <2>3
<1>9. ASSUME NEW r \in Client, ConsumeRight(r) PROVE PairingInv'
    <2> DEFINE me == client[r]
               opens == EnrollmentSurface(me.host) /\ SameLiveCode(pairing, me.host, me.code)
    <2>1. UNCHANGED <<issuing, codes, wrong>>
        BY <1>9 DEF ConsumeRight, counters
    <2>2. CASE opens
        <3> DEFINE c == pairing.code
        <3>1. pairing # None /\ me.code = c /\ c # 0 /\ pairing \in Pairing /\ c \in 1 .. MaxCodes
            BY <1>1, <2>2 DEF SameLiveCode, LiveCode, Pairing
        <3>2. <<r, c>> \in Token
            BY <3>1 DEF Token
        <3>3. pairing' = [pairing EXCEPT !.code = 0, !.inFlight = 0, !.leased = FALSE,
                                         !.session = <<r, c>>, !.live = TRUE]
              /\ cookie' = [cookie EXCEPT ![r] = <<r, c>>]
              /\ granted' = [granted EXCEPT ![c] = @ + 1]
            BY <1>9, <2>2, <3>1 DEF ConsumeRight
        <3>4. pairing' \in Pairing /\ pairing'.code = 0
            <4>1. 0 \in 0 .. MaxCodes
                BY EnrollmentAssumption
            <4> HIDE DEF c
            <4> QED
                BY <3>1, <3>2, <3>3, <4>1 DEF Pairing
        <3>5. cookie' \in [Client -> Token \cup {None}]
            BY <1>1, <3>2, <3>3
        <3>6. granted[c] = 0 /\ c <= codes
            BY <3>1 DEF PairingInv, CodesInv
        <3>7. /\ granted' \in [1 .. MaxCodes -> Nat] /\ granted'[c] = 1
              /\ \A d \in 1 .. MaxCodes: d # c => granted'[d] = granted[d]
            BY <3>1, <3>3, <3>6 DEF PairingInv, PairingOK
        <3> HIDE DEF c
        <3>8. PairingOK'
            BY <2>1, <3>4, <3>5, <3>7 DEF PairingInv, PairingOK
        <3>9. CodesInv'
            BY <2>1, <3>1, <3>4, <3>6, <3>7 DEF PairingInv, PairingOK, CodesInv
        <3> QED
            BY <3>8, <3>9 DEF PairingInv
    <2>3. CASE ~opens
        BY <1>1, <1>9, <2>1, <2>3, ReleasedKeeps, PairingUpdate DEF ConsumeRight
    <2> QED
        BY <2>2, <2>3
<1>10. ASSUME NEW r \in Client, ConsumeAbandoned(r) PROVE PairingInv'
    BY <1>1, <1>10, ReleasedKeeps, PairingUpdate DEF ConsumeAbandoned, counters, history
<1>11. ASSUME NEW r \in Client, Destroy(r) PROVE PairingInv'
    <2>1. pairing' \in {None, pairing} /\ cookie' \in [Client -> Token \cup {None}]
          /\ UNCHANGED <<issuing, codes, wrong, granted>>
        BY <1>1, <1>11 DEF Destroy, Destroyed, counters, history
    <2> QED
        BY <1>1, <2>1, PairingUpdate
<1>12. ASSUME NEW r \in Client, Enrollment(r) PROVE PairingInv'
    <2>1. CASE \/ \E h \in Host: Options(r, h) \/ AuthOptions(r, h) \/ Auth(r, h)
               \/ \E h \in Host, user \in Admin: Register(r, h, user)
               \/ BeginRegistration(r) \/ CompleteRegistration(r) \/ Enroll(r)
               \/ EnrollRefused(r) \/ BeginAuthentication(r) \/ CompleteAuthentication(r)
               \/ Abort(r)
        BY <1>2, <2>1 DEF Options, AuthOptions, Auth, Register, BeginRegistration,
           CompleteRegistration, Enroll, EnrollRefused, BeginAuthentication,
           CompleteAuthentication, Abort, counters, history
    <2> QED
        BY <1>6, <1>7, <1>8, <1>9, <1>10, <1>11, <1>12, <2>1 DEF Enrollment
<1>13. CASE (Operator \/ Transaction)
            /\ UNCHANGED <<pairing, passkeys, client, cookie, issuing, counters, history>>
    BY <1>2, <1>13 DEF counters, history
<1>14. CASE ChallengeExpires
    BY <1>2, <1>14 DEF ChallengeExpires, counters, history
<1> QED
    BY <1>3, <1>4, <1>5, <1>12, <1>13, <1>14 DEF Next

-----------------------------------------------------------------------------
(* The passkey file and the clients.                                       *)

ClientInv == client \in [Client -> ClientStep] /\ EnrollOpenInv
PasskeyInv == PasskeysOK /\ ChallengesInv /\ ClientInv

\* What a client holds at each step.
LEMMA ClientFields ==
    ASSUME PasskeyInv, NEW r \in Client
    PROVE  /\ client[r] \in ClientStep
           /\ ~At(r, "idle") => client[r].host \in Host
           /\ \A pc \in {"register", "enroll", "refused", "destroy"}: At(r, pc) =>
                /\ client[r].user \in Admin /\ client[r].host \in Host
                /\ \A to \in {"enroll", "refused", "destroy"}:
                     /\ [client[r] EXCEPT !.pc = to] \in ClientStep
                     /\ [client[r] EXCEPT !.pc = to].pc = to
                     /\ [client[r] EXCEPT !.pc = to].host = client[r].host
<1>1. client[r] \in ClientStep
    BY DEF PasskeyInv, ClientInv
<1>2. ~At(r, "idle") => client[r].host \in Host
    BY <1>1 DEF At, ClientStep
<1>3. ASSUME NEW pc \in {"register", "enroll", "refused", "destroy"}, At(r, pc)
      PROVE  client[r] \in [pc: {"register", "enroll", "refused", "destroy"}, host: Host,
                            token: Token, user: Admin]
    BY <1>1, <1>3 DEF At, ClientStep
<1>4. ASSUME NEW c \in [pc: {"register", "enroll", "refused", "destroy"}, host: Host,
                        token: Token, user: Admin],
             NEW to \in {"enroll", "refused", "destroy"}
      PROVE  /\ [c EXCEPT !.pc = to] \in ClientStep /\ [c EXCEPT !.pc = to].pc = to
             /\ [c EXCEPT !.pc = to].host = c.host
    BY DEF ClientStep
<1> QED
    BY <1>1, <1>2, <1>3, <1>4

\* What a client may go to.
LEMMA ClientSteps ==
    /\ Idle \in ClientStep /\ Idle.pc = "idle"
    /\ \A h \in Host, pc \in {"options", "auth_options", "auth"}:
          [pc |-> pc, host |-> h] \in ClientStep
    /\ \A h \in Host, code \in 1 .. MaxCodes:
          [pc |-> "hashing", host |-> h, code |-> code] \in ClientStep
    /\ \A h \in Host, token \in Token, user \in Admin:
          [pc |-> "register", host |-> h, token |-> token, user |-> user] \in ClientStep
BY DEF ClientStep, Idle

\* A step of a client that leaves the passkey file alone and claims no
\* registration that was not verified.
LEMMA ClientMoves ==
    ASSUME PasskeyInv, UNCHANGED <<passkeys, challenges, spent, verified>>,
           NEW r \in Client, NEW step \in ClientStep, To(r, step),
           step.pc = "enroll" => step.host \in verified
    PROVE  PasskeyInv'
<1>1. PasskeysOK' /\ ChallengesInv'
    BY DEF PasskeyInv, PasskeysOK, ChallengesInv
<1>2. client' = [client EXCEPT ![r] = step] /\ client \in [Client -> ClientStep]
    BY DEF To, PasskeyInv, ClientInv
<1>3. ClientInv'
    BY <1>2 DEF PasskeyInv, ClientInv, EnrollOpenInv, At
<1> QED
    BY <1>1, <1>3 DEF PasskeyInv

\* Steps that leave the clients and the passkey file alone.
LEMMA PasskeysLeftAlone ==
    ASSUME PasskeyInv, UNCHANGED <<passkeys, challenges, spent, verified, client>>
    PROVE  PasskeyInv'
<1>1. PasskeysOK' /\ ChallengesInv'
    BY DEF PasskeyInv, PasskeysOK, ChallengesInv
<1>2. ClientInv'
    BY DEF PasskeyInv, ClientInv, EnrollOpenInv, At
<1> QED
    BY <1>1, <1>2 DEF PasskeyInv

\* A challenge is issued, and the client is done.
LEMMA ChallengeIssued ==
    ASSUME PasskeyInv, NEW r \in Client, Done(r),
           NEW purpose \in {"register", "authenticate"},
           challenges < MaxChallenges, challenges' = challenges + 1,
           UNCHANGED <<spent, verified>>,
           NEW record, passkeys' = WithPending(record, purpose),
           \/ record = passkeys
           \/ \E h \in Host: record = [NoPasskeys EXCEPT !.rp = h]
    PROVE  PasskeyInv'
<1> DEFINE new == [id |-> challenges + 1, purpose |-> purpose]
<1>1. /\ challenges \in Nat /\ MaxChallenges \in Nat /\ challenges + 1 \in 1 .. MaxChallenges
      /\ new.id = challenges + 1
    BY EnrollmentAssumption DEF PasskeyInv, PasskeysOK
<1>2. new \in [id: 1 .. MaxChallenges, purpose: {"register", "authenticate"}]
    BY <1>1
<1>3. /\ record \in [rp: Host \cup {None}, user: Admin \cup {None},
                     pending: SUBSET [id: 1 .. MaxChallenges,
                                      purpose: {"register", "authenticate"}]]
      /\ record.pending \subseteq passkeys.pending
      /\ record.user # None => record.rp \in verified
    BY DEF PasskeyInv, PasskeysOK, NoPasskeys, ClientInv, EnrollOpenInv
<1>4. passkeys' = [record EXCEPT !.pending = @ \cup {new}]
    BY DEF WithPending, Challenge
<1> HIDE DEF new
<1>5. /\ passkeys'.rp = record.rp /\ passkeys'.user = record.user
      /\ passkeys'.pending = record.pending \cup {new}
    BY <1>3, <1>4
<1>6. PasskeysOK'
    BY <1>1, <1>2, <1>3, <1>4 DEF PasskeyInv, PasskeysOK
<1>7. ChallengesInv'
    <2>1. \A c \in record.pending: c.id \in 1 .. MaxChallenges /\ c.id <= challenges
                                   /\ spent[c.id] = 0
        BY <1>3 DEF PasskeyInv, PasskeysOK, ChallengesInv
    <2>2. spent[new.id] = 0 /\ \A c \in record.pending: c.id # new.id
        BY <1>1, <2>1 DEF PasskeyInv, ChallengesInv
    <2>3. \A c \in passkeys'.pending:
             /\ c.id <= challenges' /\ spent'[c.id] = 0
             /\ \A d \in passkeys'.pending: c.id = d.id => c = d
        BY <1>1, <1>3, <1>5, <2>1, <2>2 DEF PasskeyInv, ChallengesInv
    <2>4. \A j \in 1 .. MaxChallenges:
             spent'[j] <= 1 /\ (j > challenges' => spent'[j] = 0)
        BY <1>1 DEF PasskeyInv, ChallengesInv
    <2> QED
        BY <2>3, <2>4 DEF ChallengesInv
<1>8. ClientInv'
    <2>1. client' = [client EXCEPT ![r] = Idle] /\ Idle.pc = "idle" /\ Idle \in ClientStep
        BY ClientSteps DEF Done, To
    <2> QED
        BY <1>3, <1>5, <2>1 DEF PasskeyInv, ClientInv, EnrollOpenInv, At
<1> QED
    BY <1>6, <1>7, <1>8 DEF PasskeyInv

\* A challenge goes: it is accepted, or it expires.
LEMMA ChallengeGoes ==
    ASSUME PasskeyInv, NEW c \in passkeys.pending,
           passkeys'.pending = passkeys.pending \ {c},
           passkeys' \in [rp: Host \cup {None}, user: Admin \cup {None},
                          pending: SUBSET [id: 1 .. MaxChallenges,
                                           purpose: {"register", "authenticate"}]],
           Accepted(c) \/ UNCHANGED spent,
           UNCHANGED challenges, verified' \subseteq Host
    PROVE  PasskeysOK' /\ ChallengesInv'
<1>1. c.id \in 1 .. MaxChallenges /\ c.id <= challenges /\ spent[c.id] = 0
    BY DEF PasskeyInv, PasskeysOK, ChallengesInv
<1>2. /\ spent' \in [1 .. MaxChallenges -> Nat]
      /\ \A j \in 1 .. MaxChallenges: spent'[j] = spent[j] \/ (j = c.id /\ spent'[j] = 1)
    <2>1. spent \in [1 .. MaxChallenges -> Nat]
        BY DEF PasskeyInv, PasskeysOK
    <2>2. CASE spent' = [spent EXCEPT ![c.id] = @ + 1]
        BY <1>1, <2>1, <2>2
    <2>3. CASE UNCHANGED spent
        BY <2>1, <2>3
    <2> QED
        BY <2>2, <2>3 DEF Accepted
<1>3. PasskeysOK'
    BY <1>2 DEF PasskeyInv, PasskeysOK
<1>4. ASSUME NEW d \in passkeys'.pending
      PROVE  d \in passkeys.pending /\ d.id # c.id /\ d.id \in 1 .. MaxChallenges
    BY DEF PasskeyInv, PasskeysOK, ChallengesInv
<1>5. \A d \in passkeys'.pending:
         /\ d.id <= challenges' /\ spent'[d.id] = 0
         /\ \A e \in passkeys'.pending: d.id = e.id => d = e
    BY <1>2, <1>4 DEF PasskeyInv, ChallengesInv
<1>6. \A j \in 1 .. MaxChallenges: spent'[j] <= 1 /\ (j > challenges' => spent'[j] = 0)
    BY <1>1, <1>2 DEF PasskeyInv, PasskeysOK, ChallengesInv
<1> QED
    BY <1>3, <1>5, <1>6 DEF ChallengesInv

\* Every step keeps the invariant of the passkey file and the clients.
LEMMA PasskeyStep ==
    ASSUME PasskeyInv, PairingInv, Next
    PROVE  PasskeyInv'
<1> USE DEF counters, history, Done
<1>1. CASE \/ (Operator \/ Transaction)
              /\ UNCHANGED <<pairing, passkeys, client, cookie, issuing, counters, history>>
           \/ \E h \in Host: BeginIssue(h)
           \/ Issue
           \/ PairingExpires
    BY <1>1, PasskeysLeftAlone DEF BeginIssue, Issue, PairingExpires
<1>2. CASE ChallengeExpires
    <2>1. PICK c \in passkeys.pending: passkeys' = [passkeys EXCEPT !.pending = @ \ {c}]
        BY <1>2 DEF ChallengeExpires
    <2>2. UNCHANGED <<challenges, spent, verified, client>>
        BY <1>2 DEF ChallengeExpires
    <2>3. /\ passkeys'.pending = passkeys.pending \ {c}
          /\ passkeys' \in [rp: Host \cup {None}, user: Admin \cup {None},
                            pending: SUBSET [id: 1 .. MaxChallenges,
                                             purpose: {"register", "authenticate"}]]
          /\ passkeys'.rp = passkeys.rp /\ passkeys'.user = passkeys.user
          /\ verified' \subseteq Host
        BY <2>1, <2>2 DEF PasskeyInv, PasskeysOK
    <2>4. PasskeysOK' /\ ChallengesInv'
        BY <2>2, <2>3, ChallengeGoes
    <2>5. ClientInv'
        BY <2>2, <2>3 DEF PasskeyInv, ClientInv, EnrollOpenInv, At
    <2> QED
        BY <2>4, <2>5 DEF PasskeyInv
<1>3. ASSUME NEW r \in Client, Enrollment(r) PROVE PasskeyInv'
    <2> USE ClientSteps
    <2>1. ASSUME UNCHANGED <<passkeys, challenges, spent, verified>>, To(r, Idle)
          PROVE  PasskeyInv'
        BY <2>1, ClientMoves
    <2>2. CASE \/ ConsumeMalformed(r) \/ ConsumeWrong(r) \/ ConsumeRight(r)
               \/ ConsumeAbandoned(r) \/ Destroy(r) \/ Abort(r)
        BY <2>1, <2>2 DEF ConsumeMalformed, ConsumeWrong, ConsumeRight, ConsumeAbandoned,
           Destroy, Abort
    <2>3. ASSUME NEW h \in Host, ConsumeReserve(r, h) PROVE PasskeyInv'
        <3> DEFINE p == Unleased(pairing)
        <3>1. UNCHANGED <<passkeys, challenges, spent, verified>>
            BY <2>3 DEF ConsumeReserve
        <3>2. CASE UNCHANGED client
            BY <3>1, <3>2, PasskeysLeftAlone
        <3>3. CASE LiveCode(p, h) /\ To(r, [pc |-> "hashing", host |-> h, code |-> p.code])
            <4>1. p \in Pairing \cup {None}
                BY ReleasedKeeps DEF PairingInv, PairingOK
            <4>2. p.code \in 1 .. MaxCodes
                BY <3>3, <4>1 DEF LiveCode, Pairing
            <4> QED
                BY <3>1, <3>3, <4>2, ClientMoves
        <3> QED
            BY <2>3, <3>2, <3>3 DEF ConsumeReserve
    <2>4. ASSUME NEW h \in Host, Options(r, h) \/ AuthOptions(r, h) \/ Auth(r, h)
          PROVE  PasskeyInv'
        <3>1. UNCHANGED <<passkeys, challenges, spent, verified>>
            BY <2>4 DEF Options, AuthOptions, Auth
        <3>2. \E pc \in {"options", "auth_options", "auth"}: To(r, [pc |-> pc, host |-> h])
            BY <2>4 DEF Options, AuthOptions, Auth
        <3> QED
            BY <3>1, <3>2, ClientMoves
    <2>5. ASSUME NEW h \in Host, NEW user \in Admin, Register(r, h, user)
          PROVE  PasskeyInv'
        <3>1. /\ UNCHANGED <<passkeys, challenges, spent, verified>>
              /\ To(r, [pc |-> "register", host |-> h, token |-> cookie[r], user |-> user])
            BY <2>5 DEF Register
        <3>2. cookie[r] \in Token
            BY <2>5 DEF Register, SessionValid, PairingInv, PairingOK
        <3> QED
            BY <3>1, <3>2, ClientMoves
    <2>6. CASE BeginRegistration(r)
        <3> DEFINE h == client[r].host
                   current == IF passkeys.rp = h THEN passkeys ELSE [NoPasskeys EXCEPT !.rp = h]
        <3>1. /\ At(r, "options") /\ challenges < MaxChallenges /\ Done(r)
              /\ passkeys' = WithPending(current, "register")
              /\ challenges' = challenges + 1 /\ UNCHANGED <<spent, verified>>
            BY <2>6 DEF BeginRegistration, CanAdd
        <3>2. h \in Host
            BY <3>1, ClientFields DEF At
        <3>3. current = passkeys \/ \E g \in Host: current = [NoPasskeys EXCEPT !.rp = g]
            BY <3>2
        <3> HIDE DEF current
        <3> QED
            BY <3>1, <3>3, ChallengeIssued
    <2>7. CASE BeginAuthentication(r)
        <3>1. CASE UNCHANGED <<passkeys, challenges>>
            BY <2>1, <2>7, <3>1 DEF BeginAuthentication
        <3>2. CASE /\ CanAdd(passkeys) /\ passkeys' = WithPending(passkeys, "authenticate")
                   /\ challenges' = challenges + 1
            <4>1. challenges < MaxChallenges /\ Done(r) /\ UNCHANGED <<spent, verified>>
                BY <2>7, <3>2 DEF BeginAuthentication, CanAdd
            <4> QED
                BY <3>2, <4>1, ChallengeIssued
        <3> QED
            BY <2>7, <3>1, <3>2 DEF BeginAuthentication
    <2>8. CASE CompleteRegistration(r)
        <3> DEFINE me == client[r]
        <3>1. At(r, "register") /\ To(r, [me EXCEPT !.pc = "enroll"]) /\ UNCHANGED challenges
            BY <2>8 DEF CompleteRegistration
        <3>2. /\ me.user \in Admin /\ me.host \in Host /\ me.user # None
              /\ [me EXCEPT !.pc = "enroll"] \in ClientStep
              /\ [me EXCEPT !.pc = "enroll"].host = me.host
            BY <3>1, ClientFields, EnrollmentAssumption
        <3>3. CASE Matching(me.host, me.user)
            <4>1. UNCHANGED <<passkeys, spent, verified>>
                BY <2>8, <3>3 DEF CompleteRegistration
            <4>2. me.host \in verified
                BY <3>2, <3>3 DEF Matching, PasskeyInv, ClientInv, EnrollOpenInv
            <4> QED
                BY <3>1, <3>2, <4>1, <4>2, ClientMoves
        <3>4. CASE ~Matching(me.host, me.user)
            <4>1. PICK c \in LiveChallenges(me.host, "register"):
                     /\ passkeys' = [rp |-> me.host, user |-> me.user,
                                     pending |-> passkeys.pending \ {c}]
                     /\ Accepted(c) /\ verified' = verified \cup {me.host}
                BY <2>8, <3>4 DEF CompleteRegistration
            <4>2. c \in passkeys.pending
                BY <4>1 DEF LiveChallenges
            <4>3. /\ passkeys'.pending = passkeys.pending \ {c}
                  /\ passkeys' \in [rp: Host \cup {None}, user: Admin \cup {None},
                                    pending: SUBSET [id: 1 .. MaxChallenges,
                                                     purpose: {"register", "authenticate"}]]
                  /\ verified' \subseteq Host
                BY <3>2, <4>1 DEF PasskeyInv, PasskeysOK
            <4>4. PasskeysOK' /\ ChallengesInv'
                BY <3>1, <4>1, <4>2, <4>3, ChallengeGoes
            <4>5. ClientInv'
                <5>1. /\ client' = [client EXCEPT ![r] = [me EXCEPT !.pc = "enroll"]]
                      /\ client \in [Client -> ClientStep]
                    BY <3>1 DEF To, PasskeyInv, ClientInv
                <5>2. client' \in [Client -> ClientStep]
                    BY <3>2, <5>1
                <5>3. passkeys'.rp = me.host /\ me.host \in verified' /\ verified \subseteq verified'
                    BY <4>1
                <5>4. client'[r].host = me.host /\ \A q \in Client: q # r => client'[q] = client[q]
                    BY <3>2, <5>1
                <5> QED
                    BY <5>2, <5>3, <5>4 DEF PasskeyInv, ClientInv, EnrollOpenInv, At
            <4> QED
                BY <4>4, <4>5 DEF PasskeyInv
        <3> QED
            BY <3>3, <3>4
    <2>9. CASE CompleteAuthentication(r)
        <3>1. PICK c \in LiveChallenges(client[r].host, "authenticate"):
                 passkeys' = [passkeys EXCEPT !.pending = @ \ {c}] /\ Accepted(c)
            BY <2>9 DEF CompleteAuthentication
        <3>2. UNCHANGED <<challenges, verified>> /\ To(r, Idle)
            BY <2>9 DEF CompleteAuthentication
        <3>3. c \in passkeys.pending
            BY <3>1 DEF LiveChallenges
        <3>4. /\ passkeys'.pending = passkeys.pending \ {c}
              /\ passkeys' \in [rp: Host \cup {None}, user: Admin \cup {None},
                                pending: SUBSET [id: 1 .. MaxChallenges,
                                                 purpose: {"register", "authenticate"}]]
              /\ passkeys'.rp = passkeys.rp /\ passkeys'.user = passkeys.user
              /\ verified' \subseteq Host
            BY <3>1, <3>2 DEF PasskeyInv, PasskeysOK
        <3>5. PasskeysOK' /\ ChallengesInv'
            BY <3>1, <3>2, <3>3, <3>4, ChallengeGoes
        <3>6. ClientInv'
            BY <3>2, <3>4 DEF To, PasskeyInv, ClientInv, EnrollOpenInv, At
        <3> QED
            BY <3>5, <3>6 DEF PasskeyInv
    <2>10. CASE Enroll(r) \/ EnrollRefused(r)
        <3>1. UNCHANGED <<passkeys, challenges, spent, verified>>
            BY <2>10 DEF Enroll, EnrollRefused
        <3>2. At(r, "enroll") \/ At(r, "refused")
            BY <2>10 DEF Enroll, EnrollRefused
        <3>3. \A to \in {"refused", "destroy"}:
                 /\ [client[r] EXCEPT !.pc = to] \in ClientStep
                 /\ [client[r] EXCEPT !.pc = to].pc # "enroll"
            BY <3>2, ClientFields
        <3>4. \/ To(r, Idle)
              \/ \E to \in {"refused", "destroy"}: To(r, [client[r] EXCEPT !.pc = to])
            BY <2>10 DEF Enroll, EnrollRefused
        <3> QED
            BY <2>1, <3>1, <3>3, <3>4, ClientMoves
    <2> QED
        BY <1>3, <2>2, <2>3, <2>4, <2>5, <2>6, <2>7, <2>8, <2>9, <2>10 DEF Enrollment
<1> QED
    BY <1>1, <1>2, <1>3 DEF Next

-----------------------------------------------------------------------------
(* The composition.                                                        *)

Inv == GatewayInv /\ PairingInv /\ PasskeyInv

\* The steps of the enrolment touch the record in one place only.
LEMMA GatewayStep ==
    ASSUME Inv, Next
    PROVE  GatewayInv'
<1>1. CASE (Operator \/ Transaction)
           /\ UNCHANGED <<pairing, passkeys, client, cookie, issuing, counters, history>>
    BY <1>1, OperatorGatewayStep, TransactionStep DEF Inv, history
<1>2. ASSUME UNCHANGED remoteVars, UNCHANGED verified PROVE GatewayInv'
    BY <1>2, GatewayLeftAlone DEF Inv, remoteVars
<1>3. CASE \/ \E h \in Host: BeginIssue(h)
           \/ Issue \/ PairingExpires \/ ChallengeExpires
    BY <1>2, <1>3 DEF BeginIssue, Issue, PairingExpires, ChallengeExpires, history
<1>4. ASSUME NEW r \in Client, Enroll(r) PROVE GatewayInv'
    <2>1. UNCHANGED gateway /\ UNCHANGED verified /\ At(r, "enroll")
        BY <1>4 DEF Enroll, history
    <2>2. client[r].host \in verified
        BY <2>1 DEF Inv, PasskeyInv, ClientInv, EnrollOpenInv
    <2>3. CASE CanEnroll(client[r].host) /\ RecordEnrolled(client[r].host)
        BY <2>1, <2>2, <2>3, EnrolledGatewayStep DEF Inv
    <2>4. CASE UNCHANGED remote
        BY <2>1, <2>4, GatewayLeftAlone DEF Inv, gateway
    <2> QED
        BY <1>4, <2>3, <2>4 DEF Enroll
<1>5. ASSUME NEW r \in Client, CompleteRegistration(r) PROVE GatewayInv'
    <2>1. UNCHANGED <<remote, tx, disk, running>> /\ verified \subseteq verified'
        BY <1>5 DEF CompleteRegistration, remoteVars
    <2> QED
        BY <2>1, GatewayLeftAlone DEF Inv
<1>6. ASSUME NEW r \in Client, Enrollment(r) PROVE GatewayInv'
    <2>1. CASE ~(Enroll(r) \/ CompleteRegistration(r))
        <3>1. UNCHANGED remoteVars /\ UNCHANGED verified
            BY <1>6, <2>1 DEF Enrollment, ConsumeReserve, ConsumeMalformed, ConsumeWrong,
               ConsumeRight, ConsumeAbandoned, Options, BeginRegistration, Register,
               EnrollRefused, Destroy, AuthOptions, BeginAuthentication, Auth,
               CompleteAuthentication, Abort, history
        <3> QED
            BY <1>2, <3>1
    <2> QED
        BY <1>4, <1>5, <2>1
<1> QED
    BY <1>1, <1>3, <1>6 DEF Next

\* The three parts together are inductive.
LEMMA Invariance == Spec => []Inv
<1>1. Init => Inv
    <2> SUFFICES ASSUME Init PROVE Inv
        OBVIOUS
    <2>1. NoRecord \in RemoteRecord /\ NoRecord.rp = None
        BY DEF NoRecord, RemoteRecord, Status, Active
    <2>2. RemoteOK
        BY <2>1, RenderConfigs DEF Init, RemoteInit, RemoteOK
    <2>3. tx.pc = "idle" /\ disk = {} /\ running = {} /\ remote = NoRecord
        BY DEF Init, RemoteInit
    <2>4. GatewaySettled /\ GatewayOpenInv
        BY <2>1, <2>3, RenderConfigs DEF GatewaySettled, GatewayOpenInv, Safe
    <2>5. PairingInv
        BY EnrollmentAssumption DEF Init, PairingInv, PairingOK, CodesInv
    <2>6. passkeys = NoPasskeys /\ NoPasskeys.pending = {} /\ NoPasskeys.user = None
        BY DEF Init, NoPasskeys
    <2>7. PasskeysOK
        BY EnrollmentAssumption DEF Init, PasskeysOK, NoPasskeys
    <2>8. ChallengesInv
        BY <2>6 DEF Init, ChallengesInv
    <2>9. ClientInv
        BY <2>6, ClientSteps DEF Init, ClientInv, EnrollOpenInv, At
    <2> QED
        BY <2>2, <2>4, <2>5, <2>7, <2>8, <2>9 DEF Inv, GatewayInv, PasskeyInv
<1>2. Inv /\ [Next]_vars => Inv'
    <2>1. ASSUME Inv, Next PROVE Inv'
        BY <2>1, GatewayStep, PairingStep, PasskeyStep DEF Inv
    <2>2. ASSUME Inv, UNCHANGED vars PROVE Inv'
        <3>1. /\ UNCHANGED <<remote, tx, disk, running, verified>>
              /\ UNCHANGED <<pairing, cookie, issuing, codes, wrong, granted>>
              /\ UNCHANGED <<passkeys, challenges, spent, verified, client>>
            BY <2>2 DEF vars, remoteVars, counters, history
        <3>2. GatewayInv' /\ PasskeyInv'
            BY <2>2, <3>1, GatewayLeftAlone, PasskeysLeftAlone DEF Inv
        <3>3. PairingInv'
            BY <2>2, <3>1, PairingUpdate DEF Inv, PairingInv, PairingOK
        <3> QED
            BY <3>2, <3>3 DEF Inv
    <2> QED
        BY <2>1, <2>2
<1> QED
    BY <1>1, <1>2, PTL DEF Spec

\* The record, nginx, the two files and the requests keep their types.
THEOREM RemoteTypeCorrect == Spec => []TypeOK
<1>1. Inv => TypeOK
    BY DEF Inv, GatewayInv, PairingInv, PasskeyInv, ClientInv, TypeOK
<1> QED
    BY <1>1, Invariance, PTL

\* However requests overlap, lose their lease or die: a pairing code opens one
\* enrolment session and takes at most MaxFailed wrong answers, and a passkey
\* challenge is accepted once (consume, _register_failure_unlocked).
THEOREM CodesAreSpentOnce == Spec => []SpentOnce
<1>1. Inv => SpentOnce
    <2> SUFFICES ASSUME Inv PROVE SpentOnce
        OBVIOUS
    <2>1. DOMAIN granted = 1 .. MaxCodes /\ DOMAIN spent = 1 .. MaxChallenges
        BY DEF Inv, PairingInv, PairingOK, PasskeyInv, PasskeysOK
    <2> QED
        BY <2>1 DEF Inv, PairingInv, CodesInv, PasskeyInv, ChallengesInv, SpentOnce
<1> QED
    BY <1>1, Invariance, PTL

\* No host is recorded as enrolled, and none is open at the gateway, before its
\* registration was verified: through drift, rollback, containment and crashes
\* (record_admin_passkey_enrolled, _fail_closed).
THEOREM OpenHostsWereVerified == Spec => []OpenWasVerified
<1>1. Inv => OpenWasVerified
    BY DEF Inv, GatewayInv, GatewayOpenInv, Safe, OpenWasVerified
<1> QED
    BY <1>1, Invariance, PTL

\* What the transaction writes in the record is true of what nginx runs when it
\* writes it (observe_control_center, fail_if_current).
THEOREM RecordFollowsTheGateway == Spec => RecordFollowsGateway
<1>1. ASSUME Inv, [Next]_vars
      PROVE  [ tx' # tx /\ remote' # remote =>
                 \/ remote'.status = "enabled" /\ Opens(running, remote.intent.host)
                 \/ remote'.status = "error" /\ Inspect(running) = "closed" ]_vars
    <2> SUFFICES ASSUME Next, tx' # tx, remote' # remote
                 PROVE  \/ remote'.status = "enabled" /\ Opens(running, remote.intent.host)
                        \/ remote'.status = "error" /\ Inspect(running) = "closed"
        BY <1>1
    <2>1. CASE Transaction
        BY <1>1, <2>1, WritesWhatIsSo DEF Inv
    <2>2. CASE Operator
        BY <1>1, <2>2, OperatorStep DEF Inv, GatewayInv, RemoteOK
    <2>3. CASE \/ \E h \in Host: BeginIssue(h)
               \/ Issue \/ PairingExpires \/ ChallengeExpires
        BY <2>3 DEF BeginIssue, Issue, PairingExpires, ChallengeExpires, remoteVars
    <2>4. ASSUME NEW r \in Client, Enrollment(r) PROVE FALSE
        BY <2>4 DEF Enrollment, ConsumeReserve, ConsumeMalformed, ConsumeWrong,
           ConsumeRight, ConsumeAbandoned, Options, BeginRegistration, Register,
           CompleteRegistration, Enroll, EnrollRefused, Destroy, AuthOptions,
           BeginAuthentication, Auth, CompleteAuthentication, Abort, remoteVars, gateway
    <2> QED
        BY <2>1, <2>2, <2>3, <2>4 DEF Next
<1> QED
    BY <1>1, Invariance, PTL DEF Spec, RecordFollowsGateway
================================================================================
