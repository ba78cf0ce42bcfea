-------------------------------- MODULE JobQueue --------------------------------
(***************************************************************************)
(* The durable job queue (jobs.py, postgresql_job_queue.py) and the        *)
(* processes that drain it (JobRunner.run_once).                           *)
(*                                                                         *)
(* Every queue operation is atomic: the JSON queue runs it under           *)
(* exclusive_file_lock, the PostgreSQL queue in one transaction.  But each *)
(* one samples `now' BEFORE it waits for the lock, so an operation may be  *)
(* applied with a timestamp up to Skew units old.                          *)
(*                                                                         *)
(* Timestamps are kept relative to the wall clock, which therefore always  *)
(* reads 0: Tick subtracts one from every stored timestamp.  A timestamp   *)
(* older than Past stays at -Past: two stamps that old count as a tie.     *)
(*                                                                         *)
(* Job types and payloads are one value, an Operation; error codes,        *)
(* argument validation and the JSON encoding are left out.                 *)
(***************************************************************************)
EXTENDS Integers, FiniteSets

CONSTANTS
    Job,                \* job identifiers (uuid4)
    Key,                \* idempotency keys
    Operation,          \* a job type with its payload
    Owner,              \* packages
    OwnerOf,            \* the package whose namespace an operation's type is in
    Process,            \* the processes that call JobRunner.run_once
    Worker,             \* worker identifiers
    WorkerOf,           \* the worker_id a process passes; processes may share one
    None,
    MaximumRecords,     \* capacity of the queue
    MaximumAttempts,    \* largest maximum_attempts a caller asks for
    Lease,              \* length of a lease
    BaseRetryDelay,
    MaximumRetryDelay,
    Ahead,              \* how far ahead a caller may schedule a job
    PurgeLimit,         \* largest batch of purge_terminal (0: nobody calls it)
    Skew,               \* bound: how old a sampled `now' may be
    Past                \* bound: older timestamps are not told apart

ASSUME JobAssumption ==
    /\ IsFiniteSet(Job)
    /\ OwnerOf \in [Operation -> Owner]
    /\ WorkerOf \in [Process -> Worker]
    /\ None \notin Worker /\ None \notin Job /\ None \notin Int
    /\ MaximumRecords \in Nat \ {0} /\ MaximumAttempts \in Nat \ {0}
    /\ Lease \in Nat \ {0} /\ BaseRetryDelay \in Nat \ {0}
    /\ MaximumRetryDelay \in Nat /\ MaximumRetryDelay >= BaseRetryDelay
    /\ Ahead \in Nat /\ PurgeLimit \in Nat
    /\ Skew \in Nat /\ Past \in Nat /\ Skew <= Past

VARIABLES
    records,    \* the registry: a record for every job id ("absent" if none)
    pc,         \* where each process is in run_once
    job,        \* the job a process has claimed
    token,      \* the fencing token of that claim
    ok          \* whether the handler returned normally

vars == <<records, pc, job, token, ok>>

Status == {"absent", "queued", "running", "succeeded", "failed"}

Record == [status : Status, key : Key \cup {None}, op : Operation \cup {None},
           attempts : Nat, maximum_attempts : Nat,
           scheduled_at : Int, created_at : Int, updated_at : Int,
           lease_owner : Worker \cup {None}, lease_expires_at : Int \cup {None},
           fencing_token : Nat]

Absent == [status |-> "absent", key |-> None, op |-> None,
           attempts |-> 0, maximum_attempts |-> 0,
           scheduled_at |-> 0, created_at |-> 0, updated_at |-> 0,
           lease_owner |-> None, lease_expires_at |-> None, fencing_token |-> 0]

\* A record carries a lease exactly while it is running.
LeaseOK(r) ==
    /\ (r.status = "running") <=> (r.lease_owner # None)
    /\ (r.status = "running") <=> (r.lease_expires_at # None)

\* Every record is well formed and is leased exactly while it runs, in every
\* way claim, _finish, cancel_owner and _recover_expired move it.
TypeOK ==
    /\ records \in [Job -> Record]
    /\ pc \in [Process -> {"idle", "claimed", "handling", "finishing"}]
    /\ job \in [Process -> Job \cup {None}]
    /\ token \in [Process -> Nat]
    /\ ok \in [Process -> BOOLEAN]
    /\ \A j \in Job : LeaseOK(records[j])

Now == -Skew .. 0

Present == {j \in Job : records[j].status # "absent"}

IsTerminal(r) == r.status \in {"succeeded", "failed"}

Unleased(r, status, now) ==
    [r EXCEPT !.status = status, !.updated_at = now,
              !.lease_owner = None, !.lease_expires_at = None]

Init ==
    /\ records = [j \in Job |-> Absent]
    /\ pc = [p \in Process |-> "idle"]
    /\ job = [p \in Process |-> None]
    /\ token = [p \in Process |-> 0]
    /\ ok = [p \in Process |-> FALSE]

-----------------------------------------------------------------------------
(* Operations of the queue's callers.                                      *)

NewRecord(k, op, n, due, now) ==
    [status |-> "queued", key |-> k, op |-> op,
     attempts |-> 0, maximum_attempts |-> n,
     scheduled_at |-> due, created_at |-> now, updated_at |-> now,
     lease_owner |-> None, lease_expires_at |-> None, fencing_token |-> 0]

\* A key that is already bound returns the bound record, or raises when the
\* operation differs: neither changes the queue.  The identifier is fresh:
\* nobody holds it any more.
Enqueue(j, k, op, n, due, now) ==
    /\ records[j].status = "absent"
    /\ \A p \in Process : job[p] # j
    /\ \A i \in Present : records[i].key # k
    /\ Cardinality(Present) < MaximumRecords
    /\ records' = [records EXCEPT ![j] = NewRecord(k, op, n, due, now)]
    /\ UNCHANGED <<pc, job, token, ok>>

\* Mutant: terminal records are cancelled too.
CancellableAny(j, o) ==
    /\ records[j].status # "absent"
    /\ OwnerOf[records[j].op] = o

Cancellable(j, o) ==
    /\ records[j].status \in {"queued", "running"}
    /\ OwnerOf[records[j].op] = o

CancelOwner(o, now) ==
    /\ records' = [j \in Job |-> IF Cancellable(j, o)
                                 THEN Unleased(records[j], "failed", now)
                                 ELSE records[j]]
    /\ UNCHANGED <<pc, job, token, ok>>

\* The oldest terminal records below the cutoff, at most `limit' of them.
PurgeTerminal(before, limit) ==
    LET old == {j \in Job : IsTerminal(records[j]) /\ records[j].updated_at < before}
    IN  \E batch \in SUBSET old :
          /\ Cardinality(batch) = IF Cardinality(old) < limit
                                  THEN Cardinality(old) ELSE limit
          /\ \A i \in batch, j \in old \ batch :
                records[i].updated_at <= records[j].updated_at
          /\ records' = [j \in Job |-> IF j \in batch THEN Absent ELSE records[j]]
          /\ UNCHANGED <<pc, job, token, ok>>

-----------------------------------------------------------------------------
(* One process: JobRunner.run_once.                                        *)

\* Mutant: a lease ends one unit early.
ExpiredEarly(r, now) ==
    /\ r.status = "running"
    /\ r.lease_expires_at # None
    /\ r.lease_expires_at - 1 <= now

Expired(r, now) ==
    /\ r.status = "running"
    /\ r.lease_expires_at # None
    /\ r.lease_expires_at <= now

\* Mutant: a job that has used up its attempts is not recovered.
RecoverRetryable(recs, now) ==
    [j \in Job |->
        IF Expired(recs[j], now) /\ recs[j].attempts < recs[j].maximum_attempts
        THEN [Unleased(recs[j], "queued", now) EXCEPT !.scheduled_at = now]
        ELSE recs[j]]

RecoverExpired(recs, now) ==
    [j \in Job |->
        IF Expired(recs[j], now)
        THEN [Unleased(recs[j],
                       IF recs[j].attempts >= recs[j].maximum_attempts
                       THEN "failed" ELSE "queued", now)
              EXCEPT !.scheduled_at = now]
        ELSE recs[j]]

\* Identifiers are random, so the order between two records that tie on both
\* timestamps is arbitrary.
Before(r, s) ==
    \/ r.scheduled_at < s.scheduled_at
    \/ r.scheduled_at = s.scheduled_at /\ r.created_at <= s.created_at

Due(recs, now) ==
    {j \in Job : recs[j].status = "queued" /\ recs[j].scheduled_at <= now}

\* Mutant: the fencing token does not change hands.
ClaimedSameToken(r, w, now) ==
    [r EXCEPT !.status = "running", !.attempts = @ + 1, !.updated_at = now,
              !.lease_owner = w, !.lease_expires_at = now + Lease,
              !.fencing_token = 1]

Claimed(r, w, now) ==
    [r EXCEPT !.status = "running", !.attempts = @ + 1, !.updated_at = now,
              !.lease_owner = w, !.lease_expires_at = now + Lease,
              !.fencing_token = @ + 1]

ClaimNone(p, now) ==
    /\ pc[p] = "idle"
    /\ Due(RecoverExpired(records, now), now) = {}
    /\ records' = RecoverExpired(records, now)
    /\ UNCHANGED <<pc, job, token, ok>>

ClaimDue(p, now) ==
    /\ pc[p] = "idle"
    /\ LET recs == RecoverExpired(records, now) IN
       \E j \in Due(recs, now) :
          /\ \A i \in Due(recs, now) : Before(recs[j], recs[i])
          /\ records' = [recs EXCEPT ![j] = Claimed(recs[j], WorkerOf[p], now)]
          /\ job' = [job EXCEPT ![p] = j]
          /\ token' = [token EXCEPT ![p] = records'[j].fencing_token]
    /\ pc' = [pc EXCEPT ![p] = "claimed"]
    /\ UNCHANGED ok

\* The check shared by leased() and _finish(): the caller is the worker that
\* holds the record, its token is the current one and the lease is not over.
HoldsLease(p, now) ==
    LET r == records[job[p]] IN
    /\ r.status = "running"
    /\ r.lease_owner = WorkerOf[p]
    /\ r.fencing_token = token[p]
    /\ r.lease_expires_at # None
    /\ now < r.lease_expires_at

Release(p) ==
    /\ pc' = [pc EXCEPT ![p] = "idle"]
    /\ job' = [job EXCEPT ![p] = None]
    /\ token' = [token EXCEPT ![p] = 0]
    /\ ok' = [ok EXCEPT ![p] = FALSE]

Leased(p, now) ==
    /\ pc[p] = "claimed"
    /\ \/ /\ HoldsLease(p, now)
          /\ pc' = [pc EXCEPT ![p] = "handling"]
          /\ UNCHANGED <<job, token, ok>>
       \/ /\ ~HoldsLease(p, now)
          /\ Release(p)
    /\ UNCHANGED records

\* The handler runs with no lock held; a missing handler counts as a failure.
Handle(p, result) ==
    /\ pc[p] = "handling"
    /\ pc' = [pc EXCEPT ![p] = "finishing"]
    /\ ok' = [ok EXCEPT ![p] = result]
    /\ UNCHANGED <<records, job, token>>

RetryDelay(attempts) ==
    LET doubled == BaseRetryDelay * 2^(attempts - 1)
    IN  IF doubled <= MaximumRetryDelay THEN doubled ELSE MaximumRetryDelay

Finished(r, succeeded, now) ==
    IF succeeded THEN Unleased(r, "succeeded", now)
    ELSE IF r.attempts >= r.maximum_attempts THEN Unleased(r, "failed", now)
    ELSE [Unleased(r, "queued", now) EXCEPT !.scheduled_at = now + RetryDelay(r.attempts)]

\* A refused completion (JobQueueError) is swallowed: the process moves on.
Complete(p, now) ==
    /\ pc[p] = "finishing"
    /\ records' = IF HoldsLease(p, now)
                  THEN [records EXCEPT ![job[p]] = Finished(@, ok[p], now)]
                  ELSE records
    /\ Release(p)

\* The process dies and is started again; the queue is on disk.
Crash(p) ==
    /\ pc[p] # "idle"
    /\ Release(p)
    /\ UNCHANGED records

-----------------------------------------------------------------------------
(* Time.                                                                   *)

Earlier(t) == IF t = None THEN None ELSE IF t > -Past THEN t - 1 ELSE t

Aged(r) ==
    [r EXCEPT !.scheduled_at = Earlier(@), !.created_at = Earlier(@),
              !.updated_at = Earlier(@), !.lease_expires_at = Earlier(@)]

Tick ==
    /\ records' = [j \in Job |-> IF records[j].status = "absent"
                                 THEN records[j] ELSE Aged(records[j])]
    /\ UNCHANGED <<pc, job, token, ok>>

-----------------------------------------------------------------------------

Claim(p) == \E now \in Now : ClaimDue(p, now) \/ ClaimNone(p, now)

RunnerStep(p) ==
    \/ Claim(p)
    \/ \E now \in Now : Leased(p, now)
    \/ \E result \in BOOLEAN : Handle(p, result)
    \/ \E now \in Now : Complete(p, now)

CallerStep ==
    \/ \E j \in Job, k \in Key, op \in Operation, n \in 1..MaximumAttempts, now \in Now :
          \E due \in {now, Ahead} : Enqueue(j, k, op, n, due, now)
    \/ \E o \in Owner, now \in Now : CancelOwner(o, now)
    \/ \E before \in (1 - Past)..0, limit \in 1..PurgeLimit : PurgeTerminal(before, limit)

Next ==
    \/ CallerStep
    \/ \E p \in Process : RunnerStep(p) \/ Crash(p)
    \/ Tick

Spec == Init /\ [][Next]_vars

\* A pump that keeps draining, handlers that return and a clock that advances.
LiveSpec ==
    /\ Spec
    /\ \A p \in Process : WF_vars(RunnerStep(p))
    /\ WF_vars(Tick)

-----------------------------------------------------------------------------
(* Properties.                                                             *)

Holds(p, j) ==
    /\ pc[p] # "idle"
    /\ job[p] = j
    /\ records[j].status = "running"
    /\ records[j].lease_owner = WorkerOf[p]
    /\ records[j].fencing_token = token[p]

\* Fencing (jobs.py claim/_finish): at most one process can complete a job, even
\* among processes that share a worker id and a job that was taken over from a
\* crashed or slow holder.
OneHolder ==
    \A j \in Job, p, q \in Process : Holds(p, j) /\ Holds(q, j) => p = q

\* What makes OneHolder inductive: the tokens handed out for a job are positive,
\* never exceed the record's, and no two processes hold the same one.
TokensDistinct ==
    /\ \A p \in Process : pc[p] = "idle" <=> job[p] = None
    /\ \A p \in Process : job[p] # None => token[p] >= 1
    /\ \A p \in Process : \A j \in Present :
          job[p] = j => token[p] <= records[j].fencing_token
    /\ \A p, q \in Process :
          job[p] # None /\ job[p] = job[q] /\ token[p] = token[q] => p = q

\* The retry budget (_finish and _recover_expired): a job is never claimed more
\* often than its maximum_attempts, and a queued one always has an attempt left,
\* whichever way it came back to the queue.
AttemptBudget ==
    \A j \in Present :
        /\ records[j].attempts <= records[j].maximum_attempts
        /\ records[j].status = "queued" => records[j].attempts < records[j].maximum_attempts

\* enqueue's idempotency: a key names one retained record.
KeyNamesOneJob ==
    \A i, j \in Present : records[i].key = records[j].key => i = j

Completing(p, j) == pc[p] = "finishing" /\ Holds(p, j)

\* claim's recovery takes a running job away from its holder only once the lease
\* is over by the wall clock, however stale the recovering worker's timestamp is;
\* before that, only the holder itself can put the job back into the queue.
NoEarlyTakeover ==
    [][\A j \in Job :
          /\ records[j].status = "running"
          /\ \/ records'[j].status = "queued"
             \/ records'[j].status = "running"
                /\ records'[j].fencing_token # records[j].fencing_token
          => \/ records[j].lease_expires_at <= 0
             \/ \E p \in Process : Completing(p, j)]_vars

\* What became of a job is final: a succeeded or failed record (cancelled ones
\* included) never runs again; purge_terminal is the only way it changes.
OutcomeIsFinal ==
    [][\A j \in Job :
          IsTerminal(records[j]) =>
            \/ records'[j].status = "absent"
            \/ /\ records'[j].status = records[j].status
               /\ records'[j].fencing_token = records[j].fencing_token]_vars

\* No job is stuck: with a draining pump every job reaches an outcome, although
\* processes may crash at any point while they hold it.
EveryJobSettles ==
    \A j \in Job : j \in Present ~> (j \notin Present \/ IsTerminal(records[j]))
=================================================================================
