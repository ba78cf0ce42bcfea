---------------------------- MODULE JobQueueProofs ----------------------------
(***************************************************************************)
(* Proofs about JobQueue for every set of jobs, keys, operations, owners   *)
(* and processes, every assignment of worker ids to processes and every    *)
(* lease length, retry budget and clock skew.                              *)
(***************************************************************************)
EXTENDS JobQueue, FiniteSetTheorems, TLAPS

(* Facts about the record transformers the actions are built from.         *)

LEMMA UnleasedType ==
    ASSUME NEW r \in Record, NEW now \in Int, NEW s \in Status \ {"running"}
    PROVE  /\ Unleased(r, s, now) \in Record
           /\ LeaseOK(Unleased(r, s, now))
           /\ Unleased(r, s, now).status = s
           /\ Unleased(r, s, now).fencing_token = r.fencing_token
           /\ Unleased(r, s, now).attempts = r.attempts
           /\ Unleased(r, s, now).maximum_attempts = r.maximum_attempts
           /\ Unleased(r, s, now).lease_owner = None
           /\ Unleased(r, s, now).key = r.key
  BY DEF Unleased, Record, LeaseOK, Status

LEMMA RetryDelayInt ==
    ASSUME NEW n \in Nat
    PROVE  RetryDelay(n) \in Int
  BY JobAssumption DEF RetryDelay

LEMMA ClaimedType ==
    ASSUME NEW r \in Record, NEW w \in Worker, NEW now \in Int
    PROVE  /\ Claimed(r, w, now) \in Record
           /\ LeaseOK(Claimed(r, w, now))
           /\ Claimed(r, w, now).status = "running"
           /\ Claimed(r, w, now).fencing_token = r.fencing_token + 1
           /\ Claimed(r, w, now).attempts = r.attempts + 1
           /\ Claimed(r, w, now).maximum_attempts = r.maximum_attempts
           /\ Claimed(r, w, now).key = r.key
  <1>1. now + Lease \in Int /\ now + Lease # None /\ w # None
    BY JobAssumption
  <1>2. r.attempts + 1 \in Nat /\ r.fencing_token + 1 \in Nat
    BY DEF Record
  <1> DEFINE t == now + Lease  a == r.attempts + 1  f == r.fencing_token + 1
  <1>3. Claimed(r, w, now) = [r EXCEPT !.status = "running", !.attempts = a,
                                       !.updated_at = now, !.lease_owner = w,
                                       !.lease_expires_at = t, !.fencing_token = f]
    BY DEF Claimed
  <1>4. t \in Int /\ t # None /\ a \in Nat /\ f \in Nat
    BY <1>1, <1>2
  <1> HIDE DEF t, a, f
  <1>5. /\ Claimed(r, w, now) \in Record
        /\ LeaseOK(Claimed(r, w, now))
        /\ Claimed(r, w, now).status = "running"
        /\ Claimed(r, w, now).fencing_token = f
        /\ Claimed(r, w, now).attempts = a
        /\ Claimed(r, w, now).maximum_attempts = r.maximum_attempts
        /\ Claimed(r, w, now).key = r.key
    BY <1>1, <1>3, <1>4 DEF Record, LeaseOK, Status
  <1>6. QED
    BY <1>5 DEF a, f

LEMMA FinishedType ==
    ASSUME NEW r \in Record, NEW now \in Int, NEW b \in BOOLEAN
    PROVE  /\ Finished(r, b, now) \in Record
           /\ LeaseOK(Finished(r, b, now))
           /\ Finished(r, b, now).status \in {"queued", "succeeded", "failed"}
           /\ Finished(r, b, now).fencing_token = r.fencing_token
           /\ Finished(r, b, now).attempts = r.attempts
           /\ Finished(r, b, now).maximum_attempts = r.maximum_attempts
           /\ Finished(r, b, now).status = "queued" => r.attempts < r.maximum_attempts
           /\ Finished(r, b, now).key = r.key
  <1>1. r.attempts \in Nat /\ r.maximum_attempts \in Nat
    BY DEF Record
  <1>2. now + RetryDelay(r.attempts) \in Int
    BY <1>1, RetryDelayInt
  <1>3. ASSUME NEW x \in Record, LeaseOK(x), NEW t \in Int
        PROVE  /\ [x EXCEPT !.scheduled_at = t] \in Record
               /\ LeaseOK([x EXCEPT !.scheduled_at = t])
               /\ [x EXCEPT !.scheduled_at = t].status = x.status
               /\ [x EXCEPT !.scheduled_at = t].fencing_token = x.fencing_token
               /\ [x EXCEPT !.scheduled_at = t].attempts = x.attempts
               /\ [x EXCEPT !.scheduled_at = t].maximum_attempts = x.maximum_attempts
               /\ [x EXCEPT !.scheduled_at = t].key = x.key
    BY <1>3 DEF Record, LeaseOK
  <1>4. {"succeeded", "failed", "queued"} \subseteq Status \ {"running"}
    BY DEF Status
  <1>5. CASE b
    BY <1>4, <1>5, UnleasedType DEF Finished
  <1>6. CASE ~b /\ r.attempts >= r.maximum_attempts
    BY <1>4, <1>6, UnleasedType DEF Finished
  <1>7. CASE ~b /\ ~(r.attempts >= r.maximum_attempts)
    <2> DEFINE x == Unleased(r, "queued", now)
    <2>1. /\ x \in Record /\ LeaseOK(x) /\ x.status = "queued"
          /\ x.fencing_token = r.fencing_token /\ x.attempts = r.attempts
          /\ x.maximum_attempts = r.maximum_attempts /\ x.key = r.key
      BY <1>4, UnleasedType
    <2>2. Finished(r, b, now) = [x EXCEPT !.scheduled_at = now + RetryDelay(r.attempts)]
      BY <1>7 DEF Finished
    <2> HIDE DEF x
    <2>3. QED
      BY <1>1, <1>2, <1>3, <1>7, <2>1, <2>2
  <1>8. QED
    BY <1>5, <1>6, <1>7

\* What recovery of expired leases leaves of each record (_recover_expired).
LEMMA RecoverType ==
    ASSUME NEW recs \in [Job -> Record], NEW now \in Int, NEW j \in Job,
           LeaseOK(recs[j])
    PROVE  LET r == RecoverExpired(recs, now)[j] IN
           /\ RecoverExpired(recs, now) \in [Job -> Record]
           /\ LeaseOK(r)
           /\ r.fencing_token = recs[j].fencing_token
           /\ r.attempts = recs[j].attempts
           /\ r.maximum_attempts = recs[j].maximum_attempts
           /\ r.key = recs[j].key
           /\ \/ r = recs[j]
              \/ /\ Expired(recs[j], now)
                 /\ r.status \in {"queued", "failed"}
                 /\ r.status = "queued" => r.attempts < r.maximum_attempts
  <1>1. ASSUME NEW i \in Job, NEW s \in {"queued", "failed"}
        PROVE  [Unleased(recs[i], s, now) EXCEPT !.scheduled_at = now] \in Record
    BY <1>1 DEF Unleased, Record, Status
  <1>2. RecoverExpired(recs, now) \in [Job -> Record]
    BY <1>1 DEF RecoverExpired
  <1>3. ASSUME NEW s \in {"queued", "failed"}
        PROVE  LET r == [Unleased(recs[j], s, now) EXCEPT !.scheduled_at = now] IN
               /\ LeaseOK(r) /\ r.status = s
               /\ r.fencing_token = recs[j].fencing_token
               /\ r.attempts = recs[j].attempts
               /\ r.maximum_attempts = recs[j].maximum_attempts
               /\ r.key = recs[j].key
    BY <1>3 DEF Unleased, Record, Status, LeaseOK
  <1>4. recs[j].attempts \in Nat /\ recs[j].maximum_attempts \in Nat
    BY DEF Record
  <1>5. QED
    BY <1>2, <1>3, <1>4 DEF RecoverExpired

LEMMA AgedType ==
    ASSUME NEW r \in Record, LeaseOK(r)
    PROVE  /\ Aged(r) \in Record
           /\ LeaseOK(Aged(r))
           /\ Aged(r).status = r.status
           /\ Aged(r).fencing_token = r.fencing_token
           /\ Aged(r).attempts = r.attempts
           /\ Aged(r).maximum_attempts = r.maximum_attempts
           /\ Aged(r).key = r.key
           /\ Aged(r).lease_owner = r.lease_owner
  <1>1. \A t \in Int : t # None /\ Earlier(t) \in Int /\ Earlier(t) # None
    BY JobAssumption DEF Earlier
  <1>2. Earlier(None) = None
    BY DEF Earlier
  <1>3. /\ Earlier(r.scheduled_at) \in Int
        /\ Earlier(r.created_at) \in Int
        /\ Earlier(r.updated_at) \in Int
        /\ Earlier(r.lease_expires_at) \in Int \cup {None}
        /\ Earlier(r.lease_expires_at) = None <=> r.lease_expires_at = None
    BY <1>1, <1>2 DEF Record
  <1>4. QED
    BY <1>3 DEF Aged, Record, LeaseOK

LEMMA AbsentType == Absent \in Record /\ LeaseOK(Absent) /\ Absent.status = "absent"
  BY DEF Absent, Record, LeaseOK, Status

LEMMA NowInt == Now \subseteq Int
  BY JobAssumption DEF Now

-----------------------------------------------------------------------------
(* Type correctness.                                                       *)

LEMMA ReleaseType ==
    ASSUME TypeOK, NEW p \in Process, Release(p)
    PROVE  /\ pc' \in [Process -> {"idle", "claimed", "handling", "finishing"}]
           /\ job' \in [Process -> Job \cup {None}]
           /\ token' \in [Process -> Nat]
           /\ ok' \in [Process -> BOOLEAN]
  BY DEF TypeOK, Release

\* The record a claim hands out and what it does to the registry.
LEMMA ClaimDueStep ==
    ASSUME TypeOK, NEW p \in Process, NEW now \in Now, ClaimDue(p, now)
    PROVE  \E j \in Job :
             LET recs == RecoverExpired(records, now) IN
             /\ recs \in [Job -> Record]
             /\ recs[j].status = "queued"
             /\ records' = [recs EXCEPT ![j] = Claimed(recs[j], WorkerOf[p], now)]
             /\ records' \in [Job -> Record]
             /\ records'[j].status = "running"
             /\ records'[j].fencing_token = records[j].fencing_token + 1
             /\ records'[j].attempts = records[j].attempts + 1
             /\ records'[j].maximum_attempts = records[j].maximum_attempts
             /\ records'[j].key = records[j].key
             /\ LeaseOK(records'[j])
             /\ \A i \in Job \ {j} : records'[i] = recs[i]
             /\ job' = [job EXCEPT ![p] = j]
             /\ token' = [token EXCEPT ![p] = records'[j].fencing_token]
  <1> DEFINE recs == RecoverExpired(records, now)
  <1>1. PICK j \in Due(recs, now) :
          /\ records' = [recs EXCEPT ![j] = Claimed(recs[j], WorkerOf[p], now)]
          /\ job' = [job EXCEPT ![p] = j]
          /\ token' = [token EXCEPT ![p] = records'[j].fencing_token]
    BY DEF ClaimDue
  <1>2. j \in Job /\ recs[j].status = "queued"
    BY DEF Due
  <1>3. now \in Int /\ records \in [Job -> Record] /\ LeaseOK(records[j])
    BY <1>2, NowInt DEF TypeOK
  <1>4. /\ recs \in [Job -> Record]
        /\ recs[j].fencing_token = records[j].fencing_token
        /\ recs[j].attempts = records[j].attempts
        /\ recs[j].maximum_attempts = records[j].maximum_attempts
        /\ recs[j].key = records[j].key
    BY <1>2, <1>3, RecoverType
  <1>5. WorkerOf[p] \in Worker
    BY JobAssumption
  <1> HIDE DEF recs
  <1> DEFINE c == Claimed(recs[j], WorkerOf[p], now)
  <1>6. /\ c \in Record /\ LeaseOK(c) /\ c.status = "running"
        /\ c.fencing_token = records[j].fencing_token + 1
        /\ c.attempts = records[j].attempts + 1
        /\ c.maximum_attempts = records[j].maximum_attempts
        /\ c.key = records[j].key
    BY <1>2, <1>3, <1>4, <1>5, ClaimedType
  <1> HIDE DEF c
  <1>7. records' = [recs EXCEPT ![j] = c]
    BY <1>1 DEF c
  <1>8. /\ records' \in [Job -> Record] /\ records'[j] = c
        /\ \A i \in Job \ {j} : records'[i] = recs[i]
    BY <1>2, <1>4, <1>6, <1>7
  <1>9. QED
    BY <1>1, <1>2, <1>4, <1>6, <1>8 DEF recs

LEMMA TypeNext == TypeOK /\ [Next]_vars => TypeOK'
  <1> SUFFICES ASSUME TypeOK, [Next]_vars
               PROVE  TypeOK'
    OBVIOUS
  <1>0. records \in [Job -> Record] /\ \A j \in Job : LeaseOK(records[j])
    BY DEF TypeOK
  <1>1. ASSUME NEW j \in Job, NEW k \in Key, NEW op \in Operation,
               NEW n \in 1..MaximumAttempts, NEW now \in Now, NEW due \in {now, Ahead},
               Enqueue(j, k, op, n, due, now)
        PROVE  TypeOK'
    <2>1. now \in Int /\ due \in Int /\ n \in Nat
      BY NowInt, JobAssumption
    <2>2. NewRecord(k, op, n, due, now) \in Record /\ LeaseOK(NewRecord(k, op, n, due, now))
      BY <2>1 DEF NewRecord, Record, LeaseOK, Status
    <2>3. QED
      BY <1>1, <2>2 DEF TypeOK, Enqueue
  <1>2. ASSUME NEW o \in Owner, NEW now \in Now, CancelOwner(o, now)
        PROVE  TypeOK'
    <2>1. \A i \in Job : /\ Unleased(records[i], "failed", now) \in Record
                         /\ LeaseOK(Unleased(records[i], "failed", now))
      BY <1>0, NowInt, UnleasedType DEF Status
    <2>2. QED
      BY <1>2, <2>1 DEF TypeOK, CancelOwner
  <1>3. ASSUME NEW before \in (1 - Past)..0, NEW limit \in 1..PurgeLimit,
               PurgeTerminal(before, limit)
        PROVE  TypeOK'
    <2>1. PICK batch : records' = [j \in Job |-> IF j \in batch THEN Absent ELSE records[j]]
      BY <1>3 DEF PurgeTerminal
    <2>2. QED
      BY <1>3, <2>1, AbsentType DEF TypeOK, PurgeTerminal
  <1>4. ASSUME NEW p \in Process, NEW now \in Now, ClaimDue(p, now)
        PROVE  TypeOK'
    <2>1. PICK j \in Job :
             /\ records' \in [Job -> Record]
             /\ LeaseOK(records'[j])
             /\ \A i \in Job \ {j} : records'[i] = RecoverExpired(records, now)[i]
             /\ job' = [job EXCEPT ![p] = j]
             /\ token' = [token EXCEPT ![p] = records'[j].fencing_token]
      BY <1>4, ClaimDueStep
    <2>2. \A i \in Job : LeaseOK(RecoverExpired(records, now)[i])
      BY <1>0, NowInt, RecoverType
    <2>3. records'[j].fencing_token \in Nat
      BY <2>1 DEF Record
    <2>4. QED
      BY <1>4, <2>1, <2>2, <2>3 DEF TypeOK, ClaimDue
  <1>5. ASSUME NEW p \in Process, NEW now \in Now, ClaimNone(p, now)
        PROVE  TypeOK'
    <2>1. \A i \in Job : /\ LeaseOK(RecoverExpired(records, now)[i])
                         /\ RecoverExpired(records, now) \in [Job -> Record]
      BY <1>0, NowInt, RecoverType
    <2>2. RecoverExpired(records, now) = [i \in Job |-> RecoverExpired(records, now)[i]]
      BY DEF RecoverExpired
    <2>3. RecoverExpired(records, now) \in [Job -> Record]
      BY <2>1, <2>2
    <2>4. QED
      BY <1>5, <2>1, <2>3 DEF TypeOK, ClaimNone
  <1>6. ASSUME NEW p \in Process, NEW now \in Now, Leased(p, now)
        PROVE  TypeOK'
    BY <1>6, ReleaseType DEF TypeOK, Leased
  <1>7. ASSUME NEW p \in Process, NEW result \in BOOLEAN, Handle(p, result)
        PROVE  TypeOK'
    BY <1>7 DEF TypeOK, Handle
  <1>8. ASSUME NEW p \in Process, NEW now \in Now, Complete(p, now)
        PROVE  TypeOK'
    <2>1. /\ pc' \in [Process -> {"idle", "claimed", "handling", "finishing"}]
          /\ job' \in [Process -> Job \cup {None}]
          /\ token' \in [Process -> Nat]
          /\ ok' \in [Process -> BOOLEAN]
      BY <1>8, ReleaseType DEF Complete
    <2>2. records' \in [Job -> Record] /\ \A j \in Job : LeaseOK(records'[j])
      <3>1. CASE HoldsLease(p, now) /\ job[p] \in Job
        <4> DEFINE r == Finished(records[job[p]], ok[p], now)
        <4>1. r \in Record /\ LeaseOK(r)
          BY <1>0, <3>1, NowInt, FinishedType DEF TypeOK
        <4>2. records' = [records EXCEPT ![job[p]] = r]
          BY <1>8, <3>1 DEF Complete
        <4> HIDE DEF r
        <4>3. QED
          BY <1>0, <3>1, <4>1, <4>2
      <3>2. CASE ~(HoldsLease(p, now) /\ job[p] \in Job)
        <4>1. records' = records
          BY <1>0, <1>8, <3>2 DEF Complete
        <4>2. QED
          BY <1>0, <4>1
      <3>3. QED
        BY <3>1, <3>2
    <2>3. QED
      BY <2>1, <2>2 DEF TypeOK
  <1>9. ASSUME NEW p \in Process, Crash(p)
        PROVE  TypeOK'
    BY <1>9, ReleaseType DEF TypeOK, Crash
  <1>10. CASE Tick
    BY <1>0, <1>10, AgedType DEF TypeOK, Tick
  <1>11. CASE UNCHANGED vars
    BY <1>11 DEF TypeOK, vars
  <1>12. QED
    BY <1>1, <1>2, <1>3, <1>4, <1>5, <1>6, <1>7, <1>8, <1>9, <1>10, <1>11
       DEF Next, CallerStep, RunnerStep, Claim

\* Every record stays well formed and leased exactly while it runs.
THEOREM TypeCorrect == Spec => []TypeOK
  <1>1. Init => TypeOK
    BY AbsentType, JobAssumption DEF Init, TypeOK
  <1>2. QED
    BY <1>1, TypeNext, PTL DEF Spec

-----------------------------------------------------------------------------
(* Fencing.  A step that neither claims nor releases leaves the tokens     *)
(* alone and may only turn a record into an absent one.                    *)

LEMMA TokensKept ==
    ASSUME TypeOK, TokensDistinct, UNCHANGED <<job, token>>,
           \A p \in Process : pc'[p] = "idle" <=> pc[p] = "idle",
           \A j \in Job : \/ records'[j].status = "absent"
                          \/ /\ records[j].status # "absent"
                             /\ records'[j].fencing_token = records[j].fencing_token
                          \/ \A p \in Process : job[p] # j
    PROVE  TokensDistinct'
  BY DEF TokensDistinct, Present

LEMMA TokensReleased ==
    ASSUME TypeOK, TokensDistinct, NEW p \in Process, Release(p),
           \A j \in Job : /\ records'[j].status # "absent" => records[j].status # "absent"
                          /\ records'[j].fencing_token = records[j].fencing_token
    PROVE  TokensDistinct'
  <1>1. /\ pc' = [pc EXCEPT ![p] = "idle"]
        /\ job' = [job EXCEPT ![p] = None]
        /\ token' = [token EXCEPT ![p] = 0]
    BY DEF Release
  <1>2. QED
    BY <1>1, JobAssumption DEF TokensDistinct, Present, TypeOK

LEMMA TokensNext == TypeOK /\ TokensDistinct /\ [Next]_vars => TokensDistinct'
  <1> SUFFICES ASSUME TypeOK, TokensDistinct, [Next]_vars
               PROVE  TokensDistinct'
    OBVIOUS
  <1>0. records \in [Job -> Record] /\ \A j \in Job : LeaseOK(records[j])
    BY DEF TypeOK
  <1>1. ASSUME NEW j \in Job, NEW k \in Key, NEW op \in Operation,
               NEW n \in 1..MaximumAttempts, NEW now \in Now, NEW due \in {now, Ahead},
               Enqueue(j, k, op, n, due, now)
        PROVE  TokensDistinct'
    <2>1. \A i \in Job : records'[i] = records[i] \/ \A p \in Process : job[p] # i
      BY <1>0, <1>1 DEF Enqueue
    <2>2. UNCHANGED <<pc, job, token>>
      BY <1>1 DEF Enqueue
    <2>3. QED
      BY <2>1, <2>2, TokensKept
  <1>2. ASSUME NEW o \in Owner, NEW now \in Now, CancelOwner(o, now)
        PROVE  TokensDistinct'
    <2>1. \A i \in Job : \/ records'[i] = records[i]
                         \/ /\ records[i].status # "absent"
                            /\ records'[i].fencing_token = records[i].fencing_token
      BY <1>0, <1>2, NowInt, UnleasedType DEF CancelOwner, Cancellable, Status
    <2>2. UNCHANGED <<pc, job, token>>
      BY <1>2 DEF CancelOwner
    <2>3. QED
      BY <2>1, <2>2, TokensKept
  <1>3. ASSUME NEW before \in (1 - Past)..0, NEW limit \in 1..PurgeLimit,
               PurgeTerminal(before, limit)
        PROVE  TokensDistinct'
    <2>1. PICK batch : records' = [j \in Job |-> IF j \in batch THEN Absent ELSE records[j]]
      BY <1>3 DEF PurgeTerminal
    <2>2. \A j \in Job : records'[j].status = "absent" \/ records'[j] = records[j]
      BY <2>1, AbsentType
    <2>3. UNCHANGED <<pc, job, token>>
      BY <1>3 DEF PurgeTerminal
    <2>4. QED
      BY <2>2, <2>3, TokensKept
  <1>4. ASSUME NEW p \in Process, NEW now \in Now, ClaimDue(p, now)
        PROVE  TokensDistinct'
    <2> DEFINE recs == RecoverExpired(records, now)
    <2>1. PICK j \in Job :
             /\ recs[j].status = "queued"
             /\ records' \in [Job -> Record]
             /\ records'[j].fencing_token = records[j].fencing_token + 1
             /\ \A i \in Job \ {j} : records'[i] = recs[i]
             /\ job' = [job EXCEPT ![p] = j]
             /\ token' = [token EXCEPT ![p] = records'[j].fencing_token]
      BY <1>4, ClaimDueStep
    <2>2. \A i \in Job : /\ recs[i].fencing_token = records[i].fencing_token
                         /\ recs[i].status # "absent" => records[i].status # "absent"
      BY <1>0, NowInt, RecoverType DEF Expired
    <2>3. records[j].status # "absent" /\ records[j].fencing_token \in Nat
      BY <1>0, <2>1, <2>2 DEF Record
    <2>4. pc' = [pc EXCEPT ![p] = "claimed"] /\ pc[p] = "idle"
      BY <1>4 DEF ClaimDue
    <2> HIDE DEF recs
    <2>5. \A q \in Process : job[q] = j => token[q] <= records[j].fencing_token
      BY <2>3 DEF TokensDistinct, Present
    <2>6. \A i \in Job : /\ records'[i].status # "absent" /\ i # j => records[i].status # "absent"
                         /\ i # j => records'[i].fencing_token = records[i].fencing_token
      BY <2>1, <2>2
    <2>7. \A q \in Process : /\ q # p => job'[q] = job[q] /\ token'[q] = token[q] /\ pc'[q] = pc[q]
                             /\ q = p => job'[q] = j /\ token'[q] = records[j].fencing_token + 1
                                         /\ pc'[q] = "claimed"
      BY <2>1, <2>4 DEF TypeOK
    <2>8. token \in [Process -> Nat] /\ j # None
      BY JobAssumption DEF TypeOK
    <2>9. \A q \in Process : /\ pc'[q] = "idle" <=> job'[q] = None
                             /\ job'[q] # None => token'[q] >= 1
      BY <2>3, <2>7, <2>8 DEF TokensDistinct
    <2>10. \A q \in Process : \A i \in Present' :
              job'[q] = i => token'[q] <= records'[i].fencing_token
      <3> SUFFICES ASSUME NEW q \in Process, NEW i \in Job, records'[i].status # "absent",
                          job'[q] = i
                   PROVE  token'[q] <= records'[i].fencing_token
        BY DEF Present
      <3>1. CASE q = p
        BY <2>1, <2>3, <2>7, <3>1
      <3>2. CASE q # p /\ i = j
        BY <2>1, <2>3, <2>5, <2>7, <2>8, <3>2
      <3>3. CASE q # p /\ i # j
        BY <2>6, <2>7, <3>3 DEF TokensDistinct, Present
      <3>4. QED
        BY <3>1, <3>2, <3>3
    <2>11. \A q, r \in Process :
              job'[q] # None /\ job'[q] = job'[r] /\ token'[q] = token'[r] => q = r
      BY <2>3, <2>5, <2>7, <2>8 DEF TokensDistinct
    <2>12. QED
      BY <2>9, <2>10, <2>11 DEF TokensDistinct
  <1>5. ASSUME NEW p \in Process, NEW now \in Now, ClaimNone(p, now)
        PROVE  TokensDistinct'
    <2>1. \A i \in Job : /\ records'[i].fencing_token = records[i].fencing_token
                         /\ records'[i].status # "absent" => records[i].status # "absent"
      BY <1>0, <1>5, NowInt, RecoverType DEF ClaimNone, Expired
    <2>2. UNCHANGED <<pc, job, token>>
      BY <1>5 DEF ClaimNone
    <2>3. QED
      BY <2>1, <2>2, TokensKept
  <1>6. ASSUME NEW p \in Process, NEW now \in Now, Leased(p, now)
        PROVE  TokensDistinct'
    <2>1. CASE HoldsLease(p, now)
      <3>1. UNCHANGED <<records, job, token>> /\ pc[p] = "claimed"
            /\ pc' = [pc EXCEPT ![p] = "handling"]
        BY <1>6, <2>1 DEF Leased
      <3>2. QED
        BY <3>1, TokensKept DEF TypeOK
    <2>2. CASE ~HoldsLease(p, now)
      BY <1>6, <2>2, TokensReleased DEF Leased
    <2>3. QED
      BY <2>1, <2>2
  <1>7. ASSUME NEW p \in Process, NEW result \in BOOLEAN, Handle(p, result)
        PROVE  TokensDistinct'
    <2>1. UNCHANGED <<records, job, token>> /\ pc[p] = "handling"
          /\ pc' = [pc EXCEPT ![p] = "finishing"]
      BY <1>7 DEF Handle
    <2>2. QED
      BY <2>1, TokensKept DEF TypeOK
  <1>8. ASSUME NEW p \in Process, NEW now \in Now, Complete(p, now)
        PROVE  TokensDistinct'
    <2>1. \A j \in Job : /\ records'[j].status # "absent" => records[j].status # "absent"
                         /\ records'[j].fencing_token = records[j].fencing_token
      <3>1. CASE HoldsLease(p, now) /\ job[p] \in Job
        <4> DEFINE r == Finished(records[job[p]], ok[p], now)
        <4>1. r.fencing_token = records[job[p]].fencing_token
          BY <1>0, <3>1, NowInt, FinishedType DEF TypeOK
        <4>2. records' = [records EXCEPT ![job[p]] = r] /\ records[job[p]].status = "running"
          BY <1>8, <3>1 DEF Complete, HoldsLease
        <4> HIDE DEF r
        <4>3. QED
          BY <1>0, <3>1, <4>1, <4>2
      <3>2. CASE ~(HoldsLease(p, now) /\ job[p] \in Job)
        BY <1>0, <1>8, <3>2 DEF Complete
      <3>3. QED
        BY <3>1, <3>2
    <2>2. Release(p)
      BY <1>8 DEF Complete
    <2>3. QED
      BY <2>1, <2>2, TokensReleased
  <1>9. ASSUME NEW p \in Process, Crash(p)
        PROVE  TokensDistinct'
    BY <1>9, TokensReleased DEF Crash
  <1>10. CASE Tick
    <2>1. \A i \in Job : /\ records'[i].status = records[i].status
                         /\ records'[i].fencing_token = records[i].fencing_token
      BY <1>0, <1>10, AgedType DEF Tick
    <2>2. UNCHANGED <<pc, job, token>>
      BY <1>10 DEF Tick
    <2>3. QED
      BY <2>1, <2>2, TokensKept
  <1>11. CASE UNCHANGED vars
    BY <1>11 DEF TokensDistinct, Present, vars
  <1>12. QED
    BY <1>1, <1>2, <1>3, <1>4, <1>5, <1>6, <1>7, <1>8, <1>9, <1>10, <1>11
       DEF Next, CallerStep, RunnerStep, Claim

\* The fencing tokens of concurrent holders are distinct and never ahead of the
\* record (the inductive invariant behind fencing).
THEOREM FencingTokens == Spec => []TokensDistinct
  <1>1. Init => TokensDistinct
    BY JobAssumption DEF Init, TokensDistinct, Present, Absent
  <1>2. QED
    BY <1>1, TokensNext, TypeCorrect, PTL DEF Spec

\* At most one process can complete a job, whatever worker ids they use.
THEOREM Fencing == Spec => []OneHolder
  <1>1. TokensDistinct => OneHolder
    BY JobAssumption DEF TokensDistinct, OneHolder, Holds
  <1>2. QED
    BY <1>1, FencingTokens, PTL

-----------------------------------------------------------------------------
(* The life of one record: what any step may do to it.                     *)

SameCounts(r, s) ==
    /\ s.fencing_token = r.fencing_token
    /\ s.attempts = r.attempts
    /\ s.maximum_attempts = r.maximum_attempts

Removed(r, s) == s.status = "absent" /\ (r.status = "absent" \/ IsTerminal(r))

Created(r, s) ==
    /\ r.status = "absent" /\ s.status = "queued"
    /\ s.attempts = 0 /\ s.maximum_attempts >= 1

Kept(r, s) == s.status = r.status /\ SameCounts(r, s)

\* Completed, cancelled, or recovered from an expired lease.
Settled(r, s, j) ==
    /\ r.status \in {"queued", "running"}
    /\ s.status \in {"queued", "succeeded", "failed"}
    /\ s.status = "queued" => s.attempts < s.maximum_attempts
    /\ r.status = "running" /\ s.status = "queued" =>
          r.lease_expires_at <= 0 \/ \E p \in Process : Completing(p, j)
    /\ SameCounts(r, s)

Taken(r, s) ==
    /\ \/ r.status = "queued"
       \/ /\ r.status = "running" /\ r.lease_expires_at <= 0
          /\ r.attempts < r.maximum_attempts
    /\ s.status = "running"
    /\ s.fencing_token = r.fencing_token + 1
    /\ s.attempts = r.attempts + 1
    /\ s.maximum_attempts = r.maximum_attempts

RecordStep(j, r, s) ==
    Removed(r, s) \/ Created(r, s) \/ Kept(r, s) \/ Settled(r, s, j) \/ Taken(r, s)

LEMMA RecoverRecord ==
    ASSUME TypeOK, NEW now \in Now, NEW j \in Job
    PROVE  LET r == RecoverExpired(records, now)[j] IN
           /\ RecoverExpired(records, now) \in [Job -> Record]
           /\ SameCounts(records[j], r)
           /\ \/ r = records[j]
              \/ /\ records[j].status = "running" /\ records[j].lease_expires_at <= 0
                 /\ r.status \in {"queued", "failed"}
                 /\ r.status = "queued" => r.attempts < r.maximum_attempts
  <1>1. records \in [Job -> Record] /\ LeaseOK(records[j]) /\ now \in Int /\ now <= 0
    BY NowInt, JobAssumption DEF TypeOK, Now
  <1>2. records[j].lease_expires_at \in Int \cup {None}
    BY <1>1 DEF Record
  <1>3. Expired(records[j], now) => records[j].status = "running" /\ records[j].lease_expires_at <= 0
    BY <1>1, <1>2 DEF Expired
  <1>4. QED
    BY <1>1, <1>3, RecoverType DEF SameCounts

LEMMA RecordLife ==
    ASSUME TypeOK, [Next]_vars, NEW i \in Job
    PROVE  RecordStep(i, records[i], records'[i])
  <1>0. /\ records \in [Job -> Record] /\ \A j \in Job : LeaseOK(records[j])
        /\ records[i] \in Record
    BY DEF TypeOK
  <1>k. ASSUME records'[i] = records[i]
        PROVE  RecordStep(i, records[i], records'[i])
    BY <1>k DEF RecordStep, Kept, SameCounts
  <1>1. ASSUME NEW j \in Job, NEW k \in Key, NEW op \in Operation,
               NEW n \in 1..MaximumAttempts, NEW now \in Now, NEW due \in {now, Ahead},
               Enqueue(j, k, op, n, due, now)
        PROVE  RecordStep(i, records[i], records'[i])
    <2>1. CASE i = j
      BY <1>0, <1>1, <2>1 DEF Enqueue, NewRecord, RecordStep, Created
    <2>2. CASE i # j
      BY <1>0, <1>1, <1>k, <2>2 DEF Enqueue
    <2>3. QED
      BY <2>1, <2>2
  <1>2. ASSUME NEW o \in Owner, NEW now \in Now, CancelOwner(o, now)
        PROVE  RecordStep(i, records[i], records'[i])
    <2>1. CASE Cancellable(i, o)
      <3>1. records'[i] = Unleased(records[i], "failed", now)
        BY <1>2, <2>1 DEF CancelOwner
      <3>2. "failed" \in Status \ {"running"}
        BY DEF Status
      <3>3. QED
        BY <1>0, <2>1, <3>1, <3>2, NowInt, UnleasedType
           DEF Cancellable, RecordStep, Settled, SameCounts
    <2>2. CASE ~Cancellable(i, o)
      BY <1>2, <1>k, <2>2 DEF CancelOwner
    <2>3. QED
      BY <2>1, <2>2
  <1>3. ASSUME NEW before \in (1 - Past)..0, NEW limit \in 1..PurgeLimit,
               PurgeTerminal(before, limit)
        PROVE  RecordStep(i, records[i], records'[i])
    <2> DEFINE old == {j \in Job : IsTerminal(records[j]) /\ records[j].updated_at < before}
    <2>1. PICK batch \in SUBSET old :
             records' = [j \in Job |-> IF j \in batch THEN Absent ELSE records[j]]
      BY <1>3 DEF PurgeTerminal
    <2>2. CASE i \in batch
      BY <2>1, <2>2, AbsentType DEF RecordStep, Removed
    <2>3. CASE i \notin batch
      BY <1>k, <2>1, <2>3
    <2>4. QED
      BY <2>2, <2>3
  <1>4. ASSUME NEW p \in Process, NEW now \in Now, ClaimDue(p, now)
        PROVE  RecordStep(i, records[i], records'[i])
    <2> DEFINE recs == RecoverExpired(records, now)
    <2>1. PICK j \in Job :
             /\ recs[j].status = "queued"
             /\ records'[j].status = "running"
             /\ records'[j].fencing_token = records[j].fencing_token + 1
             /\ records'[j].attempts = records[j].attempts + 1
             /\ records'[j].maximum_attempts = records[j].maximum_attempts
             /\ \A h \in Job \ {j} : records'[h] = recs[h]
      BY <1>4, ClaimDueStep
    <2>2. /\ SameCounts(records[i], recs[i])
          /\ \/ recs[i] = records[i]
             \/ /\ records[i].status = "running" /\ records[i].lease_expires_at <= 0
                /\ recs[i].status \in {"queued", "failed"}
                /\ recs[i].status = "queued" => recs[i].attempts < recs[i].maximum_attempts
      BY RecoverRecord
    <2> HIDE DEF recs
    <2>3. CASE i = j
      BY <2>1, <2>2, <2>3 DEF RecordStep, Taken, SameCounts
    <2>4. CASE i # j
      <3>1. records'[i] = recs[i]
        BY <2>1, <2>4
      <3>2. QED
        BY <2>2, <3>1 DEF RecordStep, Kept, Settled, SameCounts
    <2>5. QED
      BY <2>3, <2>4
  <1>5. ASSUME NEW p \in Process, NEW now \in Now, ClaimNone(p, now)
        PROVE  RecordStep(i, records[i], records'[i])
    <2>1. records' = RecoverExpired(records, now)
      BY <1>5 DEF ClaimNone
    <2>2. QED
      BY <2>1, RecoverRecord DEF RecordStep, Kept, Settled, SameCounts
  <1>6. ASSUME NEW p \in Process, NEW now \in Now, Leased(p, now)
        PROVE  RecordStep(i, records[i], records'[i])
    BY <1>6, <1>k DEF Leased
  <1>7. ASSUME NEW p \in Process, NEW result \in BOOLEAN, Handle(p, result)
        PROVE  RecordStep(i, records[i], records'[i])
    BY <1>7, <1>k DEF Handle
  <1>8. ASSUME NEW p \in Process, NEW now \in Now, Complete(p, now)
        PROVE  RecordStep(i, records[i], records'[i])
    <2>1. CASE HoldsLease(p, now) /\ job[p] = i
      <3>1. records'[i] = Finished(records[i], ok[p], now)
        BY <1>0, <1>8, <2>1 DEF Complete
      <3>2. records[i].status = "running" /\ ok[p] \in BOOLEAN /\ now \in Int
        BY <2>1, NowInt DEF HoldsLease, TypeOK
      <3>3. Completing(p, i)
        BY <1>8, <2>1 DEF Complete, Completing, Holds, HoldsLease
      <3>4. /\ records'[i].status \in {"queued", "succeeded", "failed"}
            /\ SameCounts(records[i], records'[i])
            /\ records'[i].status = "queued" => records'[i].attempts < records'[i].maximum_attempts
        BY <1>0, <3>1, <3>2, FinishedType DEF SameCounts
      <3>5. Settled(records[i], records'[i], i)
        BY <3>2, <3>3, <3>4 DEF Settled
      <3>6. QED
        BY <3>5 DEF RecordStep
    <2>2. CASE ~(HoldsLease(p, now) /\ job[p] = i)
      <3>1. records'[i] = records[i]
        BY <1>0, <1>8, <2>2 DEF Complete
      <3>2. QED
        BY <1>k, <3>1
    <2>3. QED
      BY <2>1, <2>2
  <1>9. ASSUME NEW p \in Process, Crash(p)
        PROVE  RecordStep(i, records[i], records'[i])
    BY <1>9, <1>k DEF Crash
  <1>10. CASE Tick
    BY <1>0, <1>10, <1>k, AgedType DEF Tick, RecordStep, Kept, SameCounts
  <1>11. CASE UNCHANGED vars
    BY <1>11, <1>k DEF vars
  <1>12. QED
    BY <1>1, <1>2, <1>3, <1>4, <1>5, <1>6, <1>7, <1>8, <1>9, <1>10, <1>11
       DEF Next, CallerStep, RunnerStep, Claim

\* No job runs more often than its maximum_attempts, through every path that
\* puts a job back into the queue.
THEOREM RetryBudget == Spec => []AttemptBudget
  <1>1. Init => AttemptBudget
    BY DEF Init, AttemptBudget, Present, Absent
  <1>2. TypeOK /\ TypeOK' /\ AttemptBudget /\ [Next]_vars => AttemptBudget'
    <2> SUFFICES ASSUME TypeOK, TypeOK', AttemptBudget, [Next]_vars, NEW j \in Present'
                 PROVE  /\ records'[j].attempts <= records'[j].maximum_attempts
                        /\ records'[j].status = "queued"
                             => records'[j].attempts < records'[j].maximum_attempts
      BY DEF AttemptBudget
    <2>1. j \in Job /\ records'[j].status # "absent"
      BY DEF Present
    <2>2. /\ records[j].attempts \in Nat /\ records[j].maximum_attempts \in Nat
          /\ records'[j].attempts \in Nat /\ records'[j].maximum_attempts \in Nat
      BY <2>1 DEF TypeOK, Record
    <2>3. records[j].status # "absent" =>
            /\ records[j].attempts <= records[j].maximum_attempts
            /\ records[j].status = "queued" => records[j].attempts < records[j].maximum_attempts
      BY <2>1 DEF AttemptBudget, Present
    <2>4. RecordStep(j, records[j], records'[j])
      BY <2>1, RecordLife
    <2>5. QED
      BY <2>1, <2>2, <2>3, <2>4
         DEF RecordStep, Removed, Created, Kept, Settled, Taken, SameCounts
  <1>3. QED
    BY <1>1, <1>2, TypeCorrect, PTL DEF Spec

\* A terminal record never runs again.
THEOREM FinalOutcome == Spec => OutcomeIsFinal
  <1>1. TypeOK /\ [Next]_vars =>
          [\A j \in Job :
              IsTerminal(records[j]) =>
                \/ records'[j].status = "absent"
                \/ /\ records'[j].status = records[j].status
                   /\ records'[j].fencing_token = records[j].fencing_token]_vars
    <2> SUFFICES ASSUME TypeOK, [Next]_vars, NEW j \in Job, IsTerminal(records[j])
                 PROVE  \/ records'[j].status = "absent"
                        \/ /\ records'[j].status = records[j].status
                           /\ records'[j].fencing_token = records[j].fencing_token
      OBVIOUS
    <2>1. RecordStep(j, records[j], records'[j])
      BY RecordLife
    <2>2. QED
      BY <2>1 DEF IsTerminal, RecordStep, Removed, Created, Kept, Settled, Taken, SameCounts
  <1>2. QED
    BY <1>1, TypeCorrect, PTL DEF Spec, OutcomeIsFinal

\* A lease is taken over only after it has run out by the wall clock.
THEOREM Takeover == Spec => NoEarlyTakeover
  <1>1. TypeOK /\ [Next]_vars =>
          [\A j \in Job :
              /\ records[j].status = "running"
              /\ \/ records'[j].status = "queued"
                 \/ records'[j].status = "running"
                    /\ records'[j].fencing_token # records[j].fencing_token
              => \/ records[j].lease_expires_at <= 0
                 \/ \E p \in Process : Completing(p, j)]_vars
    <2> SUFFICES ASSUME TypeOK, [Next]_vars, NEW j \in Job,
                        records[j].status = "running",
                        \/ records'[j].status = "queued"
                        \/ records'[j].status = "running"
                           /\ records'[j].fencing_token # records[j].fencing_token
                 PROVE  \/ records[j].lease_expires_at <= 0
                        \/ \E p \in Process : Completing(p, j)
      OBVIOUS
    <2>1. RecordStep(j, records[j], records'[j])
      BY RecordLife
    <2>2. QED
      BY <2>1 DEF IsTerminal, RecordStep, Removed, Created, Kept, Settled, Taken, SameCounts
  <1>2. QED
    BY <1>1, TypeCorrect, PTL DEF Spec, NoEarlyTakeover

-----------------------------------------------------------------------------
(* The registry as a whole: its keys and its size.                         *)

\* Enqueue adds one record, under a key nobody has, to a queue with room.
Added ==
    \E j \in Job :
        /\ records[j].status = "absent"
        /\ \A i \in Present : records[i].key # records'[j].key
        /\ Cardinality(Present) < MaximumRecords
        /\ \A i \in Job \ {j} : records'[i] = records[i]

\* Nothing else adds a record or gives one another key.
KeepsKey(r, s) ==
    s.status = "absent" \/ (r.status # "absent" /\ s.key = r.key)

LEMMA RegistryStep ==
    ASSUME TypeOK, [Next]_vars
    PROVE  Added \/ \A i \in Job : KeepsKey(records[i], records'[i])
  <1>0. records \in [Job -> Record] /\ \A j \in Job : LeaseOK(records[j])
    BY DEF TypeOK
  <1> DEFINE Keeps == \A i \in Job : KeepsKey(records[i], records'[i])
  <1>r. ASSUME NEW now \in Now, NEW i \in Job
        PROVE  LET r == RecoverExpired(records, now)[i] IN
               KeepsKey(records[i], r) /\ (r.status # "absent" => records[i].status # "absent")
    BY <1>0, NowInt, RecoverType DEF KeepsKey, Expired
  <1>1. ASSUME NEW j \in Job, NEW k \in Key, NEW op \in Operation,
               NEW n \in 1..MaximumAttempts, NEW now \in Now, NEW due \in {now, Ahead},
               Enqueue(j, k, op, n, due, now)
        PROVE  Added
    <2>1. records'[j].key = k /\ \A i \in Job \ {j} : records'[i] = records[i]
      BY <1>0, <1>1 DEF Enqueue, NewRecord
    <2>2. QED
      BY <1>1, <2>1 DEF Enqueue, Added
  <1>2. ASSUME NEW o \in Owner, NEW now \in Now, CancelOwner(o, now)
        PROVE  Keeps
    <2>1. "failed" \in Status \ {"running"}
      BY DEF Status
    <2>2. \A i \in Job : Unleased(records[i], "failed", now).key = records[i].key
      BY <1>0, <2>1, NowInt, UnleasedType
    <2>3. QED
      BY <1>2, <2>2 DEF CancelOwner, Cancellable, KeepsKey
  <1>3. ASSUME NEW before \in (1 - Past)..0, NEW limit \in 1..PurgeLimit,
               PurgeTerminal(before, limit)
        PROVE  Keeps
    <2>1. PICK batch : records' = [j \in Job |-> IF j \in batch THEN Absent ELSE records[j]]
      BY <1>3 DEF PurgeTerminal
    <2>2. QED
      BY <2>1, AbsentType DEF KeepsKey
  <1>4. ASSUME NEW p \in Process, NEW now \in Now, ClaimDue(p, now)
        PROVE  Keeps
    <2> DEFINE recs == RecoverExpired(records, now)
    <2>1. PICK j \in Job :
             /\ recs[j].status = "queued"
             /\ records'[j].key = records[j].key
             /\ \A i \in Job \ {j} : records'[i] = recs[i]
      BY <1>4, ClaimDueStep
    <2>2. \A i \in Job : KeepsKey(records[i], recs[i])
                          /\ (recs[i].status # "absent" => records[i].status # "absent")
      BY <1>r
    <2> HIDE DEF recs
    <2>3. QED
      BY <2>1, <2>2 DEF KeepsKey
  <1>5. ASSUME NEW p \in Process, NEW now \in Now, ClaimNone(p, now)
        PROVE  Keeps
    BY <1>5, <1>r DEF ClaimNone
  <1>6. ASSUME records' = records
        PROVE  Keeps
    BY <1>6 DEF KeepsKey
  <1>7. ASSUME NEW p \in Process, NEW now \in Now, Complete(p, now)
        PROVE  Keeps
    <2>1. CASE HoldsLease(p, now) /\ job[p] \in Job
      <3> DEFINE r == Finished(records[job[p]], ok[p], now)
      <3>1. r.key = records[job[p]].key
        BY <1>0, <2>1, NowInt, FinishedType DEF TypeOK
      <3>2. records' = [records EXCEPT ![job[p]] = r] /\ records[job[p]].status = "running"
        BY <1>7, <2>1 DEF Complete, HoldsLease
      <3> HIDE DEF r
      <3>3. QED
        BY <1>0, <2>1, <3>1, <3>2 DEF KeepsKey
    <2>2. CASE ~(HoldsLease(p, now) /\ job[p] \in Job)
      <3>1. records' = records
        BY <1>0, <1>7, <2>2 DEF Complete
      <3>2. QED
        BY <1>6, <3>1
    <2>3. QED
      BY <2>1, <2>2
  <1>8. CASE Tick
    BY <1>0, <1>8, AgedType DEF Tick, KeepsKey
  <1>9. ASSUME NEW p \in Process, NEW now \in Now, Leased(p, now)
        PROVE  Keeps
    BY <1>6, <1>9 DEF Leased
  <1>10. ASSUME NEW p \in Process, NEW result \in BOOLEAN, Handle(p, result)
         PROVE  Keeps
    BY <1>6, <1>10 DEF Handle
  <1>11. ASSUME NEW p \in Process, Crash(p)
         PROVE  Keeps
    BY <1>6, <1>11 DEF Crash
  <1>12. CASE UNCHANGED vars
    BY <1>6, <1>12 DEF vars
  <1> HIDE DEF Keeps
  <1>13. Added \/ Keeps
    <2>1. CASE CallerStep
      <3>1. CASE \E j \in Job, k \in Key, op \in Operation, n \in 1..MaximumAttempts,
                    now \in Now : \E due \in {now, Ahead} : Enqueue(j, k, op, n, due, now)
        BY <1>1, <3>1
      <3>2. CASE \E o \in Owner, now \in Now : CancelOwner(o, now)
        BY <1>2, <3>2
      <3>3. CASE \E before \in (1 - Past)..0, limit \in 1..PurgeLimit :
                    PurgeTerminal(before, limit)
        BY <1>3, <3>3
      <3>4. QED
        BY <2>1, <3>1, <3>2, <3>3 DEF CallerStep
    <2>2. ASSUME NEW p \in Process, RunnerStep(p) \/ Crash(p)
          PROVE  Keeps
      <3>1. CASE Claim(p)
        BY <1>4, <1>5, <3>1 DEF Claim
      <3>2. CASE \E now \in Now : Leased(p, now)
        BY <1>9, <3>2
      <3>3. CASE \E result \in BOOLEAN : Handle(p, result)
        BY <1>10, <3>3
      <3>4. CASE \E now \in Now : Complete(p, now)
        BY <1>7, <3>4
      <3>5. QED
        BY <1>11, <2>2, <3>1, <3>2, <3>3, <3>4 DEF RunnerStep
    <2>3. QED
      BY <1>8, <1>12, <2>1, <2>2 DEF Next, Keeps
  <1>14. QED
    BY <1>13 DEF Keeps

\* A second enqueue under a key finds the first record as long as it is retained: no
\* claim, completion, cancellation, recovery or purge leaves two records of one key.
THEOREM IdempotentEnqueue == Spec => []KeyNamesOneJob
  <1>1. Init => KeyNamesOneJob
    BY DEF Init, KeyNamesOneJob, Present, Absent
  <1>2. TypeOK /\ KeyNamesOneJob /\ [Next]_vars => KeyNamesOneJob'
    <2> SUFFICES ASSUME TypeOK, KeyNamesOneJob, [Next]_vars
                 PROVE  KeyNamesOneJob'
      OBVIOUS
    <2>1. CASE Added
      BY <2>1 DEF Added, KeyNamesOneJob, Present
    <2>2. CASE \A i \in Job : KeepsKey(records[i], records'[i])
      BY <2>2 DEF KeepsKey, KeyNamesOneJob, Present
    <2>3. QED
      BY <2>1, <2>2, RegistryStep
  <1>3. QED
    BY <1>1, <1>2, TypeCorrect, PTL DEF Spec

\* The capacity that enqueue checks is a bound on the registry for ever.
WithinCapacity == Cardinality(Present) <= MaximumRecords

\* The queue never holds more than MaximumRecords: records come only from enqueue,
\* and no retry, recovery or cancellation brings one back that was purged.
THEOREM QueueIsBounded == Spec => []WithinCapacity
  <1>0. IsFiniteSet(Present) /\ IsFiniteSet(Present')
    <2>1. Present \subseteq Job /\ Present' \subseteq Job
      BY DEF Present
    <2>2. QED
      BY <2>1, FS_Subset, JobAssumption
  <1>1. Init => WithinCapacity
    <2>1. Init => Present = {}
      BY DEF Init, Present, Absent
    <2>2. QED
      BY <2>1, FS_EmptySet, JobAssumption DEF WithinCapacity
  <1>2. TypeOK /\ WithinCapacity /\ [Next]_vars => WithinCapacity'
    <2> SUFFICES ASSUME TypeOK, WithinCapacity, [Next]_vars
                 PROVE  WithinCapacity'
      OBVIOUS
    <2>1. /\ Cardinality(Present) \in Nat /\ Cardinality(Present') \in Nat
          /\ MaximumRecords \in Nat
      BY <1>0, FS_CardinalityType, JobAssumption
    <2>2. CASE Added
      <3>1. PICK j \in Job :
               /\ Cardinality(Present) < MaximumRecords
               /\ \A i \in Job \ {j} : records'[i] = records[i]
        BY <2>2 DEF Added
      <3>2. Present' \subseteq Present \cup {j}
        BY <3>1 DEF Present
      <3>3. /\ IsFiniteSet(Present \cup {j})
            /\ Cardinality(Present \cup {j}) <= Cardinality(Present) + 1
            /\ Cardinality(Present \cup {j}) \in Nat
        <4>1. /\ IsFiniteSet(Present \cup {j})
              /\ \/ Cardinality(Present \cup {j}) = Cardinality(Present)
                 \/ Cardinality(Present \cup {j}) = Cardinality(Present) + 1
          BY <1>0, FS_AddElement
        <4>2. QED
          BY <2>1, <4>1
      <3>4. Cardinality(Present') <= Cardinality(Present \cup {j})
        BY <3>2, <3>3, FS_Subset
      <3>5. QED
        BY <2>1, <3>1, <3>3, <3>4 DEF WithinCapacity
    <2>3. CASE \A i \in Job : KeepsKey(records[i], records'[i])
      <3>1. Present' \subseteq Present
        BY <2>3 DEF KeepsKey, Present
      <3>2. Cardinality(Present') <= Cardinality(Present)
        BY <1>0, <3>1, FS_Subset
      <3>3. QED
        BY <2>1, <3>2 DEF WithinCapacity
    <2>4. QED
      BY <2>2, <2>3, RegistryStep
  <1>3. QED
    BY <1>1, <1>2, TypeCorrect, PTL DEF Spec
===============================================================================
