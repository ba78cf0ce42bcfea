-------------------------------- MODULE Sessions --------------------------------
(***************************************************************************)
(* Identities and sessions (identity.py, and on PostgreSQL                 *)
(* postgresql_security.py, which has the same operations), and the HTTP    *)
(* login that issues, rotates and revokes sessions (http_auth.py) under a  *)
(* rate limit per peer.                                                    *)
(*                                                                         *)
(* The identity store and the session store each have a lock (a file lock, *)
(* or an advisory lock): an operation under it is one action, and what a   *)
(* handler reads outside it may be stale when it is used.  Logins run on   *)
(* the event loop, which a login keeps from the end of its body to its     *)
(* answer; logout and session rotation run on threads.                     *)
(*                                                                         *)
(* A browser has one request at a time, from any address (peer); its       *)
(* cookie is the number of a session.  Clocks are left out: a session, a   *)
(* failure window or a block ends at any time.  A block outlasts the       *)
(* window of the failures that caused it (300 s and 60 s).                 *)
(***************************************************************************)
EXTENDS Naturals, FiniteSets, Sequences, SequencesExt

CONSTANTS
    User, Browser, Peer, None,
    MaximumFailures,    \* maximum_failures of the limiter
    MaximumClients,     \* maximum_clients of the limiter
    CleanupBatch,       \* cleanup_batch_size of the session store
    MaxSessions,        \* bound: sessions ever created
    MaxChanges          \* bound: changes of the identities

ASSUME SessionsAssumption ==
    /\ None \notin Browser /\ IsFiniteSet(Browser)
    /\ MaximumFailures \in Nat \ {0} /\ MaximumClients \in Nat \ {0}
    /\ CleanupBatch \in Nat \ {0}
    /\ MaxSessions \in Nat /\ MaxChanges \in Nat

VARIABLES
    users,              \* [active, roles] of each identity that exists
    editor,             \* does a role "editor" exist
    sessions,           \* the stored session records
    lastSession,        \* sessions created so far
    ends,               \* stamps for ended sessions
    order,              \* the limiter's entries, least recently used first
    failures, blocked,  \* of each entry
    request, cookie,    \* of each browser
    loop,               \* the browser whose login has the event loop
    audited,            \* sessions whose login or rotation is in the audit log
    lost,               \* history: sessions whose token reached no browser
    changes,
    guesses             \* history: failures of a peer since its entry was new

identities == <<users, editor, changes>>
store == <<sessions, lastSession, ends>>
limiter == <<order, failures, blocked, guesses>>
log == <<audited, lost>>
vars == <<identities, store, limiter, request, cookie, loop, log>>

Role == {"super-admin", "editor"}
Idle == [pc |-> "idle"]

Init ==
    /\ users = <<>> /\ editor = FALSE /\ changes = 0
    /\ sessions = <<>> /\ lastSession = 0 /\ ends = 0
    /\ order = <<>> /\ guesses = [p \in Peer |-> 0]
    /\ failures = [p \in Peer |-> 0] /\ blocked = [p \in Peer |-> FALSE]
    /\ request = [b \in Browser |-> Idle] /\ cookie = [b \in Browser |-> 0]
    /\ loop = None /\ audited = {} /\ lost = {}

Put(f, k, v) == [x \in DOMAIN f \cup {k} |-> IF x = k THEN v ELSE f[x]]

-----------------------------------------------------------------------------
(* Identities.                                                             *)

ActiveSuperAdmins(us) == {u \in DOMAIN us: us[u].active /\ "super-admin" \in us[u].roles}

Exists(u) == u \in DOMAIN users
IsActive(u) == Exists(u) /\ users[u].active
KnownRoles == {"super-admin"} \cup {r \in {"editor"}: editor}

Change(us, e) ==
    /\ changes < MaxChanges
    /\ changes' = changes + 1
    /\ users' = us /\ editor' = e
    /\ UNCHANGED <<store, limiter, request, cookie, loop, log>>

DefineRole == Change(users, TRUE)

CreateFirstSuperAdmin(u) ==
    /\ DOMAIN users = {}
    /\ Change(Put(users, u, [active |-> TRUE, roles |-> {"super-admin"}]), editor)

CreateUser(u, roles) ==
    /\ ActiveSuperAdmins(users) # {}
    /\ roles \subseteq KnownRoles /\ ~Exists(u)
    /\ Change(Put(users, u, [active |-> TRUE, roles |-> roles]), editor)

\* Mutant: the identities are checked before the change.
KeepsBefore(us) == ActiveSuperAdmins(users) # {}

\* _require_active_super_admin, of the identities as they would be.
Keeps(us) == ActiveSuperAdmins(us) # {}

SetRoles(u, roles) ==
    LET updated == [users EXCEPT ![u].roles = roles]
    IN /\ Exists(u) /\ roles \subseteq KnownRoles
       /\ Keeps(updated)
       /\ Change(updated, editor)

SetActive(u, active) ==
    LET updated == [users EXCEPT ![u].active = active]
    IN /\ Exists(u)
       /\ Keeps(updated)
       /\ Change(updated, editor)

Administer ==
    \/ DefineRole
    \/ \E u \in User: CreateFirstSuperAdmin(u)
    \/ \E u \in User, roles \in SUBSET Role: CreateUser(u, roles) \/ SetRoles(u, roles)
    \/ \E u \in User, active \in BOOLEAN: SetActive(u, active)

-----------------------------------------------------------------------------
(* The session store.                                                      *)

Live(s) == s \in DOMAIN sessions /\ sessions[s].ended = 0

\* validate: the record, then its owner.
Valid(s) == Live(s) /\ IsActive(sessions[s].user)

\* _purge_records: the CleanupBatch records that ended first go.
Purged(ss) ==
    LET ended == {s \in DOMAIN ss: ss[s].ended # 0}
        older(s) == {t \in ended: ss[t].ended < ss[s].ended}
        gone == {s \in ended: Cardinality(older(s)) < CleanupBatch}
    IN [s \in DOMAIN ss \ gone |-> ss[s]]

\* The part of create under the lock; the owner was checked before.
CanInsert == lastSession < MaxSessions
Insert(u) ==
    /\ sessions' = Put(Purged(sessions), lastSession + 1, [user |-> u, ended |-> 0])
    /\ lastSession' = lastSession + 1
    /\ UNCHANGED ends

End(ss) ==
    /\ sessions' = [s \in DOMAIN sessions |->
                      IF s \in ss /\ sessions[s].ended = 0
                      THEN [sessions[s] EXCEPT !.ended = ends + 1]
                      ELSE sessions[s]]
    /\ ends' = ends + 1
    /\ UNCHANGED lastSession

\* revoke; a session that does not exist is an error the caller handles.
Revoke(s) == IF Live(s) THEN End({s}) ELSE UNCHANGED store

RevokeUser(u) ==
    LET own == {s \in DOMAIN sessions: sessions[s].user = u /\ Live(s)}
    IN /\ own # {}
       /\ End(own)
       /\ UNCHANGED <<identities, limiter, request, cookie, loop, log>>

PurgeTerminal ==
    /\ sessions # Purged(sessions)
    /\ sessions' = Purged(sessions)
    /\ UNCHANGED <<lastSession, ends, identities, limiter, request, cookie, loop, log>>

SessionExpires(s) ==
    /\ Live(s)
    /\ End({s})
    /\ UNCHANGED <<identities, limiter, request, cookie, loop, log>>

-----------------------------------------------------------------------------
(* The rate limiter.                                                       *)

Known(p) == p \in Range(order)
Touched(p) == Append(RemoveFirst(order, p), p)

\* The entry of a new peer takes the place of the least recently used one.
Evicted(p) == IF Known(p) \/ Len(order) < MaximumClients THEN order ELSE Tail(order)

RecordFailure(p) ==
    LET kept == Evicted(p)
        fresh(q) == q # p /\ q \notin Range(kept)
        count == IF Known(p) THEN failures[p] + 1 ELSE 1
    IN /\ order' = Append(RemoveFirst(kept, p), p)
       /\ failures' = [q \in Peer |->
                         IF q = p THEN IF count > MaximumFailures
                                       THEN MaximumFailures ELSE count
                         ELSE IF fresh(q) THEN 0 ELSE failures[q]]
       /\ blocked' = [q \in Peer |->
                         IF q = p THEN blocked[p] \/ count >= MaximumFailures
                         ELSE blocked[q] /\ ~fresh(q)]
       /\ guesses' = [q \in Peer |->
                         IF q = p THEN guesses[p] + 1
                         ELSE IF fresh(q) THEN 0 ELSE guesses[q]]

Forgotten(p) ==
    /\ order' = RemoveFirst(order, p)
    /\ guesses' = [guesses EXCEPT ![p] = 0]

\* check: what it does to the entry of a peer it lets pass.
Checked(p) ==
    /\ ~blocked[p]
    /\ IF Known(p) /\ failures[p] = 0
       THEN Forgotten(p)
       ELSE UNCHANGED <<order, guesses>>
    /\ UNCHANGED <<failures, blocked>>

RateLimited(p) ==
    /\ blocked[p]
    /\ order' = Touched(p)
    /\ UNCHANGED <<failures, blocked, guesses>>

\* Mutant: a success clears the entry of the peer.
ForgivingSuccess(p) ==
    /\ order' = RemoveFirst(order, p)
    /\ failures' = [failures EXCEPT ![p] = 0]
    /\ UNCHANGED <<blocked, guesses>>

\* record_success forgives nothing that is recent.
RecordSuccess(p) ==
    /\ IF ~Known(p) THEN UNCHANGED <<order, guesses>>
       ELSE IF failures[p] = 0 /\ ~blocked[p] THEN Forgotten(p)
       ELSE order' = Touched(p) /\ UNCHANGED guesses
    /\ UNCHANGED <<failures, blocked>>

\* The failures of a peer leave the window; later its block ends.
WindowPasses(p) ==
    /\ \/ failures[p] > 0 /\ failures' = [failures EXCEPT ![p] = 0] /\ UNCHANGED blocked
       \/ failures[p] = 0 /\ blocked[p] /\ blocked' = [blocked EXCEPT ![p] = FALSE]
          /\ UNCHANGED failures
    /\ guesses' = [guesses EXCEPT ![p] = 0]
    /\ UNCHANGED <<identities, store, order, request, cookie, loop, log>>

-----------------------------------------------------------------------------
(* The login.                                                              *)

At(b, pc) == request[b].pc = pc
To(b, step) == request' = [request EXCEPT ![b] = step]
Done(b) == To(b, Idle) /\ loop' = IF loop = b THEN None ELSE loop

\* A login that is not let through: the peer is blocked.
LoginLimited(b, p) ==
    /\ At(b, "idle") /\ loop = None
    /\ RateLimited(p)
    /\ UNCHANGED <<identities, store, request, cookie, loop, log>>

\* The limit is checked before the body is awaited ...
LoginBegin(b, p) ==
    /\ At(b, "idle") /\ loop = None
    /\ Checked(p)
    /\ To(b, [pc |-> "body", peer |-> p])
    /\ UNCHANGED <<identities, store, cookie, loop, log>>

\* ... and a failure (of the CSRF token, the body or the password) is recorded
\* after it.
LoginFails(b) ==
    /\ At(b, "body") /\ loop = None
    /\ RecordFailure(request[b].peer)
    /\ To(b, Idle)
    /\ UNCHANGED <<identities, store, cookie, loop, log>>

\* The right password of an active user.
Authenticate(b, u) ==
    /\ At(b, "body") /\ loop = None
    /\ IsActive(u)
    /\ To(b, [pc |-> "revoke", user |-> u, peer |-> request[b].peer]) /\ loop' = b
    /\ UNCHANGED <<identities, store, limiter, cookie, log>>

\* The session the browser came with is revoked; then create checks the user.
RevokePrevious(b) ==
    /\ At(b, "revoke")
    /\ IF Valid(cookie[b]) THEN Revoke(cookie[b]) ELSE UNCHANGED store
    /\ To(b, [request[b] EXCEPT !.pc = "create"])
    /\ UNCHANGED <<identities, limiter, cookie, loop, log>>

CheckOwner(b) ==
    /\ At(b, "create")
    /\ IF IsActive(request[b].user)
       THEN To(b, [request[b] EXCEPT !.pc = "insert"]) /\ UNCHANGED loop
       ELSE Done(b)
    /\ UNCHANGED <<identities, store, limiter, cookie, log>>

InsertSession(b) ==
    /\ At(b, "insert") /\ CanInsert
    /\ Insert(request[b].user)
    /\ To(b, [pc |-> "audit", peer |-> request[b].peer, session |-> lastSession + 1])
    /\ UNCHANGED <<identities, limiter, cookie, loop, log>>

\* The audit event is written, the success noted and the cookie set ...
AuditLogin(b) ==
    /\ At(b, "audit")
    /\ audited' = audited \cup {request[b].session}
    /\ IF loop = b THEN RecordSuccess(request[b].peer) ELSE UNCHANGED limiter
    /\ cookie' = [cookie EXCEPT ![b] = request[b].session]
    /\ Done(b)
    /\ UNCHANGED <<identities, store, lost>>

\* Mutant: the failure is reported and the session left.
AuditFailsUnrevoked(b) ==
    /\ At(b, "audit")
    /\ Done(b)
    /\ UNCHANGED <<identities, store, limiter, cookie, log>>

\* ... or the audit log is unavailable, and the session is revoked, if the
\* session store is available (_revoke_after_failed_issue).
AuditFails(b) ==
    /\ At(b, "audit")
    /\ \/ Revoke(request[b].session) /\ UNCHANGED lost
       \/ UNCHANGED store /\ lost' = lost \cup {request[b].session}
    /\ Done(b)
    /\ UNCHANGED <<identities, limiter, cookie, audited>>

\* rotate_session: the current session is revoked and another created.  It runs
\* on a thread, so the event loop stays free.
Rotate(b) ==
    /\ At(b, "idle") /\ Valid(cookie[b])
    /\ To(b, [pc |-> "rotate", user |-> sessions[cookie[b]].user, peer |-> None])
    /\ UNCHANGED <<identities, store, limiter, cookie, loop, log>>

RevokeRotated(b) ==
    /\ At(b, "rotate")
    /\ IF cookie[b] \in DOMAIN sessions
       THEN Revoke(cookie[b]) /\ To(b, [request[b] EXCEPT !.pc = "create"])
       ELSE Done(b) /\ UNCHANGED store
    /\ UNCHANGED <<identities, limiter, cookie, log, loop>>

\* logout: validate, revoke, audit, and clear the cookie.
Logout(b) ==
    /\ At(b, "idle") /\ Valid(cookie[b])
    /\ To(b, [pc |-> "logout"])
    /\ UNCHANGED <<identities, store, limiter, cookie, loop, log>>

LogoutRevoke(b) ==
    /\ At(b, "logout")
    /\ Revoke(cookie[b])
    /\ cookie' = [cookie EXCEPT ![b] = 0]
    /\ Done(b)
    /\ UNCHANGED <<identities, limiter, log>>

\* The server dies: the stores and the cookies stay, the limiter is in memory.
Crash ==
    /\ \E b \in Browser: ~At(b, "idle")
    /\ request' = [b \in Browser |-> Idle] /\ loop' = None
    /\ lost' = lost \cup {request[b].session: b \in {x \in Browser: At(x, "audit")}}
    /\ order' = <<>> /\ guesses' = [p \in Peer |-> 0]
    /\ failures' = [p \in Peer |-> 0] /\ blocked' = [p \in Peer |-> FALSE]
    /\ UNCHANGED <<identities, store, cookie, audited>>

-----------------------------------------------------------------------------
Handler(b) ==
    \/ \E p \in Peer: LoginLimited(b, p) \/ LoginBegin(b, p)
    \/ LoginFails(b)
    \/ \E u \in User: Authenticate(b, u)
    \/ RevokePrevious(b)
    \/ CheckOwner(b)
    \/ InsertSession(b)
    \/ AuditLogin(b)
    \/ AuditFails(b)
    \/ Rotate(b)
    \/ RevokeRotated(b)
    \/ Logout(b)
    \/ LogoutRevoke(b)

Next ==
    \/ Administer
    \/ \E b \in Browser: Handler(b)
    \/ \E u \in User: RevokeUser(u)
    \/ PurgeTerminal
    \/ \E s \in DOMAIN sessions: SessionExpires(s)
    \/ \E p \in Peer: WindowPasses(p)
    \/ Crash

Spec == Init /\ [][Next]_vars

-----------------------------------------------------------------------------
(* Properties.                                                             *)

\* Once there are users one of them is an active super administrator, whatever
\* roles and accounts are changed in turn (set_roles, set_active).
AdminRemains == DOMAIN users # {} => ActiveSuperAdmins(users) # {}

\* A session that a login or a rotation created and that can be used is in the
\* audit log, or is still being issued, or its token reached nobody.
UsableIsAudited ==
    \A s \in DOMAIN sessions:
        Live(s) => \/ s \in audited \cup lost
                   \/ \E b \in Browser: At(b, "audit") /\ request[b].session = s

\* Concurrent logins of a peer pass the check before any of them has failed:
\* they, and no more, come on top of the maximum (check, record_failure).
GuessesBounded ==
    \A p \in Peer:
        guesses[p] <= MaximumFailures - 1 + Cardinality(Browser)
================================================================================
