---------------------------- MODULE RemoteEnrollment ----------------------------
(***************************************************************************)
(* How a browser enrols the admin's passkey over the activate-only surface *)
(* and signs in with it: pairing.py, passkeys.py and the routes they mount,*)
(* on top of the Remote Control record and its gateway (RemoteControl).    *)
(*                                                                         *)
(* The pairing file, the passkey file and the record each have a lock of   *)
(* their own.  A request takes them one after the other, hashes the code   *)
(* or waits for its body in between, and may die there.                    *)
(*                                                                         *)
(* Codes and challenges are numbered as they are issued; an enrolment      *)
(* session's token is the client and the code it was given for.  Clocks    *)
(* are left out: a code, a lease, a session or a challenge expires at any  *)
(* time, and a challenge that has expired is removed, which the code does  *)
(* at its next write.  Host and origin headers match the host a client     *)
(* addresses.  The session a sign-in creates is in module Sessions.        *)
(***************************************************************************)
EXTENDS RemoteControl

CONSTANTS
    Client, Admin,
    MaxFailed,          \* MAX_FAILED_ATTEMPTS
    MaxPending,         \* MAX_PENDING_CHALLENGES
    MaxCodes,           \* bound: pairing codes issued
    MaxChallenges       \* bound: challenges issued

ASSUME EnrollmentAssumption ==
    /\ None \notin Admin
    /\ MaxFailed \in Nat \ {0} /\ MaxPending \in Nat \ {0}
    /\ MaxCodes \in Nat /\ MaxChallenges \in Nat

VARIABLES
    pairing,            \* the pairing file, None when there is none
    passkeys,           \* the passkey file
    client,             \* the request each client has under way
    cookie,             \* the enrolment session each client holds
    issuing,            \* the host for which a code is being issued
    codes, challenges,  \* how many were issued
    wrong, granted,     \* history: failures and sessions of each code
    spent,              \* history: how often each challenge was accepted
    verified            \* history: hosts with a verified registration

counters == <<codes, challenges>>
history == <<wrong, granted, spent, verified>>
vars == <<remoteVars, pairing, passkeys, client, cookie, issuing, counters, history>>

Token == Client \X (1 .. MaxCodes)
Pairing == [host: Host, code: 0 .. MaxCodes, expired: BOOLEAN, failed: Nat,
            inFlight: Nat, leased: BOOLEAN, locked: BOOLEAN,
            session: Token \cup {None}, live: BOOLEAN]

NoPasskeys == [rp |-> None, user |-> None, pending |-> {}]
Idle == [pc |-> "idle"]

Init ==
    /\ RemoteInit
    /\ pairing = None /\ passkeys = NoPasskeys
    /\ client = [r \in Client |-> Idle]
    /\ cookie = [r \in Client |-> None]
    /\ issuing = None
    /\ codes = 0 /\ challenges = 0
    /\ wrong = [c \in 1 .. MaxCodes |-> 0] /\ granted = wrong
    /\ spent = [c \in 1 .. MaxChallenges |-> 0]
    /\ verified = {}

\* _enrollment_control_hostname and _require_enrollment_surface for a request
\* that addresses host h.
EnrollmentSurface(h) ==
    /\ remote.status = "enrollment_pending"
    /\ remote.intent.host = h

EnabledSurface(h) ==
    /\ remote.status = "enabled" /\ Enrolled(remote)
    /\ remote.intent.host = h

To(r, step) == client' = [client EXCEPT ![r] = step]
Done(r) == To(r, Idle)
At(r, pc) == client[r].pc = pc

-----------------------------------------------------------------------------
(* Pairing codes.                                                          *)

\* plaik remote pairing reads the record ...
BeginIssue(h) ==
    /\ issuing = None /\ codes < MaxCodes
    /\ EnrollmentSurface(h)
    /\ issuing' = h
    /\ UNCHANGED <<remoteVars, pairing, passkeys, client, cookie, counters, history>>

\* ... hashes a fresh code, and replaces whatever the file holds.
Issue ==
    /\ issuing # None
    /\ codes' = codes + 1
    /\ pairing' = [host |-> issuing, code |-> codes + 1, expired |-> FALSE,
                   failed |-> 0, inFlight |-> 0, leased |-> FALSE,
                   locked |-> FALSE, session |-> None, live |-> FALSE]
    /\ issuing' = None
    /\ UNCHANGED <<remoteVars, passkeys, client, cookie, challenges, history>>

\* _effective_in_flight, and the reset of slots whose lease has run out.
Unleased(p) == IF p # None /\ p.inFlight > 0 /\ ~p.leased
               THEN [p EXCEPT !.inFlight = 0]
               ELSE p

\* _live_code_verifier
LiveCode(p, h) == p # None /\ p.host = h /\ p.session = None /\ ~p.locked
                  /\ ~p.expired /\ p.code # 0

\* Mutant: only the host is compared once the code has been hashed.
SameHostCode(p, h, code) == p # None /\ p.host = h

\* _same_live_code_verifier
SameLiveCode(p, h, code) == LiveCode(p, h) /\ p.code = code

\* _release_inflight_unlocked
Released(p, code) ==
    IF p # None /\ p.code = code /\ p.inFlight > 0
    THEN [p EXCEPT !.inFlight = @ - 1, !.leased = @ /\ p.inFlight > 1]
    ELSE p

\* _register_failure_unlocked
AfterFailure(p) ==
    LET locks == p.failed + 1 >= MaxFailed
        slots == IF locks \/ p.inFlight = 0 THEN 0 ELSE p.inFlight - 1
    IN [p EXCEPT !.code = IF locks THEN 0 ELSE @, !.failed = @ + 1,
                 !.inFlight = slots, !.leased = @ /\ slots > 0, !.locked = locks]

\* consume, first part: a slot is taken under the lock before the code is hashed.
ConsumeReserve(r, h) ==
    LET p == Unleased(pairing)
    IN /\ At(r, "idle") /\ EnrollmentSurface(h)
       /\ IF LiveCode(p, h) /\ p.failed + p.inFlight < MaxFailed
          THEN /\ pairing' = [p EXCEPT !.inFlight = @ + 1, !.leased = TRUE]
               /\ To(r, [pc |-> "hashing", host |-> h, code |-> p.code])
          ELSE pairing' = p /\ UNCHANGED client
       /\ UNCHANGED <<remoteVars, passkeys, cookie, issuing, counters, history>>

\* A code that is not even well formed: _fail_if_same_verifier, with the time of
\* the first part, so that the code counts as not yet expired.
ConsumeMalformed(r) ==
    LET me == client[r]
        then == IF pairing = None THEN None ELSE [pairing EXCEPT !.expired = FALSE]
        counts == SameLiveCode(then, me.host, me.code)
    IN /\ At(r, "hashing")
       /\ pairing' = IF counts THEN AfterFailure(pairing) ELSE Released(pairing, me.code)
       /\ wrong' = IF counts THEN [wrong EXCEPT ![me.code] = @ + 1] ELSE wrong
       /\ Done(r)
       /\ UNCHANGED <<remoteVars, passkeys, cookie, issuing, counters, granted,
                      spent, verified>>

\* consume, second part, for a wrong code.
ConsumeWrong(r) ==
    LET me == client[r]
        counts == EnrollmentSurface(me.host) /\ SameLiveCode(pairing, me.host, me.code)
    IN /\ At(r, "hashing")
       /\ pairing' = IF counts THEN AfterFailure(pairing) ELSE Released(pairing, me.code)
       /\ wrong' = IF counts THEN [wrong EXCEPT ![me.code] = @ + 1] ELSE wrong
       /\ Done(r)
       /\ UNCHANGED <<remoteVars, passkeys, cookie, issuing, counters, granted,
                      spent, verified>>

\* ... and for the right one: the code makes way for an enrolment session.
ConsumeRight(r) ==
    LET me == client[r]
    IN /\ At(r, "hashing")
       /\ IF EnrollmentSurface(me.host) /\ SameLiveCode(pairing, me.host, me.code)
          THEN /\ pairing' = [pairing EXCEPT !.code = 0, !.inFlight = 0, !.leased = FALSE,
                                             !.session = <<r, me.code>>, !.live = TRUE]
               /\ cookie' = [cookie EXCEPT ![r] = <<r, me.code>>]
               /\ granted' = [granted EXCEPT ![me.code] = @ + 1]
          ELSE /\ pairing' = Released(pairing, me.code)
               /\ UNCHANGED <<cookie, granted>>
       /\ Done(r)
       /\ UNCHANGED <<remoteVars, passkeys, issuing, counters, wrong, spent, verified>>

\* Hashing or the store fails: the finally clause gives the slot back.
ConsumeAbandoned(r) ==
    /\ At(r, "hashing")
    /\ pairing' = Released(pairing, client[r].code)
    /\ Done(r)
    /\ UNCHANGED <<remoteVars, passkeys, cookie, issuing, counters, history>>

\* enrollment_session_valid
SessionValid(token) ==
    /\ remote.status = "enrollment_pending" /\ token # None
    /\ pairing # None
    /\ pairing.session = token /\ pairing.live
    /\ pairing.host = remote.intent.host

\* destroy_after_passkey
Destroyed(p, h, token) ==
    IF p # None /\ p.session = token /\ p.host = h THEN None ELSE p

\* The clock passes an expiry of the pairing file.
PairingExpires ==
    /\ pairing # None
    /\ \/ ~pairing.expired /\ pairing' = [pairing EXCEPT !.expired = TRUE]
       \/ pairing.leased /\ pairing' = [pairing EXCEPT !.leased = FALSE]
       \/ pairing.live /\ pairing' = [pairing EXCEPT !.live = FALSE]
    /\ UNCHANGED <<remoteVars, passkeys, client, cookie, issuing, counters, history>>

-----------------------------------------------------------------------------
(* Passkeys.                                                               *)

Challenge(purpose) == [id |-> challenges + 1, purpose |-> purpose]

\* _with_pending: a record with one more challenge.
CanAdd(record) == Cardinality(record.pending) < MaxPending /\ challenges < MaxChallenges
WithPending(record, purpose) ==
    [record EXCEPT !.pending = @ \cup {Challenge(purpose)}]

\* _live_challenges
LiveChallenges(rp, purpose) ==
    {c \in passkeys.pending: passkeys.rp = rp /\ c.purpose = purpose}

\* _matching_credential
Matching(rp, user) == passkeys.rp = rp /\ passkeys.user = user

Accepted(c) == spent' = [spent EXCEPT ![c.id] = @ + 1]

\* passkey_options checks the surface and the session ...
Options(r, h) ==
    /\ At(r, "idle") /\ EnrollmentSurface(h) /\ SessionValid(cookie[r])
    /\ To(r, [pc |-> "options", host |-> h])
    /\ UNCHANGED <<remoteVars, pairing, passkeys, cookie, issuing, counters, history>>

\* ... and begin_registration forgets what is stored for another host.
BeginRegistration(r) ==
    LET h == client[r].host
        current == IF passkeys.rp = h THEN passkeys ELSE [NoPasskeys EXCEPT !.rp = h]
    IN /\ At(r, "options") /\ CanAdd(current)
       /\ passkeys' = WithPending(current, "register")
       /\ challenges' = challenges + 1
       /\ Done(r)
       /\ UNCHANGED <<remoteVars, pairing, cookie, issuing, codes, history>>

\* passkey_register checks the surface and the session, picks the admin, and
\* waits for the body.
Register(r, h, user) ==
    /\ At(r, "idle") /\ EnrollmentSurface(h) /\ SessionValid(cookie[r])
    /\ To(r, [pc |-> "register", host |-> h, token |-> cookie[r], user |-> user])
    /\ UNCHANGED <<remoteVars, pairing, passkeys, cookie, issuing, counters, history>>

\* Mutant: a response that answers no live challenge is not rejected.
CompleteUnverified(r) ==
    /\ At(r, "register")
    /\ To(r, [client[r] EXCEPT !.pc = "enroll"])
    /\ UNCHANGED <<remoteVars, pairing, passkeys, cookie, issuing, counters, history>>

\* complete_registration: a credential that is stored is returned as it is.
CompleteRegistration(r) ==
    LET me == client[r]
    IN /\ At(r, "register")
       /\ IF Matching(me.host, me.user)
          THEN UNCHANGED <<passkeys, spent, verified>>
          ELSE \E c \in LiveChallenges(me.host, "register"):
                 /\ passkeys' = [rp |-> me.host, user |-> me.user,
                                 pending |-> passkeys.pending \ {c}]
                 /\ Accepted(c)
                 /\ verified' = verified \cup {me.host}
       /\ To(r, [me EXCEPT !.pc = "enroll"])
       /\ UNCHANGED <<remoteVars, pairing, cookie, issuing, counters, wrong, granted>>

\* record_admin_passkey_enrolled; when it is refused the record is read again.
Enroll(r) ==
    LET me == client[r]
    IN /\ At(r, "enroll")
       /\ IF CanEnroll(me.host)
          THEN RecordEnrolled(me.host) /\ To(r, [me EXCEPT !.pc = "destroy"])
          ELSE UNCHANGED remote /\ To(r, [me EXCEPT !.pc = "refused"])
       /\ UNCHANGED <<gateway, operations, pairing, passkeys, cookie, issuing,
                      counters, history>>

EnrollRefused(r) ==
    LET me == client[r]
    IN /\ At(r, "refused")
       /\ IF remote.status \in {"publication_pending", "enabled"} /\ remote.rp = me.host
          THEN To(r, [me EXCEPT !.pc = "destroy"])
          ELSE Done(r)
       /\ UNCHANGED <<remoteVars, pairing, passkeys, cookie, issuing, counters, history>>

\* The enrolment session is destroyed and its cookie deleted.
Destroy(r) ==
    /\ At(r, "destroy")
    /\ pairing' = Destroyed(pairing, client[r].host, client[r].token)
    /\ cookie' = [cookie EXCEPT ![r] = None]
    /\ Done(r)
    /\ UNCHANGED <<remoteVars, passkeys, issuing, counters, history>>

\* passkey_auth_options and begin_authentication.
AuthOptions(r, h) ==
    /\ At(r, "idle") /\ EnabledSurface(h)
    /\ To(r, [pc |-> "auth_options", host |-> h])
    /\ UNCHANGED <<remoteVars, pairing, passkeys, cookie, issuing, counters, history>>

BeginAuthentication(r) ==
    /\ At(r, "auth_options")
    /\ IF passkeys.rp = client[r].host /\ passkeys.user # None
       THEN /\ CanAdd(passkeys)
            /\ passkeys' = WithPending(passkeys, "authenticate")
            /\ challenges' = challenges + 1
       ELSE UNCHANGED <<passkeys, challenges>>
    /\ Done(r)
    /\ UNCHANGED <<remoteVars, pairing, cookie, issuing, codes, history>>

\* passkey_auth checks the surface, waits for the body, and completes.
Auth(r, h) ==
    /\ At(r, "idle") /\ EnabledSurface(h)
    /\ To(r, [pc |-> "auth", host |-> h])
    /\ UNCHANGED <<remoteVars, pairing, passkeys, cookie, issuing, counters, history>>

CompleteAuthentication(r) ==
    /\ At(r, "auth") /\ passkeys.user # None
    /\ \E c \in LiveChallenges(client[r].host, "authenticate"):
          /\ passkeys' = [passkeys EXCEPT !.pending = @ \ {c}]
          /\ Accepted(c)
    /\ Done(r)
    /\ UNCHANGED <<remoteVars, pairing, cookie, issuing, counters, wrong, granted, verified>>

\* A request is rejected, its client goes away, or the process dies under it:
\* what it did so far stays, a slot it holds among it.
Abort(r) ==
    /\ ~At(r, "idle")
    /\ Done(r)
    /\ UNCHANGED <<remoteVars, pairing, passkeys, cookie, issuing, counters, history>>

ChallengeExpires ==
    /\ \E c \in passkeys.pending: passkeys' = [passkeys EXCEPT !.pending = @ \ {c}]
    /\ UNCHANGED <<remoteVars, pairing, client, cookie, issuing, counters, history>>

-----------------------------------------------------------------------------
Enrollment(r) ==
    \/ \E h \in Host: ConsumeReserve(r, h)
    \/ ConsumeMalformed(r)
    \/ ConsumeWrong(r)
    \/ ConsumeRight(r)
    \/ ConsumeAbandoned(r)
    \/ \E h \in Host: Options(r, h)
    \/ BeginRegistration(r)
    \/ \E h \in Host, user \in Admin: Register(r, h, user)
    \/ CompleteRegistration(r)
    \/ Enroll(r)
    \/ EnrollRefused(r)
    \/ Destroy(r)
    \/ \E h \in Host: AuthOptions(r, h)
    \/ BeginAuthentication(r)
    \/ \E h \in Host: Auth(r, h)
    \/ CompleteAuthentication(r)
    \/ Abort(r)

Next ==
    \/ (Operator \/ Transaction)
       /\ UNCHANGED <<pairing, passkeys, client, cookie, issuing, counters, history>>
    \/ \E h \in Host: BeginIssue(h)
    \/ Issue
    \/ PairingExpires
    \/ ChallengeExpires
    \/ \E r \in Client: Enrollment(r)

Spec == Init /\ [][Next]_vars

-----------------------------------------------------------------------------
(* Properties.                                                             *)

\* However requests overlap, lose their lease or die: a pairing code opens one
\* enrolment session, is given up after MaxFailed wrong answers, and a passkey
\* challenge is accepted once (consume, _register_failure_unlocked,
\* _prune_pending).
SpentOnce ==
    /\ \A c \in DOMAIN granted: granted[c] <= 1 /\ wrong[c] <= MaxFailed
    /\ \A c \in DOMAIN spent: spent[c] <= 1

\* No Control Center is recorded as enrolled, and none is open at the gateway,
\* for a host whose registration was never verified: whatever the operator
\* changed while the enrolment or the publication was under way.
OpenWasVerified ==
    /\ remote.rp # None => remote.rp \in verified
    /\ \A h \in Host: Opens(running, h) \/ Opens(disk, h) => h \in verified

\* What the transaction writes in the record is true of what nginx runs: ENABLED
\* when the host's Control Center is open, ERROR when everything is closed
\* (docstring of https_gateway.py).
RecordFollowsGateway ==
    [][ tx' # tx /\ remote' # remote =>
          \/ remote'.status = "enabled" /\ Opens(running, remote.intent.host)
          \/ remote'.status = "error" /\ Inspect(running) = "closed" ]_vars

\* "publication_pending requires an admin passkey enrolled for the exact
\* control_hostname RP ID" (validate_observed_invariants), and so does enabled:
\* the passkey file holds a credential for the host.
EnrolledHasCredential ==
    remote.status \in {"publication_pending", "enabled"} =>
        passkeys.rp = remote.intent.host /\ passkeys.user # None
================================================================================
