----------------------------- MODULE SessionsProofs -----------------------------
(***************************************************************************)
(* Proofs about Sessions for every set of users, of browsers and of        *)
(* addresses, and every limit of the rate limiter and of the store.        *)
(***************************************************************************)
EXTENDS Sessions, SequenceTheorems, FiniteSetTheorems, WellFoundedInduction, TLAPS

(* The inductive invariant, in parts.                                      *)

Record == [user: User, ended: Nat]

Request ==
    [pc: {"idle", "logout"}]
    \cup [pc: {"body"}, peer: Peer]
    \cup [pc: {"revoke", "create", "insert", "rotate"}, user: User, peer: Peer \cup {None}]
    \cup [pc: {"audit"}, peer: Peer \cup {None}, session: Nat]

\* The stored records and the requests in progress.
StoreOK ==
    /\ lastSession \in Nat /\ ends \in Nat
    /\ DOMAIN sessions \subseteq 1..lastSession
    /\ \A s \in DOMAIN sessions: sessions[s] \in Record
    /\ request \in [Browser -> Request]

LimiterOK ==
    /\ order \in Seq(Peer)
    /\ failures \in [Peer -> Nat] /\ guesses \in [Peer -> Nat]
    /\ blocked \in [Peer -> BOOLEAN]

TypeOK == StoreOK /\ LimiterOK

\* A peer without an entry has no failures and no block.
NoEntryNoFailures ==
    \A p \in Peer: ~Known(p) => failures[p] = 0 /\ guesses[p] = 0 /\ ~blocked[p]

\* Until the block, every failure counts towards it.
CountedUntilBlocked ==
    \A p \in Peer: ~blocked[p] =>
        guesses[p] <= failures[p] /\ failures[p] < MaximumFailures

\* The browsers whose login of peer p has passed the check.
Passed(p) == {b \in Browser: At(b, "body") /\ request[b].peer = p}

\* After it, what may still fail has passed the check already.
PassedAreBounded ==
    \A p \in Peer: blocked[p] =>
        guesses[p] + Cardinality(Passed(p)) <= MaximumFailures - 1 + Cardinality(Browser)

EntriesOK == LimiterOK /\ NoEntryNoFailures /\ CountedUntilBlocked
Inv == StoreOK /\ UsableIsAudited /\ EntriesOK /\ PassedAreBounded

-----------------------------------------------------------------------------
(* The limiter's entries.                                                  *)

\* A set of naturals has a least member, so Min names one.
LEMMA MinIsMember ==
    ASSUME NEW I, I \subseteq Nat, I # {}
    PROVE  Min(I) \in I
<1>1. PICK x \in I: \A y \in I: <<y, x>> \notin OpToRel(<, Nat)
    BY NatLessThanWellFounded, WFMin
<1>2. \A y \in I: x =< y
    <2> SUFFICES ASSUME NEW y \in I, ~(x =< y)
                 PROVE  FALSE
        OBVIOUS
    <2>1. <<y, x>> \in Nat \X Nat /\ y < x
        OBVIOUS
    <2>2. <<y, x>> \in OpToRel(<, Nat)
        BY <2>1 DEF OpToRel
    <2> QED
        BY <1>1, <2>2
<1> QED
    BY <1>2 DEF Min

\* Removing an entry (OrderedDict.pop) leaves every other one in its place.
LEMMA RemoveFirstKeeps ==
    ASSUME NEW S, NEW s \in Seq(S), NEW e
    PROVE  /\ RemoveFirst(s, e) \in Seq(S)
           /\ \A x \in Range(s): x # e => x \in Range(RemoveFirst(s, e))
<1>1. CASE \E i \in 1..Len(s): s[i] = e
    <2> DEFINE I == {i \in 1..Len(s): s[i] = e}
               m == Min(I)
               l == SubSeq(s, 1, m - 1)
               r == SubSeq(s, m + 1, Len(s))
    <2>1. I # {} /\ I \subseteq Nat
        BY <1>1
    <2>2. m \in I
        BY <2>1, MinIsMember
    <2>3. RemoveFirst(s, e) = l \o r
        BY <1>1, <2>1 DEF RemoveFirst, RemoveAt, SelectInSeq
    <2> HIDE DEF m
    <2>4. /\ l \in Seq(S) /\ Len(l) = m - 1 /\ \A i \in 1..(m - 1): l[i] = s[i]
          /\ r \in Seq(S) /\ Len(r) = Len(s) - m /\ \A i \in 1..(Len(s) - m): r[i] = s[m + i]
        BY <2>2
    <2> HIDE DEF l, r
    <2>5. /\ l \o r \in Seq(S) /\ Len(l \o r) = Len(l) + Len(r)
          /\ \A i \in 1..Len(l): (l \o r)[i] = l[i]
          /\ \A i \in 1..Len(r): (l \o r)[Len(l) + i] = r[i]
        <3>1. l \o r \in Seq(S) /\ Len(l \o r) = Len(l) + Len(r)
            BY <2>4, ConcatProperties
        <3>2. \A i \in 1..Len(l) + Len(r):
                 (l \o r)[i] = IF i <= Len(l) THEN l[i] ELSE r[i - Len(l)]
            BY <2>4, ConcatProperties
        <3>3. Len(l) \in Nat /\ Len(r) \in Nat
            BY <2>4
        <3>4. ASSUME NEW i \in 1..Len(r)
              PROVE  (l \o r)[Len(l) + i] = r[i]
            <4>1. /\ Len(l) + i \in 1..Len(l) + Len(r)
                  /\ ~(Len(l) + i <= Len(l)) /\ Len(l) + i - Len(l) = i
                BY <3>3
            <4> QED
                BY <3>2, <4>1
        <3>5. ASSUME NEW i \in 1..Len(l)
              PROVE  (l \o r)[i] = l[i]
            BY <3>2, <3>3
        <3> QED
            BY <3>1, <3>4, <3>5
    <2>6. ASSUME NEW x \in Range(s), x # e
          PROVE  x \in Range(l \o r)
        <3>1. PICK i \in 1..Len(s): s[i] = x
            BY DEF Range
        <3>2. CASE i < m
            <4>1. i \in 1..Len(l \o r) /\ (l \o r)[i] = x
                BY <2>2, <2>4, <2>5, <3>1, <3>2
            <4> QED
                BY <2>5, <4>1 DEF Range
        <3>3. CASE i > m
            <4>1. i - m \in 1..Len(r) /\ r[i - m] = x
                BY <2>2, <2>4, <3>1, <3>3
            <4>2. Len(l) + (i - m) \in 1..Len(l \o r) /\ (l \o r)[Len(l) + (i - m)] = x
                BY <2>2, <2>4, <2>5, <4>1
            <4> QED
                BY <2>5, <4>2 DEF Range
        <3> QED
            BY <2>2, <2>6, <3>1, <3>2, <3>3
    <2> QED
        BY <2>3, <2>4, <2>6
<1>2. CASE ~\E i \in 1..Len(s): s[i] = e
    BY <1>2 DEF RemoveFirst
<1> QED
    BY <1>1, <1>2

-----------------------------------------------------------------------------
(* The identities.                                                         *)

\* No change of the identities (create_user, set_roles, set_active) leaves
\* users and no active super administrator among them.
LEMMA AdminStep == AdminRemains /\ [Next]_vars => AdminRemains'
<1> SUFFICES ASSUME AdminRemains, [Next]_vars PROVE AdminRemains'
    OBVIOUS
<1>1. ASSUME UNCHANGED users PROVE AdminRemains'
    BY <1>1 DEF AdminRemains, ActiveSuperAdmins
<1>2. CASE DefineRole
    BY <1>1, <1>2 DEF DefineRole, Change
<1>3. ASSUME NEW u \in User, CreateFirstSuperAdmin(u) PROVE AdminRemains'
    <2>1. users' = [x \in {u} |-> [active |-> TRUE, roles |-> {"super-admin"}]]
        BY <1>3 DEF CreateFirstSuperAdmin, Change, Put
    <2>2. u \in ActiveSuperAdmins(users')
        BY <2>1 DEF ActiveSuperAdmins
    <2> QED
        BY <2>2 DEF AdminRemains
<1>4. ASSUME NEW u \in User, NEW roles \in SUBSET Role, CreateUser(u, roles)
      PROVE  AdminRemains'
    <2>1. PICK a \in DOMAIN users: users[a].active /\ "super-admin" \in users[a].roles
        BY <1>4 DEF CreateUser, ActiveSuperAdmins
    <2>2. a \in DOMAIN users' /\ users'[a] = users[a]
        BY <1>4, <2>1 DEF CreateUser, Change, Put, Exists
    <2>3. a \in ActiveSuperAdmins(users')
        BY <2>1, <2>2 DEF ActiveSuperAdmins
    <2> QED
        BY <2>3 DEF AdminRemains
<1>5. ASSUME NEW u \in User, NEW roles \in SUBSET Role, SetRoles(u, roles)
      PROVE  AdminRemains'
    BY <1>5 DEF SetRoles, Keeps, Change, AdminRemains
<1>6. ASSUME NEW u \in User, NEW active \in BOOLEAN, SetActive(u, active)
      PROVE  AdminRemains'
    BY <1>6 DEF SetActive, Keeps, Change, AdminRemains
<1>7. ASSUME NEW b \in Browser, Handler(b) PROVE AdminRemains'
    <2>1. UNCHANGED users
        BY <1>7 DEF Handler, LoginLimited, LoginBegin, LoginFails, Authenticate,
               RevokePrevious, CheckOwner, InsertSession, AuditLogin, AuditFails, Rotate,
               RevokeRotated, Logout, LogoutRevoke, identities
    <2> QED
        BY <1>1, <2>1
<1>8. CASE \/ \E u \in User: RevokeUser(u)
           \/ PurgeTerminal
           \/ \E s \in DOMAIN sessions: SessionExpires(s)
           \/ \E p \in Peer: WindowPasses(p)
           \/ Crash
           \/ UNCHANGED vars
    <2>1. UNCHANGED users
        BY <1>8 DEF RevokeUser, PurgeTerminal, SessionExpires, WindowPasses, Crash,
               identities, vars
    <2> QED
        BY <1>1, <2>1
<1> QED
    BY <1>2, <1>3, <1>4, <1>5, <1>6, <1>7, <1>8 DEF Next, Administer

\* Whatever roles and accounts are changed in turn, once there are users one of
\* them is an active super administrator (_require_active_super_admin).
THEOREM AdministratorRemains == Spec => []AdminRemains
<1>1. Init => AdminRemains
    BY DEF Init, AdminRemains
<1> QED
    BY <1>1, AdminStep, PTL DEF Spec

-----------------------------------------------------------------------------
(* The session store.                                                      *)

\* What every operation on the store but create does: no session comes to life.
Shrinks ==
    /\ lastSession' = lastSession /\ ends' \in Nat
    /\ DOMAIN sessions' \subseteq DOMAIN sessions
    /\ \A s \in DOMAIN sessions':
          /\ sessions'[s] \in Record
          /\ sessions'[s].ended = 0 => sessions[s].ended = 0

\* A step that leaves the store alone.
LEMMA UnchangedShrinks == StoreOK /\ UNCHANGED store => Shrinks
BY DEF StoreOK, store, Shrinks

\* End only ends sessions, and ends those it is given.
LEMMA EndShrinks ==
    ASSUME StoreOK, NEW ss, End(ss)
    PROVE  Shrinks /\ \A s \in ss: s \in DOMAIN sessions' => sessions'[s].ended # 0
<1> DEFINE ended(s) == [sessions[s] EXCEPT !.ended = ends + 1]
<1>1. \A s \in DOMAIN sessions: ended(s) \in Record /\ ended(s).ended = ends + 1
    BY DEF StoreOK, Record
<1>2. \A s \in DOMAIN sessions: ended(s).ended # 0
    BY <1>1 DEF StoreOK
<1>3. /\ DOMAIN sessions' = DOMAIN sessions
      /\ \A s \in DOMAIN sessions:
            sessions'[s] = IF s \in ss /\ sessions[s].ended = 0 THEN ended(s) ELSE sessions[s]
    BY DEF End
<1> HIDE DEF ended
<1>4. ends' \in Nat /\ lastSession' = lastSession
    BY DEF End, StoreOK
<1> QED
    BY <1>1, <1>2, <1>3, <1>4 DEF StoreOK, Shrinks

\* After revoke the session is gone or has ended, whether or not it was live.
LEMMA RevokeShrinks ==
    ASSUME StoreOK, NEW s, Revoke(s)
    PROVE  Shrinks /\ (s \in DOMAIN sessions' => sessions'[s].ended # 0)
<1>1. CASE Live(s)
    BY <1>1, EndShrinks DEF Revoke
<1>2. CASE ~Live(s)
    BY <1>2, UnchangedShrinks DEF Revoke, Live, store
<1> QED
    BY <1>1, <1>2

\* _purge_records changes no record that it keeps.
LEMMA PurgedKeeps ==
    ASSUME NEW ss
    PROVE  /\ DOMAIN Purged(ss) \subseteq DOMAIN ss
           /\ \A s \in DOMAIN Purged(ss): Purged(ss)[s] = ss[s]
BY DEF Purged

\* What the request of a browser holds at each step of its handler.
LEMMA RequestFields ==
    ASSUME StoreOK, NEW b \in Browser
    PROVE  /\ request[b] \in Request
           /\ At(b, "body") => request[b].peer \in Peer
           /\ \A pc \in {"revoke", "create", "insert", "rotate"}: At(b, pc) =>
                /\ request[b].user \in User /\ request[b].peer \in Peer \cup {None}
                /\ \A to \in {"create", "insert"}: [request[b] EXCEPT !.pc = to] \in Request
           /\ At(b, "audit") => request[b].peer \in Peer \cup {None}
<1>1. request[b] \in Request
    BY DEF StoreOK
<1>2. At(b, "body") => request[b].peer \in Peer
    BY <1>1 DEF Request, At
<1>3. ASSUME NEW pc \in {"revoke", "create", "insert", "rotate"}, At(b, pc)
      PROVE  request[b] \in [pc: {"revoke", "create", "insert", "rotate"}, user: User,
                             peer: Peer \cup {None}]
    BY <1>1, <1>3 DEF Request, At
<1>4. ASSUME NEW r \in [pc: {"revoke", "create", "insert", "rotate"}, user: User,
                        peer: Peer \cup {None}],
             NEW to \in {"create", "insert"}
      PROVE  [r EXCEPT !.pc = to] \in Request
    BY DEF Request
<1>5. At(b, "audit") => request[b].peer \in Peer \cup {None}
    BY <1>1 DEF Request, At
<1> QED
    BY <1>1, <1>2, <1>3, <1>4, <1>5

\* What a handler may send its request to.
LEMMA RequestMembers ==
    /\ Idle \in Request /\ Idle.pc = "idle"
    /\ [pc |-> "logout"] \in Request
    /\ \A p \in Peer: [pc |-> "body", peer |-> p] \in Request
    /\ \A u \in User, p \in Peer \cup {None}, pc \in {"revoke", "rotate"}:
          [pc |-> pc, user |-> u, peer |-> p] \in Request
    /\ \A p \in Peer \cup {None}, s \in Nat:
          [pc |-> "audit", peer |-> p, session |-> s] \in Request
BY DEF Request, Idle

\* The common part of the handlers' steps: no session comes to life, and the
\* browser that moves issues none, or leaves it audited, lost or revoked.
LEMMA HandlerStep ==
    ASSUME StoreOK, UsableIsAudited, Shrinks,
           NEW b \in Browser, NEW r \in Request, To(b, r),
           audited \cup lost \subseteq audited' \cup lost',
           At(b, "audit") =>
               LET s == request[b].session
               IN  \/ s \in audited' \cup lost'
                   \/ s \in DOMAIN sessions' => sessions'[s].ended # 0
    PROVE  StoreOK' /\ UsableIsAudited'
<1>1. StoreOK'
    BY DEF StoreOK, Shrinks, To
<1>2. ASSUME NEW s \in DOMAIN sessions', Live(s)'
      PROVE  \/ s \in (audited \cup lost)'
             \/ \E c \in Browser: At(c, "audit")' /\ request'[c].session = s
    <2>1. s \in DOMAIN sessions /\ Live(s)
        BY <1>2 DEF Shrinks, Live
    <2>2. CASE s \in audited \cup lost
        BY <2>2
    <2>3. ASSUME NEW c \in Browser, At(c, "audit"), request[c].session = s
          PROVE  \/ s \in (audited \cup lost)'
                 \/ At(c, "audit")' /\ request'[c].session = s
        <3>1. CASE c = b
            BY <1>2, <2>3, <3>1 DEF Live
        <3>2. CASE c # b
            BY <2>3, <3>2 DEF To, At, StoreOK
        <3> QED
            BY <3>1, <3>2
    <2> QED
        BY <2>1, <2>2, <2>3 DEF UsableIsAudited
<1> QED
    BY <1>1, <1>2 DEF UsableIsAudited

\* Steps that move no handler.
LEMMA OutsideStep ==
    ASSUME StoreOK, UsableIsAudited, Shrinks, UNCHANGED <<request, audited, lost>>
    PROVE  StoreOK' /\ UsableIsAudited'
<1>1. StoreOK'
    BY DEF StoreOK, Shrinks
<1>2. \A s \in DOMAIN sessions': Live(s)' => s \in DOMAIN sessions /\ Live(s)
    BY DEF Shrinks, Live
<1> QED
    BY <1>1, <1>2 DEF UsableIsAudited, At

\* A session that create inserts is being issued by the browser that asked.
LEMMA InsertStep ==
    ASSUME StoreOK, UsableIsAudited, NEW b \in Browser, InsertSession(b)
    PROVE  StoreOK' /\ UsableIsAudited'
<1> DEFINE n == lastSession + 1
           r == [pc |-> "audit", peer |-> request[b].peer, session |-> n]
<1>1. /\ request[b].user \in User /\ request[b].peer \in Peer \cup {None}
      /\ n \in Nat /\ n \notin DOMAIN sessions
    <2>1. At(b, "insert")
        BY DEF InsertSession
    <2>2. request[b].user \in User /\ request[b].peer \in Peer \cup {None}
        BY <2>1, RequestFields
    <2>3. n \in Nat /\ n \notin DOMAIN sessions
        BY DEF StoreOK
    <2> QED
        BY <2>2, <2>3
<1>2. r \in Request
    BY <1>1, RequestMembers
<1>3. request' = [request EXCEPT ![b] = r] /\ UNCHANGED <<audited, lost>>
    BY DEF InsertSession, To, log
<1>4. /\ DOMAIN sessions' = DOMAIN Purged(sessions) \cup {n}
      /\ sessions'[n] = [user |-> request[b].user, ended |-> 0]
      /\ \A s \in DOMAIN Purged(sessions): s # n => sessions'[s] = Purged(sessions)[s]
    BY DEF InsertSession, Insert, Put
<1>5. /\ DOMAIN sessions' \subseteq DOMAIN sessions \cup {n}
      /\ \A s \in DOMAIN sessions': s # n => sessions'[s] = sessions[s]
    BY <1>4, PurgedKeeps
<1>6. StoreOK'
    <2>1. lastSession' = n /\ ends' = ends
        BY DEF InsertSession, Insert
    <2>2. DOMAIN sessions' \subseteq 1..n
        BY <1>5 DEF StoreOK
    <2>3. \A s \in DOMAIN sessions': sessions'[s] \in Record
        BY <1>1, <1>4, <1>5 DEF StoreOK, Record
    <2> QED
        BY <1>1, <1>2, <1>3, <2>1, <2>2, <2>3 DEF StoreOK
<1>7. ASSUME NEW s \in DOMAIN sessions', Live(s)'
      PROVE  \/ s \in (audited \cup lost)'
             \/ \E c \in Browser: At(c, "audit")' /\ request'[c].session = s
    <2>1. CASE s = n
        <3>1. request'[b] = r
            BY <1>3 DEF StoreOK
        <3> QED
            BY <2>1, <3>1 DEF At
    <2>2. CASE s # n
        <3>1. s \in DOMAIN sessions /\ Live(s)
            BY <1>5, <1>7, <2>2 DEF Live
        <3>2. CASE s \in audited \cup lost
            BY <1>3, <3>2
        <3>3. ASSUME NEW c \in Browser, At(c, "audit"), request[c].session = s
              PROVE  At(c, "audit")' /\ request'[c].session = s
            <4>1. c # b
                BY <3>3 DEF InsertSession, At
            <4> QED
                BY <1>3, <3>3, <4>1 DEF At, StoreOK
        <3> QED
            BY <3>1, <3>2, <3>3 DEF UsableIsAudited
    <2> QED
        BY <2>1, <2>2
<1> QED
    BY <1>6, <1>7 DEF UsableIsAudited

\* Every step keeps the record of who may use a session: one case per handler
\* step, and one for the steps outside of the handlers.
LEMMA StoreStep ==
    ASSUME StoreOK, UsableIsAudited, [Next]_vars
    PROVE  StoreOK' /\ UsableIsAudited'
<1>1. ASSUME NEW b \in Browser, Handler(b)
      PROVE  StoreOK' /\ UsableIsAudited'
    <2> USE RequestMembers
    <2>1. ASSUME NEW p \in Peer, LoginLimited(b, p)
          PROVE  StoreOK' /\ UsableIsAudited'
        BY <2>1, UnchangedShrinks, OutsideStep DEF LoginLimited, log
    <2>2. ASSUME NEW p \in Peer, LoginBegin(b, p)
          PROVE  StoreOK' /\ UsableIsAudited'
        <3>1. ~At(b, "audit") /\ UNCHANGED store /\ UNCHANGED log
              /\ To(b, [pc |-> "body", peer |-> p])
            BY <2>2 DEF LoginBegin, At
        <3> QED
            BY <3>1, UnchangedShrinks, HandlerStep DEF log
    <2>3. CASE LoginFails(b)
        <3>1. ~At(b, "audit") /\ UNCHANGED store /\ UNCHANGED log /\ To(b, Idle)
            BY <2>3 DEF LoginFails, At
        <3> QED
            BY <3>1, UnchangedShrinks, HandlerStep DEF log
    <2>4. ASSUME NEW u \in User, Authenticate(b, u)
          PROVE  StoreOK' /\ UsableIsAudited'
        <3>1. ~At(b, "audit") /\ UNCHANGED store /\ UNCHANGED log /\ At(b, "body")
              /\ To(b, [pc |-> "revoke", user |-> u, peer |-> request[b].peer])
            BY <2>4 DEF Authenticate, At
        <3>2. [pc |-> "revoke", user |-> u, peer |-> request[b].peer] \in Request
            BY <3>1, RequestFields
        <3> QED
            BY <3>1, <3>2, UnchangedShrinks, HandlerStep DEF log
    <2>5. CASE RevokePrevious(b)
        <3>1. ~At(b, "audit") /\ UNCHANGED log /\ At(b, "revoke")
              /\ To(b, [request[b] EXCEPT !.pc = "create"])
            BY <2>5 DEF RevokePrevious, At
        <3>2. Shrinks
            BY <2>5, RevokeShrinks, UnchangedShrinks DEF RevokePrevious
        <3>3. [request[b] EXCEPT !.pc = "create"] \in Request
            BY <3>1, RequestFields
        <3> QED
            BY <3>1, <3>2, <3>3, HandlerStep DEF log
    <2>6. CASE CheckOwner(b)
        <3>1. ~At(b, "audit") /\ UNCHANGED store /\ UNCHANGED log /\ At(b, "create")
            BY <2>6 DEF CheckOwner, At
        <3>2. \E r \in Request: To(b, r)
            <4>1. [request[b] EXCEPT !.pc = "insert"] \in Request
                BY <3>1, RequestFields
            <4> QED
                BY <2>6, <4>1 DEF CheckOwner, Done
        <3> QED
            BY <3>1, <3>2, UnchangedShrinks, HandlerStep DEF log
    <2>7. CASE InsertSession(b)
        BY <2>7, InsertStep
    <2>8. CASE AuditLogin(b)
        <3>1. UNCHANGED store /\ To(b, Idle) /\ UNCHANGED lost
              /\ audited' = audited \cup {request[b].session}
            BY <2>8 DEF AuditLogin, Done
        <3> QED
            BY <3>1, UnchangedShrinks, HandlerStep
    <2>9. CASE AuditFails(b)
        <3>1. To(b, Idle) /\ UNCHANGED audited
            BY <2>9 DEF AuditFails, Done
        <3>2. CASE Revoke(request[b].session) /\ UNCHANGED lost
            <4>1. /\ Shrinks
                  /\ request[b].session \in DOMAIN sessions' =>
                        sessions'[request[b].session].ended # 0
                BY <3>2, RevokeShrinks
            <4> QED
                BY <3>1, <3>2, <4>1, HandlerStep
        <3>3. CASE UNCHANGED store /\ lost' = lost \cup {request[b].session}
            BY <3>1, <3>3, UnchangedShrinks, HandlerStep
        <3> QED
            BY <2>9, <3>2, <3>3 DEF AuditFails
    <2>10. CASE Rotate(b)
        <3>1. ~At(b, "audit") /\ UNCHANGED store /\ UNCHANGED log
              /\ To(b, [pc |-> "rotate", user |-> sessions[cookie[b]].user, peer |-> None])
            BY <2>10 DEF Rotate, At
        <3>2. sessions[cookie[b]].user \in User
            BY <2>10 DEF Rotate, Valid, Live, StoreOK, Record
        <3> QED
            BY <3>1, <3>2, UnchangedShrinks, HandlerStep DEF log
    <2>11. CASE RevokeRotated(b)
        <3>1. ~At(b, "audit") /\ UNCHANGED log /\ At(b, "rotate")
            BY <2>11 DEF RevokeRotated, At
        <3>2. Shrinks
            BY <2>11, RevokeShrinks, UnchangedShrinks DEF RevokeRotated
        <3>3. [request[b] EXCEPT !.pc = "create"] \in Request
            BY <3>1, RequestFields
        <3>4. \E r \in Request: To(b, r)
            BY <2>11, <3>3 DEF RevokeRotated, Done
        <3> QED
            BY <3>1, <3>2, <3>4, HandlerStep DEF log
    <2>12. CASE Logout(b)
        <3>1. ~At(b, "audit") /\ UNCHANGED store /\ UNCHANGED log /\ To(b, [pc |-> "logout"])
            BY <2>12 DEF Logout, At
        <3> QED
            BY <3>1, UnchangedShrinks, HandlerStep DEF log
    <2>13. CASE LogoutRevoke(b)
        <3>1. ~At(b, "audit") /\ UNCHANGED log /\ To(b, Idle)
            BY <2>13 DEF LogoutRevoke, Done, At
        <3>2. Shrinks
            BY <2>13, RevokeShrinks DEF LogoutRevoke
        <3> QED
            BY <3>1, <3>2, HandlerStep DEF log
    <2> QED
        BY <1>1, <2>1, <2>2, <2>3, <2>4, <2>5, <2>6, <2>7, <2>8, <2>9, <2>10, <2>11,
           <2>12, <2>13 DEF Handler
<1>2. CASE Administer
    <2>1. UNCHANGED <<store, request, audited, lost>>
        BY <1>2 DEF Administer, DefineRole, CreateFirstSuperAdmin, CreateUser, SetRoles,
               SetActive, Change, log
    <2> QED
        BY <2>1, UnchangedShrinks, OutsideStep
<1>3. ASSUME NEW u \in User, RevokeUser(u) PROVE StoreOK' /\ UsableIsAudited'
    BY <1>3, EndShrinks, OutsideStep DEF RevokeUser, log
<1>4. CASE PurgeTerminal
    <2>1. Shrinks
        BY <1>4, PurgedKeeps DEF PurgeTerminal, StoreOK, Shrinks
    <2> QED
        BY <1>4, <2>1, OutsideStep DEF PurgeTerminal, log
<1>5. ASSUME NEW s \in DOMAIN sessions, SessionExpires(s) PROVE StoreOK' /\ UsableIsAudited'
    BY <1>5, EndShrinks, OutsideStep DEF SessionExpires, log
<1>6. CASE \/ \E p \in Peer: WindowPasses(p)
           \/ UNCHANGED vars
    <2>1. UNCHANGED <<store, request, audited, lost>>
        BY <1>6 DEF WindowPasses, vars, log
    <2> QED
        BY <2>1, UnchangedShrinks, OutsideStep
<1>7. CASE Crash
    <2>1. StoreOK'
        <3>1. request' = [b \in Browser |-> Idle] /\ Idle \in Request /\ UNCHANGED store
            BY <1>7, RequestMembers DEF Crash
        <3> QED
            BY <3>1 DEF StoreOK, store
    <2>2. ASSUME NEW s \in DOMAIN sessions', Live(s)'
          PROVE  s \in (audited \cup lost)'
        <3>1. s \in DOMAIN sessions /\ Live(s)
            BY <1>7, <2>2 DEF Crash, store, Live
        <3>2. ASSUME NEW b \in Browser, At(b, "audit"), request[b].session = s
              PROVE  s \in lost'
            BY <1>7, <3>2 DEF Crash
        <3> QED
            BY <1>7, <3>1, <3>2 DEF UsableIsAudited, Crash
    <2> QED
        BY <2>1, <2>2 DEF UsableIsAudited
<1> QED
    BY <1>1, <1>2, <1>3, <1>4, <1>5, <1>6, <1>7 DEF Next

\* The store starts empty.
LEMMA StoreInit == Init => StoreOK /\ UsableIsAudited
BY RequestMembers DEF Init, StoreOK, UsableIsAudited

\* A session that can be used was reported in the audit log, is being issued, or
\* its token reached nobody: through failures of the audit log, races of logout,
\* rotation, expiry and purge, and crashes (login, rotate_session).
THEOREM UsableSessionsAreAudited == Spec => []UsableIsAudited
<1>1. StoreOK /\ UsableIsAudited /\ [Next]_vars => StoreOK' /\ UsableIsAudited'
    BY StoreStep
<1> QED
    BY <1>1, StoreInit, PTL DEF Spec

-----------------------------------------------------------------------------
(* The rate limiter.                                                       *)

\* What every operation but record_failure does: no block and no guess is added.
Relents ==
    \A p \in Peer: blocked'[p] => blocked[p] /\ guesses'[p] <= guesses[p]

\* The entry of p goes, or moves to the end.
LEMMA OrderMoves ==
    ASSUME NEW s \in Seq(Peer), NEW p
    PROVE  /\ RemoveFirst(s, p) \in Seq(Peer)
           /\ \A q \in Range(s): q # p => q \in Range(RemoveFirst(s, p))
           /\ p \in Peer =>
                /\ Append(RemoveFirst(s, p), p) \in Seq(Peer)
                /\ p \in Range(Append(RemoveFirst(s, p), p))
                /\ \A q \in Range(s): q \in Range(Append(RemoveFirst(s, p), p))
<1> DEFINE r == RemoveFirst(s, p)
           a == Append(r, p)
<1>1. r \in Seq(Peer) /\ \A q \in Range(s): q # p => q \in Range(r)
    BY RemoveFirstKeeps
<1> HIDE DEF r
<1>2. ASSUME p \in Peer
      PROVE  a \in Seq(Peer) /\ p \in Range(a) /\ \A q \in Range(s): q \in Range(a)
    <2>1. /\ a \in Seq(Peer) /\ Len(a) = Len(r) + 1 /\ a[Len(r) + 1] = p
          /\ \A i \in 1..Len(r): a[i] = r[i]
        BY <1>1, <1>2
    <2>2. p \in Range(a)
        BY <1>1, <2>1 DEF Range
    <2>3. \A q \in Range(r): q \in Range(a)
        BY <1>1, <2>1 DEF Range
    <2> QED
        BY <1>1, <2>1, <2>2, <2>3
<1> QED
    BY <1>1, <1>2 DEF r

\* Steps that do not touch the limiter.
LEMMA UnchangedLimiter ==
    ASSUME EntriesOK, UNCHANGED limiter
    PROVE  EntriesOK' /\ Relents
<1>1. UNCHANGED <<order, failures, blocked, guesses>>
    BY DEF limiter
<1>2. EntriesOK'
    BY <1>1 DEF EntriesOK, LimiterOK, NoEntryNoFailures, CountedUntilBlocked, Known
<1>3. Relents
    BY <1>1 DEF EntriesOK, LimiterOK, Relents
<1> QED
    BY <1>2, <1>3

\* An entry is forgotten only when it has neither a failure nor a block.
LEMMA ForgetStep ==
    ASSUME EntriesOK, NEW p, p \in Peer => failures[p] = 0 /\ ~blocked[p],
           Forgotten(p), UNCHANGED <<failures, blocked>>
    PROVE  EntriesOK' /\ Relents
<1>1. order' \in Seq(Peer) /\ \A q \in Peer: Known(q) /\ q # p => Known(q)'
    BY OrderMoves DEF Forgotten, EntriesOK, LimiterOK, Known
<1>2. /\ guesses' \in [Peer -> Nat]
      /\ \A q \in Peer: guesses'[q] = IF q = p THEN 0 ELSE guesses[q]
    BY DEF Forgotten, EntriesOK, LimiterOK
<1>3. LimiterOK'
    BY <1>1, <1>2 DEF EntriesOK, LimiterOK
<1>4. NoEntryNoFailures'
    BY <1>1, <1>2 DEF EntriesOK, LimiterOK, NoEntryNoFailures
<1>5. CountedUntilBlocked'
    BY <1>2 DEF EntriesOK, LimiterOK, CountedUntilBlocked
<1>6. Relents
    <2>1. \A q \in Peer: guesses[q] \in Nat
        BY DEF EntriesOK, LimiterOK
    <2>2. \A q \in Peer: guesses'[q] <= guesses[q]
        BY <1>2, <2>1
    <2> QED
        BY <2>2 DEF Relents
<1> QED
    BY <1>3, <1>4, <1>5, <1>6 DEF EntriesOK

\* An entry that is used becomes the most recent one.
LEMMA TouchStep ==
    ASSUME EntriesOK, NEW p \in Peer, order' = Touched(p),
           UNCHANGED <<failures, blocked, guesses>>
    PROVE  EntriesOK' /\ Relents
<1>1. order' \in Seq(Peer) /\ \A q \in Peer: Known(q) => Known(q)'
    BY OrderMoves DEF Touched, EntriesOK, LimiterOK, Known
<1> QED
    BY <1>1 DEF EntriesOK, LimiterOK, NoEntryNoFailures, CountedUntilBlocked, Relents

\* check, of a peer it lets pass.
LEMMA CheckedStep ==
    ASSUME EntriesOK, NEW p \in Peer, Checked(p)
    PROVE  EntriesOK' /\ Relents
<1>1. CASE Known(p) /\ failures[p] = 0
    BY <1>1, ForgetStep DEF Checked
<1>2. CASE ~(Known(p) /\ failures[p] = 0)
    BY <1>2, UnchangedLimiter DEF Checked, limiter
<1> QED
    BY <1>1, <1>2

\* record_success.
LEMMA SuccessStep ==
    ASSUME EntriesOK, NEW p, RecordSuccess(p)
    PROVE  EntriesOK' /\ Relents
<1>1. CASE ~Known(p)
    BY <1>1, UnchangedLimiter DEF RecordSuccess, limiter
<1>2. CASE Known(p)
    <2>1. p \in Peer
        BY <1>2 DEF Known, Range, EntriesOK, LimiterOK
    <2>2. CASE failures[p] = 0 /\ ~blocked[p]
        BY <1>2, <2>2, ForgetStep DEF RecordSuccess
    <2>3. CASE ~(failures[p] = 0 /\ ~blocked[p])
        BY <1>2, <2>1, <2>3, TouchStep DEF RecordSuccess
    <2> QED
        BY <2>2, <2>3
<1> QED
    BY <1>1, <1>2

\* Failures leave the window, and a block ends after them.
LEMMA WindowStep ==
    ASSUME EntriesOK, NEW p \in Peer, WindowPasses(p)
    PROVE  EntriesOK' /\ Relents
<1>1. /\ guesses' \in [Peer -> Nat] /\ UNCHANGED order
      /\ \A q \in Peer: guesses'[q] = IF q = p THEN 0 ELSE guesses[q]
    BY DEF WindowPasses, EntriesOK, LimiterOK
<1>2. /\ failures' \in [Peer -> Nat] /\ blocked' \in [Peer -> BOOLEAN]
      /\ \A q \in Peer: q # p => failures'[q] = failures[q] /\ blocked'[q] = blocked[q]
      /\ failures'[p] = 0 /\ (blocked'[p] => blocked[p])
    <2>1. CASE failures' = [failures EXCEPT ![p] = 0] /\ UNCHANGED blocked
        BY <2>1 DEF EntriesOK, LimiterOK
    <2>2. CASE failures[p] = 0 /\ blocked' = [blocked EXCEPT ![p] = FALSE] /\ UNCHANGED failures
        BY <2>2 DEF EntriesOK, LimiterOK
    <2> QED
        BY <2>1, <2>2 DEF WindowPasses
<1>3. LimiterOK'
    BY <1>1, <1>2 DEF EntriesOK, LimiterOK
<1>4. NoEntryNoFailures'
    BY <1>1, <1>2 DEF EntriesOK, NoEntryNoFailures, Known
<1>5. CountedUntilBlocked'
    <2> SUFFICES ASSUME NEW q \in Peer, ~blocked'[q]
                 PROVE  guesses'[q] <= failures'[q] /\ failures'[q] < MaximumFailures
        BY DEF CountedUntilBlocked
    <2>1. CASE q = p
        BY <1>1, <1>2, <2>1, SessionsAssumption
    <2>2. CASE q # p
        BY <1>1, <1>2, <2>2 DEF EntriesOK, CountedUntilBlocked
    <2> QED
        BY <2>1, <2>2
<1>6. Relents
    BY <1>1, <1>2 DEF EntriesOK, LimiterOK, Relents
<1> QED
    BY <1>3, <1>4, <1>5, <1>6 DEF EntriesOK

\* record_failure: the peer's count grows until it is blocked, an entry that has
\* to make room takes its count along, and the others stay as they are.
LEMMA FailureStep ==
    ASSUME EntriesOK, NEW p \in Peer, RecordFailure(p)
    PROVE  /\ EntriesOK'
           /\ \A q \in Peer: q # p /\ blocked'[q] => blocked[q] /\ guesses'[q] <= guesses[q]
           /\ guesses'[p] = guesses[p] + 1
           /\ ~blocked[p] => guesses'[p] <= MaximumFailures
<1> DEFINE kept == Evicted(p)
           fresh(q) == q # p /\ q \notin Range(kept)
           count == IF Known(p) THEN failures[p] + 1 ELSE 1
<1>1. kept \in Seq(Peer)
    BY SessionsAssumption DEF Evicted, EntriesOK, LimiterOK
<1>2. order' \in Seq(Peer) /\ \A q \in Peer: ~Known(q)' => fresh(q)
    BY <1>1, OrderMoves DEF RecordFailure, Known
<1>3. count \in Nat \ {0} /\ guesses[p] \in Nat /\ failures[p] \in Nat /\ MaximumFailures \in Nat \ {0}
    BY SessionsAssumption DEF EntriesOK, LimiterOK
<1>4. ASSUME ~blocked[p] PROVE guesses[p] + 1 <= count /\ count <= MaximumFailures
    <2>1. guesses[p] <= failures[p] /\ failures[p] < MaximumFailures
        BY <1>4 DEF EntriesOK, CountedUntilBlocked
    <2>2. ~Known(p) => failures[p] = 0
        BY DEF EntriesOK, NoEntryNoFailures
    <2> QED
        BY <1>3, <2>1, <2>2
<1>5. /\ failures' = [q \in Peer |->
                        IF q = p THEN IF count > MaximumFailures THEN MaximumFailures ELSE count
                        ELSE IF fresh(q) THEN 0 ELSE failures[q]]
      /\ blocked' = [q \in Peer |-> IF q = p THEN blocked[p] \/ count >= MaximumFailures
                                    ELSE blocked[q] /\ ~fresh(q)]
      /\ guesses' = [q \in Peer |-> IF q = p THEN guesses[p] + 1
                                    ELSE IF fresh(q) THEN 0 ELSE guesses[q]]
    BY DEF RecordFailure
<1> HIDE DEF count, fresh
<1>6. LimiterOK'
    <2>1. failures' \in [Peer -> Nat] /\ guesses' \in [Peer -> Nat]
        BY <1>3, <1>5 DEF EntriesOK, LimiterOK
    <2>2. blocked' \in [Peer -> BOOLEAN]
        BY <1>5 DEF EntriesOK, LimiterOK
    <2> QED
        BY <1>2, <2>1, <2>2 DEF LimiterOK
<1>7. NoEntryNoFailures'
    <2> SUFFICES ASSUME NEW q \in Peer, ~Known(q)'
                 PROVE  failures'[q] = 0 /\ guesses'[q] = 0 /\ ~blocked'[q]
        BY DEF NoEntryNoFailures
    <2>1. fresh(q) /\ q # p
        BY <1>2 DEF fresh
    <2> QED
        BY <1>5, <2>1
<1>8. CountedUntilBlocked'
    <2> SUFFICES ASSUME NEW q \in Peer, ~blocked'[q]
                 PROVE  guesses'[q] <= failures'[q] /\ failures'[q] < MaximumFailures
        BY DEF CountedUntilBlocked
    <2>1. CASE q = p
        <3>1. ~blocked[p] /\ ~(count >= MaximumFailures)
            BY <1>5, <2>1
        <3>2. guesses'[p] = guesses[p] + 1
            BY <1>5
        <3>3. failures'[p] = count
            BY <1>3, <1>5, <3>1
        <3> QED
            BY <1>3, <1>4, <2>1, <3>1, <3>2, <3>3
    <2>2. CASE q # p /\ fresh(q)
        BY <1>3, <1>5, <2>2
    <2>3. CASE q # p /\ ~fresh(q)
        <3>1. ~blocked[q] /\ guesses'[q] = guesses[q] /\ failures'[q] = failures[q]
            BY <1>5, <2>3
        <3> QED
            BY <3>1 DEF EntriesOK, CountedUntilBlocked
    <2> QED
        BY <2>1, <2>2, <2>3
<1>9. ASSUME NEW q \in Peer, q # p, blocked'[q]
      PROVE  blocked[q] /\ guesses'[q] <= guesses[q]
    <2>1. blocked[q] /\ ~fresh(q)
        BY <1>5, <1>9
    <2>2. guesses'[q] = guesses[q] /\ guesses[q] \in Nat
        BY <1>5, <1>9, <2>1 DEF EntriesOK, LimiterOK
    <2> QED
        BY <2>1, <2>2
<1>10. guesses'[p] = guesses[p] + 1
    BY <1>5
<1> QED
    BY <1>3, <1>4, <1>6, <1>7, <1>8, <1>9, <1>10 DEF EntriesOK

\* Cardinalities of the browsers that have passed the check.
LEMMA PassedFinite ==
    ASSUME NEW T, T \subseteq Browser
    PROVE  /\ IsFiniteSet(T) /\ Cardinality(T) \in Nat
           /\ Cardinality(Browser) \in Nat /\ Cardinality(T) <= Cardinality(Browser)
           /\ \A b \in Browser \ T: Cardinality(T) <= Cardinality(Browser) - 1
           /\ \A b \in T: Cardinality(T \ {b}) = Cardinality(T) - 1
<1>1. IsFiniteSet(Browser)
    BY SessionsAssumption
<1>2. IsFiniteSet(T) /\ Cardinality(T) \in Nat /\ Cardinality(Browser) \in Nat
      /\ Cardinality(T) <= Cardinality(Browser)
    BY <1>1, FS_Subset, FS_CardinalityType
<1>3. ASSUME NEW b \in Browser \ T PROVE Cardinality(T) <= Cardinality(Browser) - 1
    <2>1. T \subseteq Browser \ {b} /\ IsFiniteSet(Browser \ {b})
        BY <1>1, FS_RemoveElement
    <2>2. Cardinality(Browser \ {b}) = Cardinality(Browser) - 1
        BY <1>1, FS_RemoveElement
    <2>3. Cardinality(T) <= Cardinality(Browser \ {b})
        BY <2>1, FS_Subset
    <2> QED
        BY <2>2, <2>3
<1>4. \A b \in T: Cardinality(T \ {b}) = Cardinality(T) - 1
    BY <1>2, FS_RemoveElement
<1> QED
    BY <1>2, <1>3, <1>4

\* A step that records no failure and lets no login of a blocked peer pass.
LEMMA RelentingStep ==
    ASSUME EntriesOK, EntriesOK', PassedAreBounded, Relents,
           \A p \in Peer: blocked[p] => Passed(p)' \subseteq Passed(p)
    PROVE  PassedAreBounded'
<1> SUFFICES ASSUME NEW p \in Peer, blocked'[p]
             PROVE  guesses'[p] + Cardinality(Passed(p)')
                      <= MaximumFailures - 1 + Cardinality(Browser)
    BY DEF PassedAreBounded
<1>1. blocked[p] /\ guesses'[p] <= guesses[p] /\ Passed(p)' \subseteq Passed(p)
    BY DEF Relents
<1>2. guesses[p] + Cardinality(Passed(p)) <= MaximumFailures - 1 + Cardinality(Browser)
    BY <1>1 DEF PassedAreBounded
<1>3. guesses[p] \in Nat /\ guesses'[p] \in Nat /\ MaximumFailures \in Nat
    BY SessionsAssumption DEF EntriesOK, LimiterOK
<1>4. Passed(p) \subseteq Browser /\ Passed(p)' \subseteq Browser
    BY DEF Passed
<1>5. Cardinality(Passed(p)) \in Nat /\ Cardinality(Passed(p)') \in Nat
      /\ Cardinality(Browser) \in Nat /\ IsFiniteSet(Passed(p))
    BY <1>4, PassedFinite
<1>6. Cardinality(Passed(p)') <= Cardinality(Passed(p))
    BY <1>1, <1>5, FS_Subset
<1> QED
    BY <1>1, <1>2, <1>3, <1>5, <1>6

\* A browser that moves to another step than the body leaves those that passed.
LEMMA MovesOn ==
    ASSUME StoreOK, NEW b \in Browser, NEW r, r.pc # "body", To(b, r)
    PROVE  \A p \in Peer: Passed(p)' \subseteq Passed(p) \ {b}
<1> SUFFICES ASSUME NEW p \in Peer, NEW c \in Browser, At(c, "body")', request'[c].peer = p
             PROVE  c # b /\ c \in Passed(p)
    BY DEF Passed
<1>1. request' = [request EXCEPT ![b] = r] /\ DOMAIN request = Browser
    BY DEF To, StoreOK
<1> QED
    BY <1>1 DEF At, Passed

\* Steps of the identities, of the store and of the limiter's clock.
LEMMA NobodyMoves ==
    UNCHANGED request => \A p \in Peer: Passed(p)' \subseteq Passed(p)
BY DEF Passed, At

\* A login fails after its peer was blocked only if it passed the check before.
LEMMA LoginFailsStep ==
    ASSUME StoreOK, EntriesOK, PassedAreBounded, NEW b \in Browser, LoginFails(b)
    PROVE  EntriesOK' /\ PassedAreBounded'
<1>0. PICK p \in Peer: p = request[b].peer
    BY RequestFields DEF LoginFails
<1>1. p \in Peer /\ b \in Passed(p)
    BY <1>0 DEF LoginFails, Passed
<1>2. RecordFailure(p) /\ To(b, Idle) /\ Idle.pc # "body"
    BY <1>0, RequestMembers DEF LoginFails, Idle
<1>3. \A q \in Peer: Passed(q)' \subseteq Passed(q) \ {b}
    BY <1>2, MovesOn
<1>4. /\ EntriesOK'
      /\ \A q \in Peer: q # p /\ blocked'[q] => blocked[q] /\ guesses'[q] <= guesses[q]
      /\ guesses'[p] = guesses[p] + 1
      /\ ~blocked[p] => guesses'[p] <= MaximumFailures
    BY <1>1, <1>2, FailureStep
<1>5. /\ MaximumFailures \in Nat
      /\ \A q \in Peer: guesses[q] \in Nat /\ guesses'[q] \in Nat
    BY <1>4, SessionsAssumption DEF EntriesOK, LimiterOK
<1>6. \A q \in Peer: Passed(q) \subseteq Browser /\ Passed(q)' \subseteq Browser
    BY DEF Passed
<1>7. ASSUME NEW q \in Peer, blocked'[q]
      PROVE  guesses'[q] + Cardinality(Passed(q)') <= MaximumFailures - 1 + Cardinality(Browser)
    <2>1. /\ Cardinality(Passed(q)) \in Nat /\ Cardinality(Passed(q)') \in Nat
          /\ Cardinality(Browser) \in Nat /\ IsFiniteSet(Passed(q))
        BY <1>6, PassedFinite
    <2>2. CASE q # p
        <3>1. blocked[q] /\ guesses'[q] <= guesses[q]
            BY <1>4, <1>7, <2>2
        <3>2. Cardinality(Passed(q)') <= Cardinality(Passed(q))
            BY <1>3, <2>1, FS_Subset
        <3>3. guesses[q] + Cardinality(Passed(q)) <= MaximumFailures - 1 + Cardinality(Browser)
            BY <3>1 DEF PassedAreBounded
        <3> QED
            BY <1>5, <2>1, <3>1, <3>2, <3>3
    <2>3. CASE q = p /\ blocked[p]
        <3>1. guesses[p] + Cardinality(Passed(p)) <= MaximumFailures - 1 + Cardinality(Browser)
            BY <1>1, <2>3 DEF PassedAreBounded
        <3>2. /\ Cardinality(Passed(p) \ {b}) = Cardinality(Passed(p)) - 1
              /\ IsFiniteSet(Passed(p) \ {b})
            BY <1>1, <1>6, <2>1, <2>3, PassedFinite, FS_RemoveElement
        <3>3. Cardinality(Passed(p)') <= Cardinality(Passed(p)) - 1
            BY <1>1, <1>3, <3>2, FS_Subset
        <3> QED
            BY <1>1, <1>4, <1>5, <2>1, <2>3, <3>1, <3>3
    <2>4. CASE q = p /\ ~blocked[p]
        <3>1. guesses'[p] <= MaximumFailures
            BY <1>4, <2>4
        <3>2. b \in Browser \ Passed(p)'
            BY <1>1, <1>3
        <3>3. Cardinality(Passed(p)') <= Cardinality(Browser) - 1
            BY <1>1, <1>6, <3>2, PassedFinite
        <3> QED
            BY <1>1, <1>5, <2>1, <2>4, <3>1, <3>3
    <2> QED
        BY <2>2, <2>3, <2>4
<1> QED
    BY <1>4, <1>7 DEF PassedAreBounded

\* Every step of a handler keeps the limiter's invariant.
LEMMA HandlerLimiterStep ==
    ASSUME StoreOK, EntriesOK, PassedAreBounded, NEW b \in Browser, Handler(b)
    PROVE  EntriesOK' /\ PassedAreBounded'
<1>1. ASSUME NEW p \in Peer, LoginLimited(b, p)
      PROVE  EntriesOK' /\ PassedAreBounded'
    BY <1>1, TouchStep, NobodyMoves, RelentingStep DEF LoginLimited, RateLimited
<1>2. ASSUME NEW p \in Peer, LoginBegin(b, p)
      PROVE  EntriesOK' /\ PassedAreBounded'
    <2>1. Checked(p) /\ ~blocked[p] /\ To(b, [pc |-> "body", peer |-> p])
        BY <1>2 DEF LoginBegin, Checked
    <2>2. \A q \in Peer: blocked[q] => Passed(q)' \subseteq Passed(q)
        BY <2>1 DEF To, Passed, At, StoreOK
    <2> QED
        BY <2>1, <2>2, CheckedStep, RelentingStep
<1>3. CASE LoginFails(b)
    BY <1>3, LoginFailsStep
<1>4. ASSUME \E u \in User: Authenticate(b, u)
      PROVE  EntriesOK' /\ PassedAreBounded'
    <2>1. PICK u \in User: Authenticate(b, u)
        BY <1>4
    <2>2. UNCHANGED limiter /\ To(b, [pc |-> "revoke", user |-> u, peer |-> request[b].peer])
        BY <2>1 DEF Authenticate
    <2> QED
        BY <2>2, UnchangedLimiter, MovesOn, RelentingStep
<1>5. ASSUME NEW pc \in {"create", "insert"}, UNCHANGED limiter,
             \E from \in {"revoke", "create", "rotate"}: At(b, from),
             To(b, [request[b] EXCEPT !.pc = pc])
      PROVE  EntriesOK' /\ PassedAreBounded'
    <2>1. "pc" \in DOMAIN request[b]
        BY <1>5, RequestFields DEF Request
    <2>2. [request[b] EXCEPT !.pc = pc].pc # "body"
        BY <2>1
    <2> QED
        BY <1>5, <2>2, UnchangedLimiter, MovesOn, RelentingStep
<1>6. ASSUME UNCHANGED limiter, To(b, Idle)
      PROVE  EntriesOK' /\ PassedAreBounded'
    BY <1>6, UnchangedLimiter, MovesOn, RelentingStep DEF Idle
<1>7. CASE RevokePrevious(b) \/ CheckOwner(b) \/ RevokeRotated(b)
    BY <1>5, <1>6, <1>7 DEF RevokePrevious, CheckOwner, RevokeRotated, Done
<1>8. CASE InsertSession(b)
    <2>1. UNCHANGED limiter
          /\ To(b, [pc |-> "audit", peer |-> request[b].peer, session |-> lastSession + 1])
        BY <1>8 DEF InsertSession
    <2> QED
        BY <2>1, UnchangedLimiter, MovesOn, RelentingStep
<1>9. CASE AuditLogin(b)
    <2>1. To(b, Idle) /\ Idle.pc # "body"
        BY <1>9 DEF AuditLogin, Done, Idle
    <2>2. EntriesOK' /\ Relents
        BY <1>9, SuccessStep, UnchangedLimiter DEF AuditLogin
    <2> QED
        BY <2>1, <2>2, MovesOn, RelentingStep
<1>10. CASE AuditFails(b) \/ LogoutRevoke(b)
    BY <1>6, <1>10 DEF AuditFails, LogoutRevoke, Done
<1>11. CASE Rotate(b)
    <2>1. UNCHANGED limiter
          /\ To(b, [pc |-> "rotate", user |-> sessions[cookie[b]].user, peer |-> None])
        BY <1>11 DEF Rotate
    <2> QED
        BY <2>1, UnchangedLimiter, MovesOn, RelentingStep
<1>12. CASE Logout(b)
    <2>1. UNCHANGED limiter /\ To(b, [pc |-> "logout"])
        BY <1>12 DEF Logout
    <2> QED
        BY <2>1, UnchangedLimiter, MovesOn, RelentingStep
<1> QED
    BY <1>1, <1>2, <1>3, <1>4, <1>7, <1>8, <1>9, <1>10, <1>11, <1>12 DEF Handler

\* Every step keeps the limiter's invariant.
LEMMA LimiterStep ==
    ASSUME StoreOK, EntriesOK, PassedAreBounded, [Next]_vars
    PROVE  EntriesOK' /\ PassedAreBounded'
<1>1. CASE \E b \in Browser: Handler(b)
    BY <1>1, HandlerLimiterStep
<1>2. CASE \/ Administer \/ PurgeTerminal \/ UNCHANGED vars
           \/ \E u \in User: RevokeUser(u)
           \/ \E s \in DOMAIN sessions: SessionExpires(s)
    <2>1. UNCHANGED limiter /\ UNCHANGED request
        BY <1>2 DEF Administer, DefineRole, CreateFirstSuperAdmin, CreateUser, SetRoles,
               SetActive, Change, PurgeTerminal, RevokeUser, SessionExpires, vars
    <2> QED
        BY <2>1, UnchangedLimiter, NobodyMoves, RelentingStep
<1>3. ASSUME NEW p \in Peer, WindowPasses(p) PROVE EntriesOK' /\ PassedAreBounded'
    BY <1>3, WindowStep, NobodyMoves, RelentingStep DEF WindowPasses
<1>4. CASE Crash
    <2>1. /\ order' = <<>> /\ guesses' = [p \in Peer |-> 0]
          /\ failures' = [p \in Peer |-> 0] /\ blocked' = [p \in Peer |-> FALSE]
        BY <1>4 DEF Crash
    <2> QED
        BY <2>1, SessionsAssumption DEF EntriesOK, LimiterOK, NoEntryNoFailures,
           CountedUntilBlocked, PassedAreBounded
<1> QED
    BY <1>1, <1>2, <1>3, <1>4 DEF Next

\* The limiter starts without entries.
LEMMA LimiterInit == Init => EntriesOK /\ PassedAreBounded
BY SessionsAssumption
   DEF Init, EntriesOK, LimiterOK, NoEntryNoFailures, CountedUntilBlocked, PassedAreBounded

\* The store and the limiter together.
LEMMA Invariance == Spec => []Inv
<1>1. Init => Inv
    BY StoreInit, LimiterInit DEF Inv
<1>2. Inv /\ [Next]_vars => Inv'
    BY StoreStep, LimiterStep DEF Inv
<1> QED
    BY <1>1, <1>2, PTL DEF Spec

\* A peer's entry never sees more failures than the maximum and what was past
\* the check when it was blocked: concurrent logins, evictions, successes and
\* windows that pass included (check, record_failure, record_success).
THEOREM GuessesAreBounded == Spec => []GuessesBounded
<1>1. Inv => GuessesBounded
    <2> SUFFICES ASSUME EntriesOK, PassedAreBounded, NEW p \in Peer
                 PROVE  guesses[p] <= MaximumFailures - 1 + Cardinality(Browser)
        BY DEF Inv, GuessesBounded
    <2>1. Passed(p) \subseteq Browser
        BY DEF Passed
    <2>2. /\ Cardinality(Passed(p)) \in Nat /\ Cardinality(Browser) \in Nat
          /\ guesses[p] \in Nat /\ failures[p] \in Nat /\ MaximumFailures \in Nat \ {0}
        BY <2>1, PassedFinite, SessionsAssumption DEF EntriesOK, LimiterOK
    <2>3. CASE blocked[p]
        BY <2>2, <2>3 DEF PassedAreBounded
    <2>4. CASE ~blocked[p]
        BY <2>2, <2>4 DEF EntriesOK, CountedUntilBlocked
    <2> QED
        BY <2>3, <2>4
<1> QED
    BY <1>1, Invariance, PTL

\* The records, the requests in progress and the limiter keep their types.
THEOREM SessionsTypeCorrect == Spec => []TypeOK
<1>1. Inv => TypeOK
    BY DEF Inv, EntriesOK, TypeOK
<1> QED
    BY <1>1, Invariance, PTL
================================================================================
