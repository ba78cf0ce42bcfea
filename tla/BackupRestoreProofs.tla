--------------------------- MODULE BackupRestoreProofs --------------------------
(***************************************************************************)
(* Proofs about BackupRestore for every set of processes, of operations    *)
(* and of archives, any number of faults and of attempts.                  *)
(*                                                                         *)
(* A command that replaces the data directory runs alone, so a tree is     *)
(* replaced only while nobody holds a head of its journals; the phases of  *)
(* the intent and the marker in the data directory tell which of the three *)
(* trees is the one that counts.                                           *)
(***************************************************************************)
EXTENDS BackupRestore, SequenceTheorems, FiniteSetTheorems, TLAPS

(* The inductive invariant, in parts.                                      *)

\* The places of a restore inside the backup manager.
RestorePC ==
    {"reconcile", "abort", "stage", "prepare", "move", "moved", "switch", "commit",
     "undo", "abort_failing", "evidence", "evidence_succeed", "recover", "finalize",
     "cleanup"}

OrdinaryPC ==
    {"begin", "retry", "replay", "again", "act", "succeed", "failing", "fail", "audit",
     "append", "epoch", "verify", "checkpoint", "lost"}

Running ==
    [pc: RestorePC \cup OrdinaryPC, op: Operation, target: Targets,
     stage: {"request", "finish", "failure", "evidence"}, epoch: Nat,
     journal: Journal, head: History, tries: Nat]

\* Whatever is interrupted, every file is one that its reader can parse.
TypeOK ==
    /\ data \in Tree \cup {None} /\ staging \in Tree \cup {None}
    /\ previous \in Tree \cup {None}
    /\ intent \in RestoreIntent \cup {None}
    /\ archives \in [Archive -> BackupManifest \cup {None}]
    /\ trusted \in Seq(IntegrityCheckpoint) /\ tornStore \in BOOLEAN
    /\ releases \in ReleaseState
    /\ proc \in [Process -> Running \cup {Idle}]

\* A backup command runs alone.
Alone ==
    \A p, q \in Process :
        p # q /\ ~At(p, "idle") /\ ~At(q, "idle") => Release(Op(p)) /\ Release(Op(q))

\* A restore that commits its evidence.
InEvidence(p) ==
    \/ proc[p].pc \in {"evidence", "evidence_succeed", "recover", "finalize"}
    \/ proc[p].pc \in {"audit", "append"} /\ proc[p].stage = "evidence"

\* Only a restore of a verified archive is inside the backup manager's restore.
InRestore(p) == proc[p].pc \in RestorePC \/ InEvidence(p)

KindOK(p) ==
    /\ InRestore(p) => Kind(Op(p)) = "restore"
    /\ ~At(p, "idle") /\ Kind(Op(p)) = "restore" => Verified(Command[Op(p)].archive)
    /\ ~At(p, "idle") /\ proc[p].stage = "evidence" => InEvidence(p) \/ At(p, "cleanup")

PhaseIn(S) == intent # None /\ intent.phase \in S

\* While the data directory is moved away nobody else has begun, and the tree to
\* put back is there.
AwayOK ==
    data = None =>
        /\ previous # None /\ previous.marker = None
        /\ PhaseIn({"prepared", "previous_moved"})
        /\ \A p \in Process : proc[p].pc \in {"idle", "moved", "switch", "undo"}

\* A marked data directory is the one of the intent, after the switch.
MarkOK ==
    data # None /\ data.marker # None =>
        /\ PhaseIn({"previous_moved", "committed", "finalized"})
        /\ intent.marker = data.marker
        /\ intent.phase # "finalized" => previous # None

CommittedOK == PhaseIn({"committed"}) => data # None /\ data.marker = intent.marker

Unmarked(tree) == tree # None => tree.marker = None
IsMarked(tree, p) == tree # None /\ tree.marker = Marker(p)
IsIntent(p, S) == PhaseIn(S) /\ intent.marker = Marker(p)

\* What a restore knows at each of its places.
PlaceOK(p) ==
    /\ proc[p].pc \in {"abort", "stage", "prepare", "move", "abort_failing", "undo"} =>
           Unmarked(data)
    /\ At(p, "abort") => intent # None
    /\ proc[p].pc \in {"prepare", "move", "moved", "switch"} => IsMarked(staging, p)
    /\ At(p, "move") => IsIntent(p, {"prepared"})
    /\ At(p, "moved") => IsIntent(p, {"prepared"}) /\ data = None
    /\ At(p, "switch") => IsIntent(p, {"previous_moved"}) /\ data = None
    /\ At(p, "commit") => IsIntent(p, {"previous_moved"}) /\ IsMarked(data, p)
    /\ InEvidence(p) => IsIntent(p, {"committed"})
    /\ At(p, "cleanup") => PhaseIn({"finalized"})

TreesOK == AwayOK /\ MarkOK /\ CommittedOK

\* The trusted heads are heads of this tree's journals.
HeadsOf(tree) ==
    \A j \in Journal :
        Latest(trusted, j) # None => IsPrefix(Latest(trusted, j).head, tree[j])

\* So is the head a command has verified.
HeadOK(p) ==
    /\ proc[p].pc \in {"checkpoint", "lost"} =>
           IsPrefix(proc[p].head, data[proc[p].journal])
    /\ At(p, "finalize") => HeadsOf(data)

HeadsOK ==
    /\ data # None /\ ~Pending => HeadsOf(data)
    /\ data = None => HeadsOf(previous)

\* Every tree's journal of operations reads, the archived ones too, and an operation
\* to be retried is in it.
JournalsOK ==
    /\ JournalsVerify
    /\ \A a \in Archive : Verified(a) => Verifies(archives[a].tree.operations)

RetryOK(p) == At(p, "retry") => OperationState(data.operations, Op(p)) # None

ProcessOK(p) == KindOK(p) /\ PlaceOK(p) /\ HeadOK(p) /\ RetryOK(p)

Inv ==
    /\ TypeOK /\ Alone /\ TreesOK /\ HeadsOK /\ JournalsOK
    /\ \A p \in Process : ProcessOK(p)

-----------------------------------------------------------------------------
(* The last event of a kind in a sequence.                                 *)

LEMMA MaxIs ==
    ASSUME NEW I, I \subseteq Int, NEW m \in I, \A y \in I : y <= m
    PROVE  Max(I) = m
<1>1. \A x \in I : (\A y \in I : x >= y) <=> x = m
    OBVIOUS
<1> QED
    BY <1>1 DEF Max

LEMMA MaxOfOne ==
    ASSUME NEW e \in Int
    PROVE  Max({e}) = e
  BY DEF Max

\* The indices of a sequence are bounded, so Max names the last of a set of them.
LEMMA MaxIsMember ==
    ASSUME NEW n \in Nat, NEW I, I \subseteq 1..n, I # {}
    PROVE  Max(I) \in I /\ \A y \in I : y <= Max(I)
<1> DEFINE D == {d \in Nat : n - d \in I}
<1>1. D # {}
    <2>1. PICK i \in I : TRUE
        OBVIOUS
    <2>2. i \in 1..n
        BY <2>1
    <2>3. n - i \in Nat /\ n - (n - i) = i
        BY <2>2
    <2> QED
        BY <2>1, <2>3
<1>2. PICK d \in D : \A y \in D : <<y, d>> \notin OpToRel(<, Nat)
    BY <1>1, NatLessThanWellFounded, WFMin
<1>3. \A y \in I : y <= n - d
    <2> SUFFICES ASSUME NEW y \in I, ~(y <= n - d)
                 PROVE  FALSE
        OBVIOUS
    <2>1. y \in 1..n /\ d \in Nat
        BY <1>2
    <2>2. n - y \in Nat /\ n - y < d /\ n - (n - y) = y
        BY <2>1
    <2>3. n - y \in D
        BY <2>2
    <2>4. <<n - y, d>> \in OpToRel(<, Nat)
        BY <2>1, <2>2 DEF OpToRel
    <2> QED
        BY <1>2, <2>3, <2>4
<1>4. n - d \in I
    BY <1>2
<1>5. I \subseteq Int
    OBVIOUS
<1>6. Max(I) = n - d
    BY <1>3, <1>4, <1>5, MaxIs
<1> QED
    BY <1>3, <1>4, <1>6

LEMMA StateType ==
    ASSUME NEW s \in Seq(OperationEvent), NEW op, OperationState(s, op) # None
    PROVE  OperationState(s, op) \in OperationEvent /\ OperationState(s, op).op = op
<1> DEFINE mine == {i \in DOMAIN s : s[i].op = op}
<1>1. mine # {} /\ OperationState(s, op) = s[Max(mine)]
    BY DEF OperationState
<1>2. Len(s) \in Nat /\ DOMAIN s = 1..Len(s)
    BY LenProperties
<1>3. Max(mine) \in mine
    BY <1>1, <1>2, MaxIsMember
<1>4. s[Max(mine)] \in OperationEvent
    BY <1>2, <1>3, ElementOfSeq
<1> QED
    BY <1>1, <1>3, <1>4

LEMMA StateAppend ==
    ASSUME NEW s \in Seq(OperationEvent), NEW e \in OperationEvent, NEW op
    PROVE  OperationState(Append(s, e), op) =
               IF e.op = op THEN e ELSE OperationState(s, op)
<1> DEFINE t == Append(s, e)
           n == Len(s)
           mine == {i \in DOMAIN s : s[i].op = op}
           after == {i \in DOMAIN t : t[i].op = op}
<1>1. /\ n \in Nat /\ DOMAIN s = 1..n
      /\ t \in Seq(OperationEvent) /\ Len(t) = n + 1
      /\ \A i \in 1..n : t[i] = s[i]
      /\ t[n + 1] = e
    BY LenProperties, AppendProperties
<1>2. DOMAIN t = 1..(n + 1)
    BY <1>1, LenProperties
<1> HIDE DEF t, n
<1>3. CASE e.op = op
    <2>1. n + 1 \in after /\ after \subseteq Int /\ \A y \in after : y <= n + 1
        BY <1>1, <1>2, <1>3
    <2>2. Max(after) = n + 1
        BY <2>1, MaxIs
    <2> QED
        BY <1>1, <1>3, <2>1, <2>2 DEF OperationState, t
<1>4. CASE e.op # op
    <2>1. after = mine
        BY <1>1, <1>2, <1>4
    <2>2. mine # {} => t[Max(mine)] = s[Max(mine)]
        BY <1>1, MaxIsMember
    <2> QED
        BY <1>4, <2>1, <2>2 DEF OperationState, t
<1> QED
    BY <1>3, <1>4

LEMMA LatestType ==
    ASSUME NEW s \in Seq(IntegrityCheckpoint), NEW j, Latest(s, j) # None
    PROVE  Latest(s, j) \in IntegrityCheckpoint
<1> DEFINE mine == {i \in DOMAIN s : s[i].journal = j}
<1>1. mine # {} /\ Latest(s, j) = s[Max(mine)]
    BY DEF Latest
<1>2. Len(s) \in Nat /\ DOMAIN s = 1..Len(s)
    BY LenProperties
<1>3. Max(mine) \in mine
    BY <1>1, <1>2, MaxIsMember
<1> QED
    BY <1>1, <1>2, <1>3, ElementOfSeq

LEMMA LatestAppend ==
    ASSUME NEW s \in Seq(IntegrityCheckpoint), NEW c \in IntegrityCheckpoint, NEW j
    PROVE  Latest(Append(s, c), j) = IF c.journal = j THEN c ELSE Latest(s, j)
<1> DEFINE t == Append(s, c)
           n == Len(s)
           mine == {i \in DOMAIN s : s[i].journal = j}
           after == {i \in DOMAIN t : t[i].journal = j}
<1>1. /\ n \in Nat /\ DOMAIN s = 1..n
      /\ t \in Seq(IntegrityCheckpoint) /\ Len(t) = n + 1
      /\ \A i \in 1..n : t[i] = s[i]
      /\ t[n + 1] = c
    BY LenProperties, AppendProperties
<1>2. DOMAIN t = 1..(n + 1)
    BY <1>1, LenProperties
<1> HIDE DEF t, n
<1>3. CASE c.journal = j
    <2>1. n + 1 \in after /\ after \subseteq Int /\ \A y \in after : y <= n + 1
        BY <1>1, <1>2, <1>3
    <2>2. Max(after) = n + 1
        BY <2>1, MaxIs
    <2> QED
        BY <1>1, <1>3, <2>1, <2>2 DEF Latest, t
<1>4. CASE c.journal # j
    <2>1. after = mine
        BY <1>1, <1>2, <1>4
    <2>2. mine # {} => t[Max(mine)] = s[Max(mine)]
        BY <1>1, MaxIsMember
    <2> QED
        BY <1>4, <2>1, <2>2 DEF Latest, t
<1> QED
    BY <1>3, <1>4

-----------------------------------------------------------------------------
(* Prefixes, and journals that verify.                                     *)

LEMMA PrefixItself ==
    ASSUME NEW S, NEW s \in Seq(S)
    PROVE  IsPrefix(s, s)
<1>1. Len(s) \in Nat
    BY LenProperties
<1> QED
    BY <1>1 DEF IsPrefix

LEMMA SubSeqOfAppend ==
    ASSUME NEW S, NEW t \in Seq(S), NEW e \in S, NEW n \in 0..Len(t)
    PROVE  SubSeq(Append(t, e), 1, n) = SubSeq(t, 1, n)
<1>1. /\ Len(t) \in Nat /\ t \in [1..Len(t) -> S]
      /\ \A i \in 1..Len(t) : Append(t, e)[i] = t[i]
      /\ Append(t, e) \in Seq(S)
    BY LenProperties, AppendProperties
<1>2. n \in Int /\ 1 \in Int /\ \A i \in 1..n : t[i] \in S /\ Append(t, e)[i] = t[i]
    BY <1>1
<1> DEFINE u == SubSeq(Append(t, e), 1, n)
           v == SubSeq(t, 1, n)
<1>3. /\ u \in Seq(S) /\ v \in Seq(S) /\ Len(u) = Len(v)
      /\ \A i \in 1..n - 1 + 1 : u[i] = Append(t, e)[1 + i - 1] /\ v[i] = t[1 + i - 1]
      /\ Len(v) = IF 1 <= n THEN n - 1 + 1 ELSE 0
    <2>1. \A i \in 1..n : Append(t, e)[i] \in S
        BY <1>2
    <2>2. /\ u \in Seq(S) /\ Len(u) = IF 1 <= n THEN n - 1 + 1 ELSE 0
          /\ \A i \in 1..n - 1 + 1 : u[i] = Append(t, e)[1 + i - 1]
        BY <1>2, <2>1, SubSeqProperties
    <2>3. /\ v \in Seq(S) /\ Len(v) = IF 1 <= n THEN n - 1 + 1 ELSE 0
          /\ \A i \in 1..n - 1 + 1 : v[i] = t[1 + i - 1]
        BY <1>2, SubSeqProperties
    <2> QED
        BY <2>2, <2>3
<1> HIDE DEF u, v
<1>4. \A i \in 1..Len(u) : u[i] = v[i]
    BY <1>1, <1>2, <1>3
<1>5. u = v
    BY <1>3, <1>4, SeqEqual
<1> QED
    BY <1>5 DEF u, v

LEMMA PrefixOfAppend ==
    ASSUME NEW S, NEW R, NEW s \in Seq(R), NEW t \in Seq(S), NEW e \in S, IsPrefix(s, t)
    PROVE  IsPrefix(s, Append(t, e))
<1>1. /\ Len(s) \in Nat /\ Len(t) \in Nat /\ Len(s) <= Len(t)
      /\ SubSeq(s, 1, Len(s)) = SubSeq(t, 1, Len(s))
      /\ Len(Append(t, e)) = Len(t) + 1
    BY LenProperties, AppendProperties DEF IsPrefix
<1>2. SubSeq(Append(t, e), 1, Len(s)) = SubSeq(t, 1, Len(s))
    BY <1>1, SubSeqOfAppend
<1> QED
    BY <1>1, <1>2 DEF IsPrefix

\* A journal stays readable with an event that a reader accepts next.
LEMMA VerifiesAppend ==
    ASSUME NEW s \in Seq(OperationEvent), NEW e \in OperationEvent,
           Verifies(s), Applies(OperationState(s, e.op), e)
    PROVE  Verifies(Append(s, e))
<1> DEFINE t == Append(s, e)
<1>1. /\ Len(s) \in Nat /\ DOMAIN s = 1..Len(s)
      /\ t \in Seq(OperationEvent) /\ Len(t) = Len(s) + 1
      /\ \A i \in 1..Len(s) : t[i] = s[i]
      /\ t[Len(s) + 1] = e
    BY LenProperties, AppendProperties
<1>2. DOMAIN t = 1..(Len(s) + 1)
    BY <1>1, LenProperties
<1>3. \A i \in 1..(Len(s) + 1) : SubSeq(t, 1, i - 1) = SubSeq(s, 1, i - 1)
    BY <1>1, SubSeqOfAppend
<1>4. SubSeq(s, 1, Len(s)) = s
    BY SubSeqFull
<1> HIDE DEF t
<1>5. ASSUME NEW i \in DOMAIN t
      PROVE  Applies(OperationState(SubSeq(t, 1, i - 1), t[i].op), t[i])
    <2>1. CASE i = Len(s) + 1
        <3>1. i - 1 = Len(s) /\ t[i] = e
            BY <1>1, <2>1
        <3>2. SubSeq(t, 1, i - 1) = s
            BY <1>2, <1>3, <1>4, <3>1
        <3> QED
            BY <3>1, <3>2
    <2>2. CASE i # Len(s) + 1
        <3>1. i \in DOMAIN s /\ t[i] = s[i]
            BY <1>1, <1>2, <2>2
        <3>2. SubSeq(t, 1, i - 1) = SubSeq(s, 1, i - 1)
            BY <1>2, <1>3
        <3> QED
            BY <3>1, <3>2 DEF Verifies
    <2> QED
        BY <2>1, <2>2
<1> QED
    BY <1>5 DEF Verifies, t

-----------------------------------------------------------------------------
(* Trees.                                                                  *)

LEMMA TreeFields ==
    ASSUME NEW t \in Tree
    PROVE  /\ t # None
           /\ t.audit \in Seq(AuditEvent) /\ t.operations \in Seq(OperationEvent)
           /\ t.torn \subseteq Journal /\ t.marker \in RestoreMarker \cup {None}
           /\ t["audit"] = t.audit /\ t["operations"] = t.operations
           /\ \A j \in Journal : t[j] \in History
  BY BackupAssumption DEF Tree, Journal, History

LEMMA AppendedAudit ==
    ASSUME NEW t \in Tree, NEW e \in AuditEvent
    PROVE  Appended(t, "audit", e) =
               [audit |-> Append(t.audit, e), operations |-> t.operations,
                torn |-> t.torn, marker |-> t.marker]
<1> DEFINE u == Appended(t, "audit", e)
           v == [audit |-> Append(t.audit, e), operations |-> t.operations,
                 torn |-> t.torn, marker |-> t.marker]
<1>1. t = [audit |-> t.audit, operations |-> t.operations, torn |-> t.torn,
           marker |-> t.marker]
    BY DEF Tree
<1>2. u = [t EXCEPT !.audit = Append(t.audit, e)]
    BY DEF Appended
<1>3. u = v
    BY <1>1, <1>2
<1> QED
    BY <1>3

LEMMA AppendedOperations ==
    ASSUME NEW t \in Tree, NEW e \in OperationEvent
    PROVE  Appended(t, "operations", e) =
               [audit |-> t.audit, operations |-> Append(t.operations, e),
                torn |-> t.torn, marker |-> t.marker]
<1> DEFINE u == Appended(t, "operations", e)
           v == [audit |-> t.audit, operations |-> Append(t.operations, e),
                 torn |-> t.torn, marker |-> t.marker]
<1>1. t = [audit |-> t.audit, operations |-> t.operations, torn |-> t.torn,
           marker |-> t.marker]
    BY DEF Tree
<1>2. u = [t EXCEPT !.operations = Append(t.operations, e)]
    BY DEF Appended
<1>3. u = v
    BY <1>1, <1>2
<1> QED
    BY <1>3

\* Tree u has the journals of t, longer or not, and is as readable.
Grown(t, u) ==
    /\ u \in Tree /\ u.marker = t.marker
    /\ \A j \in Journal, head \in History : IsPrefix(head, t[j]) => IsPrefix(head, u[j])
    /\ \A op \in Operation : OperationState(t.operations, op) # None =>
                                 OperationState(u.operations, op) # None
    /\ Verifies(t.operations) => Verifies(u.operations)

LEMMA PrefixGrows ==
    ASSUME NEW S, NEW t \in Seq(S), NEW e \in S, NEW head \in History, IsPrefix(head, t)
    PROVE  IsPrefix(head, Append(t, e))
<1>1. CASE head \in Seq(AuditEvent)
    BY <1>1, PrefixOfAppend
<1>2. CASE head \in Seq(OperationEvent)
    BY <1>2, PrefixOfAppend
<1> QED
    BY <1>1, <1>2 DEF History

LEMMA GrownAudit ==
    ASSUME NEW t \in Tree, NEW e \in AuditEvent
    PROVE  Grown(t, Appended(t, "audit", e))
<1> DEFINE u == Appended(t, "audit", e)
<1>1. u = [audit |-> Append(t.audit, e), operations |-> t.operations,
           torn |-> t.torn, marker |-> t.marker]
    BY AppendedAudit
<1>2. Append(t.audit, e) \in Seq(AuditEvent)
    BY TreeFields, AppendProperties
<1>3. u \in Tree
    BY <1>1, <1>2, TreeFields DEF Tree
<1>4. u.marker = t.marker /\ u.operations = t.operations /\ u.audit = Append(t.audit, e)
    BY <1>1
<1> HIDE DEF u
<1>5. ASSUME NEW j \in Journal, NEW head \in History, IsPrefix(head, t[j])
      PROVE  IsPrefix(head, u[j])
    <2>1. CASE j = "audit"
        <3>1. t[j] = t.audit /\ u[j] = Append(t.audit, e)
            BY <1>3, <1>4, <2>1, TreeFields
        <3> QED
            BY <1>5, <3>1, TreeFields, PrefixGrows
    <2>2. CASE j = "operations"
        BY <1>3, <1>4, <1>5, <2>2, TreeFields
    <2> QED
        BY <2>1, <2>2 DEF Journal
<1>6. Grown(t, u)
    BY <1>3, <1>4, <1>5 DEF Grown
<1> QED
    BY <1>6 DEF u

LEMMA GrownOperations ==
    ASSUME NEW t \in Tree, NEW e \in OperationEvent,
           Applies(OperationState(t.operations, e.op), e)
    PROVE  Grown(t, Appended(t, "operations", e))
<1> DEFINE u == Appended(t, "operations", e)
<1>1. u = [audit |-> t.audit, operations |-> Append(t.operations, e),
           torn |-> t.torn, marker |-> t.marker]
    BY AppendedOperations
<1>2. Append(t.operations, e) \in Seq(OperationEvent)
    BY TreeFields, AppendProperties
<1>3. u \in Tree
    BY <1>1, <1>2, TreeFields DEF Tree
<1>4. u.marker = t.marker /\ u.audit = t.audit /\ u.operations = Append(t.operations, e)
    BY <1>1
<1> HIDE DEF u
<1>5. ASSUME NEW j \in Journal, NEW head \in History, IsPrefix(head, t[j])
      PROVE  IsPrefix(head, u[j])
    <2>1. CASE j = "operations"
        <3>1. t[j] = t.operations /\ u[j] = Append(t.operations, e)
            BY <1>3, <1>4, <2>1, TreeFields
        <3> QED
            BY <1>5, <3>1, TreeFields, PrefixGrows
    <2>2. CASE j = "audit"
        BY <1>3, <1>4, <1>5, <2>2, TreeFields
    <2> QED
        BY <2>1, <2>2 DEF Journal
<1>6. e # None
    BY BackupAssumption
<1>7. ASSUME NEW op \in Operation, OperationState(t.operations, op) # None
      PROVE  OperationState(u.operations, op) # None
    BY <1>4, <1>6, <1>7, StateAppend, TreeFields
<1>8. Verifies(t.operations) => Verifies(u.operations)
    BY <1>4, VerifiesAppend, TreeFields
<1>9. Grown(t, u)
    BY <1>3, <1>4, <1>5, <1>7, <1>8 DEF Grown
<1> QED
    BY <1>9 DEF u

LEMMA GrownSame ==
    ASSUME NEW t \in Tree
    PROVE  Grown(t, t)
  BY DEF Grown

LEMMA GrownTorn ==
    ASSUME NEW t \in Tree, NEW T \in SUBSET Journal
    PROVE  Grown(t, [t EXCEPT !.torn = @ \cup T])
<1> DEFINE u == [t EXCEPT !.torn = @ \cup T]
<1>1. u \in Tree /\ u.marker = t.marker /\ u.operations = t.operations /\ u.audit = t.audit
    BY DEF Tree
<1> HIDE DEF u
<1>2. \A j \in Journal : u[j] = t[j]
    BY <1>1, TreeFields DEF Journal
<1>3. Grown(t, u)
    BY <1>1, <1>2 DEF Grown
<1> QED
    BY <1>3 DEF u

\* The calls of the operation journal append what a reader accepts.
LEMMA GrownBegun ==
    ASSUME NEW t \in Tree, NEW op \in Operation, NEW target \in Targets,
           OperationState(t.operations, op) = None
    PROVE  Grown(t, Begun(t, op, target))
<1> DEFINE e == [op |-> op, target |-> target, attempt |-> 1, status |-> "started"]
<1>1. e \in OperationEvent
    BY DEF OperationEvent, Status
<1>2. Applies(OperationState(t.operations, e.op), e)
    BY DEF Applies
<1>3. Grown(t, Appended(t, "operations", e))
    BY <1>1, <1>2, GrownOperations
<1> QED
    BY <1>3 DEF Begun

LEMMA GrownRetried ==
    ASSUME NEW t \in Tree, NEW op \in Operation,
           OperationState(t.operations, op) # None,
           OperationState(t.operations, op).status = "failed"
    PROVE  Grown(t, Retried(t, op))
<1> DEFINE c == OperationState(t.operations, op)
           e == [c EXCEPT !.attempt = @ + 1, !.status = "started"]
<1>1. c \in OperationEvent /\ c.op = op /\ c # None
    BY StateType, TreeFields
<1>2. c.status = "failed"
    OBVIOUS
<1> HIDE DEF c
<1>3. /\ e \in OperationEvent /\ e.op = op /\ e.target = c.target
      /\ e.attempt = c.attempt + 1 /\ e.status = "started"
    <2>1. /\ c = [op |-> c.op, target |-> c.target, attempt |-> c.attempt,
                  status |-> c.status]
          /\ c.target \in Targets /\ c.attempt \in Nat
        BY <1>1 DEF OperationEvent
    <2>2. e = [op |-> c.op, target |-> c.target, attempt |-> c.attempt + 1,
               status |-> "started"]
        <3> DEFINE f == [c EXCEPT !.attempt = c.attempt + 1]
        <3>1. f = [op |-> c.op, target |-> c.target, attempt |-> c.attempt + 1,
                   status |-> c.status]
            BY <2>1
        <3>2. e = [f EXCEPT !.status = "started"]
            OBVIOUS
        <3> HIDE DEF f
        <3> QED
            BY <3>1, <3>2
    <2>3. c.attempt + 1 \in Nat
        BY <2>1
    <2> QED
        BY <1>1, <2>1, <2>2, <2>3 DEF OperationEvent, Status
<1> HIDE DEF e
<1>4. Applies(c, e)
    BY <1>1, <1>2, <1>3 DEF Applies
<1>5. Applies(OperationState(t.operations, e.op), e)
    BY <1>3, <1>4 DEF c
<1>6. Grown(t, Appended(t, "operations", e))
    BY <1>3, <1>5, GrownOperations
<1> QED
    BY <1>6 DEF Retried, e, c

LEMMA GrownFinished ==
    ASSUME NEW t \in Tree, NEW op \in Operation, NEW status \in {"succeeded", "failed"},
           ~CannotFinish(t, op, status)
    PROVE  Grown(t, Finished(t, op, status))
<1> DEFINE c == OperationState(t.operations, op)
           e == [c EXCEPT !.status = status]
<1>1. c # None /\ c.status \in {"started", status}
    BY DEF CannotFinish
<1>2. c \in OperationEvent /\ c.op = op
    BY <1>1, StateType, TreeFields
<1>3. CASE c.status = status
    <2>1. Finished(t, op, status) = t
        BY <1>3 DEF Finished
    <2> QED
        BY <2>1, GrownSame
<1>4. CASE c.status = "started"
    <2> HIDE DEF c
    <2>1. /\ e \in OperationEvent /\ e.op = op /\ e.target = c.target
          /\ e.attempt = c.attempt /\ e.status = status
        BY <1>2 DEF OperationEvent, Status
    <2> HIDE DEF e
    <2>2. Applies(c, e)
        BY <1>1, <1>4, <2>1 DEF Applies
    <2>3. Applies(OperationState(t.operations, e.op), e)
        BY <2>1, <2>2 DEF c
    <2>4. Grown(t, Appended(t, "operations", e))
        BY <2>1, <2>3, GrownOperations
    <2>5. Finished(t, op, status) = Appended(t, "operations", e)
        BY <1>4 DEF Finished, e, c
    <2> QED
        BY <2>4, <2>5
<1> QED
    BY <1>1, <1>3, <1>4

-----------------------------------------------------------------------------
(* One process moves.                                                      *)

Places == RestorePC \cup OrdinaryPC

LEMMA RunningFacts ==
    ASSUME NEW me \in Running
    PROVE  /\ me.pc \in Places /\ me.pc # "idle" /\ me.op \in Operation
           /\ me.target \in Targets /\ me.epoch \in Nat /\ me.tries \in Nat
           /\ me.stage \in {"request", "finish", "failure", "evidence"}
           /\ me.journal \in Journal /\ me.head \in History
           /\ me = [pc |-> me.pc, op |-> me.op, target |-> me.target, stage |-> me.stage,
                    epoch |-> me.epoch, journal |-> me.journal, head |-> me.head,
                    tries |-> me.tries]
  BY DEF Running, Places, RestorePC, OrdinaryPC

LEMMA AtIsRunning ==
    ASSUME TypeOK, NEW p \in Process, ~At(p, "idle")
    PROVE  proc[p] \in Running
  BY DEF TypeOK, At, Idle

\* The process goes to another place, or its command ends.
Goes(p, x) ==
    /\ proc' = [proc EXCEPT ![p] = proc'[p]]
    /\ proc'[p] \in Running /\ proc'[p].pc = x
    /\ proc'[p].op = proc[p].op /\ proc'[p].stage = proc[p].stage
    /\ proc'[p].journal = proc[p].journal /\ proc'[p].head = proc[p].head

Leaves(p) == proc' = [proc EXCEPT ![p] = proc'[p]] /\ proc'[p] = Idle

LEMMA ToGoes ==
    ASSUME TypeOK, NEW p \in Process, proc[p] \in Running, NEW x \in Places, To(p, x)
    PROVE  Goes(p, x)
<1>1. proc' = [proc EXCEPT ![p] = [proc[p] EXCEPT !.pc = x]]
    BY DEF To
<1>2. proc'[p] = [proc[p] EXCEPT !.pc = x] /\ proc' = [proc EXCEPT ![p] = proc'[p]]
    BY <1>1 DEF TypeOK
<1>3. [proc[p] EXCEPT !.pc = x] \in Running
    BY DEF Running, Places
<1> QED
    BY <1>2, <1>3, RunningFacts DEF Goes

LEMMA ExitLeaves ==
    ASSUME TypeOK, NEW p \in Process, Exit(p)
    PROVE  Leaves(p)
  BY DEF TypeOK, Exit, Leaves

\* What every step of a running command does to the processes.
Acts(p) ==
    /\ proc[p] \in Running
    /\ proc' = [proc EXCEPT ![p] = proc'[p]]
    /\ \/ proc'[p] = Idle
       \/ proc'[p] \in Running /\ proc'[p].op = proc[p].op
    /\ archives' \in [Archive -> BackupManifest \cup {None}]
    /\ \A a \in Archive : archives[a] # None => archives'[a] # None

LEMMA OthersStay ==
    ASSUME TypeOK, NEW p \in Process, proc' = [proc EXCEPT ![p] = proc'[p]]
    PROVE  \A q \in Process : q # p => proc'[q] = proc[q]
  BY DEF TypeOK

LEMMA RestoreIsAlone ==
    ASSUME Inv, NEW p \in Process, NEW q \in Process, p # q, InRestore(p)
    PROVE  At(q, "idle")
<1>1. ~At(p, "idle")
    BY DEF InRestore, InEvidence, RestorePC, At
<1>2. ~Release(Op(p))
    BY DEF Inv, ProcessOK, KindOK, Release, Offline
<1> QED
    BY <1>1, <1>2 DEF Inv, Alone

LEMMA ActsOthers ==
    ASSUME Inv, NEW p \in Process, Acts(p)
    PROVE  /\ Alone' /\ proc' \in [Process -> Running \cup {Idle}]
           /\ \A q \in Process : q # p =>
                  proc'[q] = proc[q] /\ ~InRestore(q) /\ KindOK(q)' /\ PlaceOK(q)'
<1>1. TypeOK
    BY DEF Inv
<1>2. \A q \in Process : q # p => proc'[q] = proc[q]
    BY <1>1, OthersStay DEF Acts
<1>3. proc' \in [Process -> Running \cup {Idle}]
    BY <1>1 DEF Acts, TypeOK
<1>4. proc[p].pc # "idle"
    BY RunningFacts DEF Acts
<1>5. Alone'
    <2> SUFFICES ASSUME NEW q \in Process, NEW r \in Process, q # r,
                        proc'[q].pc # "idle", proc'[r].pc # "idle"
                 PROVE  Release(proc'[q].op) /\ Release(proc'[r].op)
        BY DEF Alone, At, Op, Release, Offline, Kind
    <2>1. proc'[p].pc # "idle" => proc'[p].op = proc[p].op
        BY DEF Acts, Idle
    <2>2. \A x \in Process : proc'[x].pc # "idle" =>
              proc[x].pc # "idle" /\ proc'[x].op = proc[x].op
        BY <1>2, <1>4, <2>1
    <2> QED
        BY <2>2 DEF Inv, Alone, At, Op
<1>6. ASSUME NEW q \in Process, q # p
      PROVE  proc'[q] = proc[q] /\ ~InRestore(q) /\ KindOK(q)' /\ PlaceOK(q)'
    <2>1. proc'[q] = proc[q]
        BY <1>2, <1>6
    <2>2. ~InRestore(q)
        BY <1>4, <1>6, RestoreIsAlone DEF At
    <2>3. ~InRestore(q)'
        BY <2>1, <2>2 DEF InRestore, InEvidence
    <2>4. PlaceOK(q)'
        BY <2>3 DEF InRestore, PlaceOK, InEvidence, RestorePC, At
    <2>5. KindOK(q)
        BY DEF Inv, ProcessOK
    <2>6. ASSUME proc[q].pc # "idle", Kind(proc[q].op) = "restore"
          PROVE  archives'[Command[proc[q].op].archive] # None
        <3>1. proc[q].op \in Operation
            BY <1>1, <2>6, AtIsRunning, RunningFacts DEF At
        <3>2. Command[proc[q].op].archive \in Archive
            BY <2>6, <3>1, BackupAssumption DEF Kind
        <3> QED
            BY <2>5, <2>6, <3>2 DEF KindOK, Verified, At, Op, Acts
    <2>7. KindOK(q)'
        BY <2>1, <2>2, <2>3, <2>5, <2>6
           DEF KindOK, Verified, At, Op, Kind, InEvidence
    <2> QED
        BY <2>1, <2>2, <2>4, <2>7
<1> QED
    BY <1>3, <1>5, <1>6

\* The command ends, or goes on outside of the restore.
LEMMA PlainPlace ==
    ASSUME Inv, NEW p \in Process, Acts(p),
           \/ proc'[p] = Idle
           \/ proc'[p].pc \in OrdinaryPC /\ proc'[p].stage # "evidence"
    PROVE  KindOK(p)' /\ PlaceOK(p)'
<1>1. ~InRestore(p)'
    BY DEF InRestore, InEvidence, RestorePC, OrdinaryPC, Idle
<1>2. PlaceOK(p)'
    BY <1>1 DEF InRestore, PlaceOK, InEvidence, RestorePC, At
<1>3. ASSUME proc'[p].pc # "idle", Kind(proc'[p].op) = "restore"
      PROVE  archives'[Command[proc'[p].op].archive] # None
    <2>1. proc'[p].op = proc[p].op /\ proc[p].pc # "idle" /\ proc[p].op \in Operation
        BY <1>3, RunningFacts DEF Acts, Idle
    <2>2. Command[proc[p].op].archive \in Archive
        BY <1>3, <2>1, BackupAssumption DEF Kind
    <2> QED
        BY <1>3, <2>1, <2>2 DEF Inv, ProcessOK, KindOK, Verified, At, Op, Acts
<1>4. proc'[p].pc # "idle" => proc'[p].stage # "evidence"
    BY DEF Idle
<1>5. KindOK(p)'
    BY <1>1, <1>3, <1>4 DEF KindOK, Verified, At, Op, Kind
<1> QED
    BY <1>2, <1>5

\* Outside the restore no evidence of one is written.
LEMMA PlainStage ==
    ASSUME Inv, NEW p \in Process, proc[p] \in Running, ~InRestore(p)
    PROVE  proc[p].stage # "evidence"
  BY RunningFacts DEF Inv, ProcessOK, KindOK, At, InRestore, RestorePC

-----------------------------------------------------------------------------
(* A step that leaves the directories where they are.                      *)

Quiet(p) ==
    /\ Acts(p)
    /\ data' = data \/ (data \in Tree /\ Grown(data, data'))
    /\ UNCHANGED <<staging, previous, intent>>

LEMMA QuietTrees ==
    ASSUME Inv, NEW p \in Process, Quiet(p),
           data = None => proc'[p].pc \in {"idle", "moved", "switch", "undo"}
    PROVE  /\ data' \in Tree \cup {None} /\ TreesOK'
           /\ Pending' <=> Pending
           /\ data' = None <=> data = None
<1>1. /\ data' \in Tree \cup {None} /\ (data' = None <=> data = None)
      /\ data # None => data'.marker = data.marker
    BY TreeFields DEF Inv, TypeOK, Quiet, Grown
<1>2. intent' = intent /\ previous' = previous
    BY DEF Quiet
<1>3. \A q \in Process : q # p => proc'[q] = proc[q]
    BY OthersStay DEF Inv, Quiet, Acts
<1>4. AwayOK'
    BY <1>1, <1>2, <1>3 DEF Inv, TreesOK, AwayOK, PhaseIn
<1>5. MarkOK' /\ CommittedOK'
    BY <1>1, <1>2 DEF Inv, TreesOK, MarkOK, CommittedOK, PhaseIn
<1>6. Pending' <=> Pending
    BY <1>1, <1>2 DEF Pending, Switched
<1> QED
    BY <1>1, <1>4, <1>5, <1>6 DEF TreesOK

LEMMA HeadsGrow ==
    ASSUME Inv, data \in Tree, Grown(data, data'), trusted' = trusted, HeadsOf(data)
    PROVE  HeadsOf(data)'
<1> SUFFICES ASSUME NEW j \in Journal, Latest(trusted, j) # None
             PROVE  IsPrefix(Latest(trusted, j).head, data'[j])
    BY DEF HeadsOf
<1>1. Latest(trusted, j).head \in History
    <2>1. Latest(trusted, j) \in IntegrityCheckpoint
        BY LatestType DEF Inv, TypeOK
    <2> QED
        BY <2>1 DEF IntegrityCheckpoint
<1> QED
    BY <1>1 DEF HeadsOf, Grown

LEMMA QuietHeads ==
    ASSUME Inv, NEW p \in Process, Quiet(p), trusted' = trusted,
           data = None => proc'[p].pc \in {"idle", "moved", "switch", "undo"}
    PROVE  HeadsOK'
<1>1. previous' = previous
    BY DEF Quiet
<1>2. /\ Pending' <=> Pending
      /\ data' = None <=> data = None
    BY QuietTrees
<1>3. ASSUME data' # None, ~Pending'
      PROVE  HeadsOf(data)'
    <2>1. HeadsOf(data)
        BY <1>2, <1>3 DEF Inv, HeadsOK
    <2>2. CASE data' = data
        BY <2>1, <2>2 DEF HeadsOf
    <2>3. CASE data \in Tree /\ Grown(data, data')
        BY <2>1, <2>3, HeadsGrow
    <2> QED
        BY <2>2, <2>3 DEF Quiet
<1>4. ASSUME data' = None
      PROVE  HeadsOf(previous)'
    BY <1>1, <1>2, <1>4 DEF Inv, HeadsOK, HeadsOf
<1> QED
    BY <1>3, <1>4 DEF HeadsOK

\* The heads the other commands have verified stay heads of the journals.
LEMMA QuietOthers ==
    ASSUME Inv, NEW p \in Process, Quiet(p), NEW q \in Process, q # p
    PROVE  HeadOK(q)' /\ RetryOK(q)'
<1>1. proc'[q] = proc[q] /\ ~InRestore(q)
    BY ActsOthers DEF Quiet
<1>2. proc'[q].pc # "finalize"
    BY <1>1 DEF InRestore, RestorePC
<1>3. HeadOK(q) /\ RetryOK(q) /\ TypeOK
    BY DEF Inv, ProcessOK
<1>4. ASSUME proc[q].pc \in {"checkpoint", "lost", "retry"}
      PROVE  proc[q].head \in History /\ proc[q].journal \in Journal
             /\ proc[q].op \in Operation
    BY <1>3, <1>4, AtIsRunning, RunningFacts DEF At
<1>5. HeadOK(q)'
    BY <1>1, <1>2, <1>3, <1>4 DEF HeadOK, At, Quiet, Grown
<1>6. RetryOK(q)'
    BY <1>1, <1>3, <1>4 DEF RetryOK, At, Op, Quiet, Grown
<1> QED
    BY <1>5, <1>6

LEMMA QuietJournals ==
    ASSUME Inv, NEW p \in Process, Quiet(p), archives' = archives
    PROVE  JournalsOK'
<1>1. staging' = staging /\ previous' = previous
    BY DEF Quiet
<1>2. data' # None => Verifies(data'.operations)
    BY TreeFields DEF Inv, JournalsOK, JournalsVerify, Quiet, Grown
<1>3. JournalsVerify'
    BY <1>1, <1>2 DEF Inv, JournalsOK, JournalsVerify
<1> QED
    BY <1>3 DEF Inv, JournalsOK, Verified

\* Such a step keeps the invariant if the process knows what its new place asks.
LEMMA QuietStep ==
    ASSUME Inv, NEW p \in Process, Quiet(p),
           data = None => proc'[p].pc \in {"idle", "moved", "switch", "undo"},
           ProcessOK(p)', HeadsOK', JournalsOK',
           trusted' \in Seq(IntegrityCheckpoint), tornStore' \in BOOLEAN,
           releases' \in ReleaseState
    PROVE  Inv'
<1>1. TreesOK' /\ data' \in Tree \cup {None}
    BY QuietTrees
<1>2. Acts(p)
    BY DEF Quiet
<1>3. Alone' /\ proc' \in [Process -> Running \cup {Idle}]
    BY <1>2, ActsOthers
<1>4. \A q \in Process : ProcessOK(q)'
    BY <1>2, ActsOthers, QuietOthers DEF ProcessOK
<1>5. TypeOK'
    BY <1>1, <1>2, <1>3 DEF Inv, TypeOK, Quiet, Acts
<1> QED
    BY <1>1, <1>3, <1>4, <1>5 DEF Inv

\* The most common case: the journals and the place of the process.
LEMMA PlainStep ==
    ASSUME Inv, NEW p \in Process, Quiet(p),
           UNCHANGED <<archives, trusted>>, tornStore' \in BOOLEAN,
           releases' \in ReleaseState,
           data = None => proc'[p].pc \in {"idle", "undo"},
           KindOK(p)' /\ PlaceOK(p)',
           proc'[p].pc \notin {"checkpoint", "lost", "finalize", "retry"}
    PROVE  Inv'
<1>1. data = None => proc'[p].pc \in {"idle", "moved", "switch", "undo"}
    OBVIOUS
<1>2. HeadsOK' /\ JournalsOK'
    BY <1>1, QuietHeads, QuietJournals
<1>3. HeadOK(p)' /\ RetryOK(p)'
    BY DEF HeadOK, RetryOK, At
<1>4. trusted' \in Seq(IntegrityCheckpoint)
    BY DEF Inv, TypeOK
<1> QED
    BY <1>1, <1>2, <1>3, <1>4, QuietStep DEF ProcessOK

-----------------------------------------------------------------------------
(* The commands outside of the restore.                                    *)

LEMMA DataIsThere ==
    ASSUME Inv, NEW p \in Process, proc[p].pc \notin {"idle", "moved", "switch", "undo"}
    PROVE  data \in Tree
  BY DEF Inv, TreesOK, AwayOK, TypeOK

\* The command ends or goes on outside of the restore.
Outside(p) ==
    /\ proc' = [proc EXCEPT ![p] = proc'[p]]
    /\ \/ proc'[p] = Idle
       \/ /\ proc'[p] \in Running /\ proc'[p].op = proc[p].op
          /\ proc'[p].pc \in OrdinaryPC /\ proc'[p].stage # "evidence"

LEMMA LeavesOutside ==
    ASSUME NEW p, Leaves(p)
    PROVE  Outside(p) /\ proc'[p].pc = "idle"
  BY DEF Leaves, Outside, Idle

LEMMA GoesOutside ==
    ASSUME NEW p, NEW x \in OrdinaryPC, Goes(p, x), proc[p].stage # "evidence"
    PROVE  Outside(p) /\ proc'[p].pc = x
  BY DEF Goes, Outside

LEMMA OutsideStep ==
    ASSUME Inv, NEW p \in Process, proc[p] \in Running, Outside(p),
           proc'[p].pc \notin {"checkpoint", "lost", "retry"},
           data = None => proc'[p].pc = "idle",
           data' = data \/ (data \in Tree /\ Grown(data, data')),
           UNCHANGED <<staging, previous, intent, archives, trusted>>,
           tornStore' \in BOOLEAN, releases' \in ReleaseState
    PROVE  Inv'
<1>1. Acts(p)
    BY DEF Inv, TypeOK, Acts, Outside
<1>2. KindOK(p)' /\ PlaceOK(p)'
    BY <1>1, PlainPlace DEF Outside
<1>3. Quiet(p)
    BY <1>1 DEF Quiet
<1>4. proc'[p].pc # "finalize"
    BY DEF Outside, OrdinaryPC, Idle
<1> QED
    BY <1>2, <1>3, <1>4, PlainStep

LEMMA TypesStay ==
    ASSUME Inv
    PROVE  /\ TypeOK
           /\ tornStore' = tornStore => tornStore' \in BOOLEAN
           /\ releases' = releases => releases' \in ReleaseState
  BY DEF Inv, TypeOK

\* At a place outside of the restore.
LEMMA AtOutside ==
    ASSUME Inv, NEW p \in Process,
           proc[p].pc \in OrdinaryPC \ {"audit", "append"}
    PROVE  /\ proc[p] \in Running /\ proc[p].stage # "evidence" /\ data \in Tree
           /\ Op(p) \in Operation /\ TypeOK
<1>1. proc[p].pc \notin {"idle", "moved", "switch", "undo"} /\ TypeOK
    BY DEF OrdinaryPC, Inv
<1>2. proc[p] \in Running
    BY <1>1, AtIsRunning DEF At
<1>3. ~InRestore(p)
    BY DEF InRestore, InEvidence, OrdinaryPC, RestorePC
<1> QED
    BY <1>1, <1>2, <1>3, PlainStage, DataIsThere, RunningFacts DEF Op

LEMMA BeginStep ==
    ASSUME Inv, NEW p \in Process, Begin(p)
    PROVE  Inv'
<1> DEFINE state == OperationState(data.operations, Op(p))
<1>1. /\ proc[p] \in Running /\ proc[p].stage # "evidence" /\ data \in Tree
      /\ Op(p) \in Operation /\ TypeOK
    BY AtOutside DEF Begin, At, OrdinaryPC
<1>2. /\ UNCHANGED <<staging, previous, intent, archives, trusted>>
      /\ tornStore' \in BOOLEAN /\ releases' \in ReleaseState
    BY TypesStay DEF Begin, evidence
<1>3. CASE Exit(p) /\ UNCHANGED data
    BY <1>1, <1>2, <1>3, ExitLeaves, LeavesOutside, OutsideStep
<1>4. CASE /\ state = None
           /\ data' = Begun(data, Op(p), proc[p].target) /\ To(p, "audit")
    <2>1. Grown(data, data')
        BY <1>1, <1>4, GrownBegun, RunningFacts
    <2>2. Goes(p, "audit")
        BY <1>1, <1>4, ToGoes DEF Places, OrdinaryPC
    <2>3. Outside(p) /\ proc'[p].pc = "audit"
        BY <1>1, <2>2, GoesOutside DEF OrdinaryPC
    <2> QED
        BY <1>1, <1>2, <2>1, <2>3, OutsideStep, TreeFields
<1>5. CASE /\ state # None
           /\ To(p, CASE state.status = "started"   -> "audit"
                      [] state.status = "failed"    -> "retry"
                      [] state.status = "succeeded" -> "replay")
           /\ UNCHANGED data
    <2>1. state.status \in Status
        BY <1>1, <1>5, StateType, TreeFields DEF OperationEvent
    <2>2. CASE state.status = "failed"
        <3>1. Goes(p, "retry")
            BY <1>1, <1>5, <2>2, ToGoes DEF Places, OrdinaryPC
        <3>2. Outside(p) /\ proc'[p].pc = "retry" /\ proc'[p].op = proc[p].op
            BY <1>1, <3>1, GoesOutside DEF OrdinaryPC, Goes
        <3>3. Acts(p) /\ Quiet(p)
            BY <1>1, <1>2, <1>5, <3>2 DEF TypeOK, Acts, Quiet, Outside
        <3>4. KindOK(p)' /\ PlaceOK(p)'
            BY <3>2, <3>3, PlainPlace DEF Outside
        <3>5. RetryOK(p)' /\ HeadOK(p)'
            BY <1>5, <3>2 DEF RetryOK, HeadOK, At, Op
        <3>6. HeadsOK' /\ JournalsOK'
            BY <1>1, <1>2, <3>3, TreeFields, QuietHeads, QuietJournals
        <3>7. trusted' \in Seq(IntegrityCheckpoint)
            BY <1>1, <1>2 DEF TypeOK
        <3> QED
            BY <1>1, <1>2, <3>3, <3>4, <3>5, <3>6, <3>7, TreeFields, QuietStep DEF ProcessOK
    <2>3. CASE state.status # "failed"
        <3>1. PICK x \in {"audit", "replay"} : To(p, x)
            BY <1>5, <2>1, <2>3 DEF Status
        <3>2. Outside(p) /\ proc'[p].pc = x
            BY <1>1, <3>1, ToGoes, GoesOutside DEF Places, OrdinaryPC
        <3> QED
            BY <1>1, <1>2, <1>5, <3>1, <3>2, OutsideStep, TreeFields
    <2> QED
        BY <2>2, <2>3
<1> QED
    BY <1>3, <1>4, <1>5 DEF Begin

LEMMA RetryStep ==
    ASSUME Inv, NEW p \in Process, Retry(p)
    PROVE  Inv'
<1> DEFINE state == OperationState(data.operations, Op(p))
<1>1. /\ proc[p] \in Running /\ proc[p].stage # "evidence" /\ data \in Tree
      /\ Op(p) \in Operation /\ TypeOK
    BY AtOutside DEF Retry, At, OrdinaryPC
<1>2. /\ UNCHANGED <<staging, previous, intent, archives, trusted>>
      /\ tornStore' \in BOOLEAN /\ releases' \in ReleaseState
    BY TypesStay DEF Retry, evidence
<1>3. state # None
    BY DEF Inv, ProcessOK, RetryOK, Retry
<1>4. CASE Exit(p) /\ UNCHANGED data
    BY <1>1, <1>2, <1>4, ExitLeaves, LeavesOutside, OutsideStep
<1>5. CASE /\ data' = IF state.status = "failed" THEN Retried(data, Op(p)) ELSE data
           /\ To(p, "audit")
    <2>1. Grown(data, data')
        BY <1>1, <1>3, <1>5, GrownRetried, GrownSame
    <2>2. Outside(p) /\ proc'[p].pc = "audit"
        BY <1>1, <1>5, ToGoes, GoesOutside DEF Places, OrdinaryPC
    <2> QED
        BY <1>1, <1>2, <2>1, <2>2, OutsideStep, TreeFields
<1> QED
    BY <1>4, <1>5 DEF Retry

LEMMA ReplayStep ==
    ASSUME Inv, NEW p \in Process, Replay(p)
    PROVE  Inv'
<1>1. /\ proc[p] \in Running /\ proc[p].stage # "evidence" /\ data \in Tree /\ TypeOK
    BY AtOutside DEF Replay, At, OrdinaryPC
<1>2. /\ UNCHANGED <<data, staging, previous, intent, archives, trusted>>
      /\ tornStore' \in BOOLEAN /\ releases' \in ReleaseState
    BY TypesStay DEF Replay, evidence, trees
<1>3. Outside(p) /\ proc'[p].pc \in {"idle", "act", "again"}
    <2>1. CASE Exit(p)
        BY <1>1, <2>1, ExitLeaves, LeavesOutside
    <2>2. ASSUME NEW x \in {"act", "again"}, To(p, x)
          PROVE  Outside(p) /\ proc'[p].pc = x
        BY <1>1, <2>2, ToGoes, GoesOutside DEF Places, OrdinaryPC
    <2> QED
        BY <2>1, <2>2 DEF Replay
<1> QED
    BY <1>1, <1>2, <1>3, OutsideStep, TreeFields

LEMMA SucceedStep ==
    ASSUME Inv, NEW p \in Process, Succeed(p)
    PROVE  Inv'
<1>1. /\ proc[p] \in Running /\ proc[p].stage # "evidence" /\ data \in Tree
      /\ Op(p) \in Operation /\ TypeOK
    BY AtOutside DEF Succeed, At, OrdinaryPC
<1>2. /\ UNCHANGED <<staging, previous, intent, archives, trusted>>
      /\ tornStore' \in BOOLEAN /\ releases' \in ReleaseState
    BY TypesStay DEF Succeed, evidence
<1>3. CASE CannotFinish(data, Op(p), "succeeded")
    <2>1. Outside(p) /\ proc'[p].pc = "failing" /\ data' = data
        BY <1>1, <1>3, ToGoes, GoesOutside DEF Places, OrdinaryPC, Succeed
    <2> QED
        BY <1>1, <1>2, <2>1, OutsideStep, TreeFields
<1>4. CASE ~CannotFinish(data, Op(p), "succeeded")
    <2>1. Grown(data, data')
        BY <1>1, <1>4, GrownFinished DEF Succeed
    <2>2. proc' = [proc EXCEPT ![p] = [proc[p] EXCEPT !.pc = "audit", !.stage = "finish"]]
        BY <1>4 DEF Succeed
    <2>3. /\ proc'[p] = [proc[p] EXCEPT !.pc = "audit", !.stage = "finish"]
          /\ proc' = [proc EXCEPT ![p] = proc'[p]]
        BY <1>1, <2>2 DEF TypeOK
    <2>4. /\ proc'[p] \in Running /\ proc'[p].op = proc[p].op
          /\ proc'[p].pc = "audit" /\ proc'[p].stage = "finish"
        BY <1>1, <2>3 DEF Running, OrdinaryPC
    <2>5. Outside(p)
        BY <2>3, <2>4 DEF Outside, OrdinaryPC
    <2> QED
        BY <1>1, <1>2, <2>1, <2>4, <2>5, OutsideStep, TreeFields
<1> QED
    BY <1>3, <1>4

LEMMA RecordFailureStep ==
    ASSUME Inv, NEW p \in Process, RecordFailure(p)
    PROVE  Inv'
<1>1. /\ proc[p] \in Running /\ proc[p].stage # "evidence" /\ data \in Tree
      /\ Op(p) \in Operation /\ TypeOK
    BY AtOutside DEF RecordFailure, At, OrdinaryPC
<1>2. /\ UNCHANGED <<data, staging, previous, intent, archives, trusted>>
      /\ tornStore' \in BOOLEAN /\ releases' \in ReleaseState
    BY TypesStay DEF RecordFailure, evidence, trees
<1>3. Outside(p) /\ proc'[p].pc \in {"idle", "fail", "audit"}
    <2>1. CASE Exit(p)
        BY <1>1, <2>1, ExitLeaves, LeavesOutside
    <2>2. ASSUME NEW x \in {"fail", "audit"},
                 proc' = [proc EXCEPT ![p].stage = "failure", ![p].pc = x]
          PROVE  Outside(p) /\ proc'[p].pc = x
        <3>1. proc' = [proc EXCEPT ![p] = [proc[p] EXCEPT !.stage = "failure", !.pc = x]]
            BY <2>2
        <3>2. /\ proc'[p] = [proc[p] EXCEPT !.stage = "failure", !.pc = x]
              /\ proc' = [proc EXCEPT ![p] = proc'[p]]
            BY <1>1, <3>1 DEF TypeOK
        <3>3. /\ proc'[p] \in Running /\ proc'[p].op = proc[p].op
              /\ proc'[p].pc = x /\ proc'[p].stage = "failure"
            BY <1>1, <3>2 DEF Running, OrdinaryPC
        <3> QED
            BY <3>2, <3>3 DEF Outside, OrdinaryPC
    <2> QED
        BY <2>1, <2>2 DEF RecordFailure
<1> QED
    BY <1>1, <1>2, <1>3, OutsideStep, TreeFields

LEMMA FailStep ==
    ASSUME Inv, NEW p \in Process, Fail(p)
    PROVE  Inv'
<1>1. /\ proc[p] \in Running /\ proc[p].stage # "evidence" /\ data \in Tree
      /\ Op(p) \in Operation /\ TypeOK
    BY AtOutside DEF Fail, At, OrdinaryPC
<1>2. /\ UNCHANGED <<staging, previous, intent, archives, trusted>>
      /\ tornStore' \in BOOLEAN /\ releases' \in ReleaseState
    BY TypesStay DEF Fail, evidence
<1>3. CASE CannotFinish(data, Op(p), "failed")
    BY <1>1, <1>2, <1>3, ExitLeaves, LeavesOutside, OutsideStep DEF Fail
<1>4. CASE ~CannotFinish(data, Op(p), "failed")
    <2>1. Grown(data, data')
        BY <1>1, <1>4, GrownFinished DEF Fail
    <2>2. Outside(p) /\ proc'[p].pc = "audit"
        BY <1>1, <1>4, ToGoes, GoesOutside DEF Places, OrdinaryPC, Fail
    <2> QED
        BY <1>1, <1>2, <2>1, <2>2, OutsideStep, TreeFields
<1> QED
    BY <1>3, <1>4

LEMMA AuditOfType ==
    ASSUME NEW p, proc[p] \in Running
    PROVE  AuditOf(p) \in AuditEvent
  BY RunningFacts DEF AuditOf, AuditEvent, Op

LEMMA RefusedOutside ==
    ASSUME TypeOK, NEW p \in Process, proc[p] \in Running, proc[p].stage # "evidence",
           Refused(p)
    PROVE  Outside(p) /\ proc'[p].pc \in {"idle", "failing"}
<1>1. CASE To(p, "failing")
    BY <1>1, ToGoes, GoesOutside DEF Places, OrdinaryPC
<1>2. CASE Exit(p)
    BY <1>2, ExitLeaves, LeavesOutside
<1> QED
    BY <1>1, <1>2 DEF Refused

\* A restore that commits its evidence goes on to do so, or ends.
LEMMA EvidenceStep ==
    ASSUME Inv, NEW p \in Process, InEvidence(p),
           proc' = [proc EXCEPT ![p] = proc'[p]],
           \/ proc'[p] = Idle
           \/ /\ proc'[p] \in Running /\ proc'[p].op = proc[p].op /\ InEvidence(p)'
              /\ proc'[p].pc # "finalize",
           data' = data \/ (data \in Tree /\ Grown(data, data')),
           UNCHANGED <<staging, previous, intent, archives, trusted>>,
           tornStore' \in BOOLEAN, releases' \in ReleaseState
    PROVE  Inv'
<1>1. TypeOK /\ proc[p].pc \notin {"idle", "moved", "switch", "undo"}
    BY DEF Inv, InEvidence
<1>2. proc[p] \in Running /\ data \in Tree
    BY <1>1, AtIsRunning, DataIsThere DEF At
<1>3. Acts(p) /\ Quiet(p)
    BY <1>1, <1>2 DEF TypeOK, Acts, Quiet
<1>4. CASE proc'[p] = Idle
    <2>1. KindOK(p)' /\ PlaceOK(p)'
        BY <1>3, <1>4, PlainPlace
    <2>2. proc'[p].pc = "idle"
        BY <1>4 DEF Idle
    <2> QED
        BY <1>2, <1>3, <2>1, <2>2, TreeFields, PlainStep
<1>5. CASE proc'[p] # Idle
    <2>1. /\ proc'[p] \in Running /\ proc'[p].op = proc[p].op
          /\ InEvidence(p)' /\ proc'[p].pc # "finalize"
        BY <1>5
    <2>2. IsIntent(p, {"committed"}) /\ KindOK(p)
        BY DEF Inv, ProcessOK, PlaceOK
    <2>3. IsIntent(p, {"committed"})'
        BY <2>1, <2>2 DEF IsIntent, PhaseIn, Marker, Snapshot, Op
    <2>4. proc'[p].pc \in {"evidence", "evidence_succeed", "recover", "audit", "append"}
        BY <2>1 DEF InEvidence
    <2>5. PlaceOK(p)'
        BY <2>3, <2>4 DEF PlaceOK, At
    <2>6. InRestore(p) /\ InRestore(p)' /\ proc[p].pc # "idle"
        BY <1>1, <2>1 DEF InRestore
    <2>7. KindOK(p)'
        BY <2>1, <2>2, <2>6 DEF KindOK, At, Op, Kind, Verified
    <2> QED
        BY <1>2, <1>3, <2>4, <2>5, <2>7, TreeFields, PlainStep
<1> QED
    BY <1>4, <1>5

LEMMA AuditCheckStep ==
    ASSUME Inv, NEW p \in Process, AuditCheck(p)
    PROVE  Inv'
<1>1. TypeOK /\ proc[p].pc = "audit"
    BY DEF Inv, AuditCheck, At
<1>2. proc[p] \in Running /\ data \in Tree
    BY <1>1, AtIsRunning, DataIsThere DEF At
<1>3. /\ UNCHANGED <<data, staging, previous, intent, archives, trusted>>
      /\ tornStore' \in BOOLEAN /\ releases' \in ReleaseState
    BY TypesStay DEF AuditCheck, evidence, trees
<1>4. \/ Refused(p)
      \/ To(p, "append")
      \/ To(p, AfterAudit(p))
    BY DEF AuditCheck
<1>5. CASE proc[p].stage = "evidence"
    <2>1. InEvidence(p)
        BY <1>1, <1>5 DEF InEvidence
    <2>2. \/ Leaves(p)
          \/ \E x \in {"append", "evidence_succeed"} : Goes(p, x)
        BY <1>1, <1>2, <1>4, <1>5, ExitLeaves, ToGoes
           DEF Refused, AfterAudit, Places, OrdinaryPC, RestorePC
    <2>3. /\ proc' = [proc EXCEPT ![p] = proc'[p]]
          /\ \/ proc'[p] = Idle
             \/ /\ proc'[p] \in Running /\ proc'[p].op = proc[p].op /\ InEvidence(p)'
                /\ proc'[p].pc # "finalize"
        BY <1>5, <2>2 DEF Leaves, Goes, InEvidence
    <2> QED
        BY <1>3, <2>1, <2>3, EvidenceStep
<1>6. CASE proc[p].stage # "evidence"
    <2>1. Outside(p) /\ proc'[p].pc \in {"idle", "failing", "append", "epoch"}
        BY <1>1, <1>2, <1>4, <1>6, RefusedOutside, ToGoes, GoesOutside
           DEF AfterAudit, Places, OrdinaryPC
    <2> QED
        BY <1>2, <1>3, <2>1, OutsideStep, TreeFields
<1> QED
    BY <1>5, <1>6

LEMMA AuditAppendStep ==
    ASSUME Inv, NEW p \in Process, AuditAppend(p)
    PROVE  Inv'
<1>1. TypeOK /\ proc[p].pc = "append"
    BY DEF Inv, AuditAppend, At
<1>2. proc[p] \in Running /\ data \in Tree
    BY <1>1, AtIsRunning, DataIsThere DEF At
<1>3. /\ UNCHANGED <<staging, previous, intent, archives, trusted>>
      /\ tornStore' \in BOOLEAN /\ releases' \in ReleaseState
    BY TypesStay DEF AuditAppend, evidence
<1>4. /\ data' = data \/ (data \in Tree /\ Grown(data, data'))
      /\ Refused(p) \/ To(p, AfterAudit(p))
    <2>1. Grown(data, Appended(data, "audit", AuditOf(p)))
        BY <1>2, AuditOfType, GrownAudit
    <2> QED
        BY <1>2, <2>1 DEF AuditAppend
<1>5. CASE proc[p].stage = "evidence"
    <2>1. InEvidence(p)
        BY <1>1, <1>5 DEF InEvidence
    <2>2. Leaves(p) \/ Goes(p, "evidence_succeed")
        BY <1>1, <1>2, <1>4, <1>5, ExitLeaves, ToGoes
           DEF Refused, AfterAudit, Places, OrdinaryPC, RestorePC
    <2>3. /\ proc' = [proc EXCEPT ![p] = proc'[p]]
          /\ \/ proc'[p] = Idle
             \/ /\ proc'[p] \in Running /\ proc'[p].op = proc[p].op /\ InEvidence(p)'
                /\ proc'[p].pc # "finalize"
        BY <1>5, <2>2 DEF Leaves, Goes, InEvidence
    <2> QED
        BY <1>3, <1>4, <2>1, <2>3, EvidenceStep
<1>6. CASE proc[p].stage # "evidence"
    <2>1. Outside(p) /\ proc'[p].pc \in {"idle", "failing", "epoch"}
        BY <1>1, <1>2, <1>4, <1>6, RefusedOutside, ToGoes, GoesOutside
           DEF AfterAudit, Places, OrdinaryPC
    <2> QED
        BY <1>2, <1>3, <1>4, <2>1, OutsideStep, TreeFields
<1> QED
    BY <1>5, <1>6

LEMMA EpochType ==
    ASSUME NEW store \in Seq(IntegrityCheckpoint)
    PROVE  Epoch(store) \in Nat
<1>1. \A j \in Journal : Latest(store, j) # None => Latest(store, j).epoch \in Nat
    BY LatestType DEF IntegrityCheckpoint
<1>2. CASE store = <<>>
    BY <1>2 DEF Epoch
<1>3. CASE store # <<>>
    <2>1. Len(store) \in Nat \ {0} /\ DOMAIN store = 1..Len(store)
        BY <1>3, EmptySeq, LenProperties
    <2>2. store[1] \in IntegrityCheckpoint /\ 1 \in DOMAIN store
        BY <2>1, ElementOfSeq
    <2>3. PICK j \in Journal : store[1].journal = j
        BY <2>2 DEF IntegrityCheckpoint
    <2>4. Latest(store, j) # None
        <3> DEFINE mine == {i \in DOMAIN store : store[i].journal = j}
        <3>1. mine # {}
            BY <2>2, <2>3
        <3>2. Max(mine) \in DOMAIN store
            BY <2>1, <3>1, MaxIsMember
        <3>3. store[Max(mine)] \in IntegrityCheckpoint
            BY <2>1, <3>2, ElementOfSeq
        <3> QED
            BY <3>1, <3>3, BackupAssumption DEF Latest
    <2> DEFINE known == {k \in Journal : Latest(store, k) # None}
               E == {Latest(store, k).epoch : k \in known}
    <2>5. E \subseteq Nat /\ E # {}
        BY <1>1, <2>4
    <2>6. PICK m \in E : \A y \in E : y <= m
        <3>1. CASE \A k \in known : Latest(store, k).epoch <= Latest(store, j).epoch
            BY <2>4, <3>1
        <3>2. CASE ~\A k \in known : Latest(store, k).epoch <= Latest(store, j).epoch
            <4>1. PICK k \in known : ~(Latest(store, k).epoch <= Latest(store, j).epoch)
                BY <3>2
            <4>2. /\ Latest(store, k).epoch \in Nat /\ Latest(store, j).epoch \in Nat
                  /\ k # j /\ k \in Journal
                BY <1>1, <2>4, <4>1
            <4>3. \A i \in Journal : i = j \/ i = k
                BY <4>2 DEF Journal
            <4>4. \A y \in E : y <= Latest(store, k).epoch
                BY <4>1, <4>2, <4>3
            <4> QED
                BY <4>1, <4>4
        <3> QED
            BY <3>1, <3>2
    <2>7. E \subseteq Int
        BY <2>5
    <2>8. Max(E) = m
        BY <2>6, <2>7, MaxIs
    <2>9. Epochs(store) = E
        BY DEF Epochs
    <2> QED
        BY <1>3, <2>5, <2>6, <2>8, <2>9 DEF Epoch
<1> QED
    BY <1>2, <1>3

LEMMA AnchorEpochStep ==
    ASSUME Inv, NEW p \in Process, AnchorEpoch(p)
    PROVE  Inv'
<1>1. /\ proc[p] \in Running /\ proc[p].stage # "evidence" /\ data \in Tree /\ TypeOK
    BY AtOutside DEF AnchorEpoch, At, OrdinaryPC
<1>2. /\ UNCHANGED <<data, staging, previous, intent, archives, trusted>>
      /\ tornStore' \in BOOLEAN /\ releases' \in ReleaseState
    BY TypesStay DEF AnchorEpoch, evidence, trees
<1>3. Outside(p) /\ proc'[p].pc \in {"idle", "failing", "verify"}
    <2>1. CASE Refused(p)
        BY <1>1, <2>1, RefusedOutside
    <2>2. CASE proc' = [proc EXCEPT ![p].pc = "verify", ![p].epoch = Epoch(trusted),
                                    ![p].journal = "audit", ![p].tries = 1]
        <3> DEFINE me == [proc[p] EXCEPT !.pc = "verify", !.epoch = Epoch(trusted),
                                         !.journal = "audit", !.tries = 1]
        <3>1. proc' = [proc EXCEPT ![p] = me]
            BY <2>2
        <3>2. proc'[p] = me /\ proc' = [proc EXCEPT ![p] = proc'[p]]
            BY <1>1, <3>1 DEF TypeOK
        <3>3. Epoch(trusted) \in Nat
            BY <1>1, EpochType DEF TypeOK
        <3>4. me \in Running /\ me.op = proc[p].op /\ me.pc = "verify"
              /\ me.stage = proc[p].stage
            BY <1>1, <3>3 DEF Running, OrdinaryPC, Journal
        <3> QED
            BY <1>1, <3>2, <3>4 DEF Outside, OrdinaryPC
    <2> QED
        BY <2>1, <2>2 DEF AnchorEpoch
<1> QED
    BY <1>1, <1>2, <1>3, OutsideStep, TreeFields

\* The parts of OutsideStep, for a step that changes the trusted heads or what the
\* process knows of them.
LEMMA OutsideQuiet ==
    ASSUME Inv, NEW p \in Process, proc[p] \in Running, Outside(p),
           proc'[p].pc # "retry", UNCHANGED <<data, staging, previous, intent, archives>>
    PROVE  /\ Quiet(p) /\ KindOK(p)' /\ PlaceOK(p)' /\ RetryOK(p)'
           /\ proc'[p].pc # "finalize" /\ JournalsOK'
<1>1. Acts(p)
    BY DEF Inv, TypeOK, Acts, Outside
<1>2. KindOK(p)' /\ PlaceOK(p)'
    BY <1>1, PlainPlace DEF Outside
<1>3. Quiet(p)
    BY <1>1 DEF Quiet
<1>4. proc'[p].pc # "finalize"
    BY DEF Outside, OrdinaryPC, Idle
<1> QED
    BY <1>2, <1>3, <1>4, QuietJournals DEF RetryOK, At

LEMMA AnchorVerifyStep ==
    ASSUME Inv, NEW p \in Process, AnchorVerify(p)
    PROVE  Inv'
<1>1. /\ proc[p] \in Running /\ proc[p].stage # "evidence" /\ data \in Tree /\ TypeOK
    BY AtOutside DEF AnchorVerify, At, OrdinaryPC
<1>2. /\ UNCHANGED <<data, staging, previous, intent, archives, trusted>>
      /\ tornStore' \in BOOLEAN /\ releases' \in ReleaseState
    BY TypesStay DEF AnchorVerify, evidence, trees
<1>3. CASE Refused(p)
    <2>1. Outside(p) /\ proc'[p].pc \in {"idle", "failing"}
        BY <1>1, <1>3, RefusedOutside
    <2> QED
        BY <1>1, <1>2, <2>1, OutsideStep, TreeFields
<1>4. CASE proc' = [proc EXCEPT ![p].pc = "checkpoint", ![p].head = data[proc[p].journal]]
    <2> DEFINE j == proc[p].journal
               me == [proc[p] EXCEPT !.pc = "checkpoint", !.head = data[j]]
    <2>1. proc' = [proc EXCEPT ![p] = me]
        BY <1>4
    <2>2. proc'[p] = me /\ proc' = [proc EXCEPT ![p] = proc'[p]]
        BY <1>1, <2>1 DEF TypeOK
    <2>3. j \in Journal /\ data[j] \in History
        BY <1>1, RunningFacts, TreeFields
    <2>4. /\ me \in Running /\ me.op = proc[p].op /\ me.pc = "checkpoint"
          /\ me.stage = proc[p].stage /\ me.head = data[j] /\ me.journal = j
        BY <1>1, <2>3 DEF Running, OrdinaryPC
    <2>5. Outside(p) /\ proc'[p].pc = "checkpoint"
        BY <1>1, <2>2, <2>4 DEF Outside, OrdinaryPC
    <2>6. IsPrefix(data[j], data[j])
        BY <2>3, PrefixItself DEF History
    <2>7. HeadOK(p)'
        BY <1>2, <2>2, <2>4, <2>6 DEF HeadOK, At
    <2>8. /\ Quiet(p) /\ KindOK(p)' /\ PlaceOK(p)' /\ RetryOK(p)' /\ JournalsOK'
        BY <1>1, <1>2, <2>5, OutsideQuiet
    <2>9. HeadsOK' /\ trusted' \in Seq(IntegrityCheckpoint) /\ data # None
        BY <1>1, <1>2, <2>8, QuietHeads, TreeFields DEF TypeOK
    <2> QED
        BY <1>2, <2>7, <2>8, <2>9, QuietStep DEF ProcessOK
<1> QED
    BY <1>3, <1>4 DEF AnchorVerify

LEMMA AfterAnchorOutside ==
    ASSUME TypeOK, NEW p \in Process, proc[p] \in Running, proc[p].stage # "evidence",
           AfterAnchor(p)
    PROVE  Outside(p) /\ proc'[p].pc \in {"idle", "verify", "act"}
<1>0. <<>> \in History
    BY EmptySeq DEF History
<1>1. CASE proc' = [proc EXCEPT ![p].pc = "verify", ![p].journal = "operations",
                                ![p].head = <<>>, ![p].tries = 1]
    <2> DEFINE me == [proc[p] EXCEPT !.pc = "verify", !.journal = "operations",
                                     !.head = <<>>, !.tries = 1]
    <2>1. proc' = [proc EXCEPT ![p] = me]
        BY <1>1
    <2>2. proc'[p] = me /\ proc' = [proc EXCEPT ![p] = proc'[p]]
        BY <2>1 DEF TypeOK
    <2>3. /\ me \in Running /\ me.op = proc[p].op /\ me.pc = "verify"
          /\ me.stage = proc[p].stage
        BY <1>0 DEF Running, OrdinaryPC, Journal
    <2> QED
        BY <2>2, <2>3 DEF Outside, OrdinaryPC
<1>2. CASE proc' = [proc EXCEPT ![p].pc = "act", ![p].head = <<>>]
    <2> DEFINE me == [proc[p] EXCEPT !.pc = "act", !.head = <<>>]
    <2>1. proc' = [proc EXCEPT ![p] = me]
        BY <1>2
    <2>2. proc'[p] = me /\ proc' = [proc EXCEPT ![p] = proc'[p]]
        BY <2>1 DEF TypeOK
    <2>3. /\ me \in Running /\ me.op = proc[p].op /\ me.pc = "act"
          /\ me.stage = proc[p].stage
        BY <1>0 DEF Running, OrdinaryPC
    <2> QED
        BY <2>2, <2>3 DEF Outside, OrdinaryPC
<1>3. CASE Exit(p)
    BY <1>3, ExitLeaves, LeavesOutside
<1> QED
    BY <1>1, <1>2, <1>3 DEF AfterAnchor

\* A head of the journals becomes the trusted one.
LEMMA AnchoredHeads ==
    ASSUME Inv, NEW j \in Journal, NEW head \in History, data \in Tree,
           IsPrefix(head, data[j]), data' = data, Pending' <=> Pending,
           trusted' = Anchored(trusted, j, head)
    PROVE  trusted' \in Seq(IntegrityCheckpoint) /\ HeadsOK'
<1>1. trusted \in Seq(IntegrityCheckpoint) /\ data # None
    BY TreeFields DEF Inv, TypeOK
<1>2. CASE trusted' = trusted
    BY <1>1, <1>2 DEF Inv, HeadsOK, HeadsOf
<1>3. CASE trusted' = Append(trusted, Record(j, head, Epoch(trusted), None))
    <2> DEFINE c == Record(j, head, Epoch(trusted), None)
    <2>1. c \in IntegrityCheckpoint /\ c.journal = j /\ c.head = head
        BY <1>1, EpochType DEF Record, IntegrityCheckpoint
    <2> HIDE DEF c
    <2>2. trusted' = Append(trusted, c)
        BY <1>3 DEF c
    <2>3. trusted' \in Seq(IntegrityCheckpoint)
        BY <1>1, <2>1, <2>2, AppendProperties
    <2>4. ASSUME data' # None, ~Pending'
          PROVE  HeadsOf(data)'
        <3>1. HeadsOf(data)
            BY <2>4 DEF Inv, HeadsOK
        <3> SUFFICES ASSUME NEW k \in Journal, Latest(trusted', k) # None
                     PROVE  IsPrefix(Latest(trusted', k).head, data[k])
            BY DEF HeadsOf
        <3>2. Latest(trusted', k) = IF c.journal = k THEN c ELSE Latest(trusted, k)
            BY <1>1, <2>1, <2>2, LatestAppend
        <3> QED
            BY <2>1, <3>1, <3>2 DEF HeadsOf
    <2> QED
        BY <1>1, <2>3, <2>4 DEF HeadsOK
<1> QED
    BY <1>2, <1>3 DEF Anchored

LEMMA AnchorCheckpointStep ==
    ASSUME Inv, NEW p \in Process, AnchorCheckpoint(p)
    PROVE  Inv'
<1>1. /\ proc[p] \in Running /\ proc[p].stage # "evidence" /\ data \in Tree /\ TypeOK
      /\ data # None
    BY AtOutside, TreeFields DEF AnchorCheckpoint, At, OrdinaryPC
<1>2. /\ UNCHANGED <<data, staging, previous, intent, archives>>
      /\ tornStore' \in BOOLEAN /\ releases' \in ReleaseState
    BY TypesStay DEF AnchorCheckpoint, trees
<1>3. /\ IsPrefix(proc[p].head, data[proc[p].journal])
      /\ proc[p].journal \in Journal /\ proc[p].head \in History
    BY <1>1, RunningFacts DEF Inv, ProcessOK, HeadOK, AnchorCheckpoint, At
<1>4. CASE Refused(p) /\ UNCHANGED trusted
    <2>1. Outside(p) /\ proc'[p].pc \in {"idle", "failing"}
        BY <1>1, <1>4, RefusedOutside
    <2> QED
        BY <1>1, <1>2, <1>4, <2>1, OutsideStep
<1>5. CASE To(p, "lost") /\ UNCHANGED trusted
    <2>1. Goes(p, "lost")
        BY <1>1, <1>5, ToGoes DEF Places, OrdinaryPC
    <2>2. Outside(p) /\ proc'[p].pc = "lost"
        BY <1>1, <2>1, GoesOutside DEF OrdinaryPC
    <2>3. HeadOK(p)'
        BY <1>2, <1>3, <2>1 DEF HeadOK, At, Goes
    <2>4. /\ Quiet(p) /\ KindOK(p)' /\ PlaceOK(p)' /\ RetryOK(p)' /\ JournalsOK'
        BY <1>1, <1>2, <2>2, OutsideQuiet
    <2>5. HeadsOK' /\ trusted' \in Seq(IntegrityCheckpoint)
        BY <1>1, <1>5, <2>4, QuietHeads DEF TypeOK
    <2> QED
        BY <1>1, <1>2, <2>3, <2>4, <2>5, QuietStep DEF ProcessOK
<1>6. CASE /\ trusted' = Anchored(trusted, proc[p].journal, proc[p].head)
           /\ AfterAnchor(p)
    <2>1. Outside(p) /\ proc'[p].pc \in {"idle", "verify", "act"}
        BY <1>1, <1>6, AfterAnchorOutside
    <2>2. /\ Quiet(p) /\ KindOK(p)' /\ PlaceOK(p)' /\ RetryOK(p)' /\ JournalsOK'
        BY <1>1, <1>2, <2>1, OutsideQuiet
    <2>3. Pending' <=> Pending
        BY <1>1, <2>2, QuietTrees
    <2>4. trusted' \in Seq(IntegrityCheckpoint) /\ HeadsOK'
        BY <1>1, <1>2, <1>3, <1>6, <2>3, AnchoredHeads
    <2>5. HeadOK(p)'
        BY <2>1 DEF HeadOK, At
    <2> QED
        BY <1>1, <1>2, <2>2, <2>4, <2>5, QuietStep DEF ProcessOK
<1> QED
    BY <1>4, <1>5, <1>6 DEF AnchorCheckpoint

LEMMA AnchorLostStep ==
    ASSUME Inv, NEW p \in Process, AnchorLost(p)
    PROVE  Inv'
<1>1. /\ proc[p] \in Running /\ proc[p].stage # "evidence" /\ data \in Tree /\ TypeOK
    BY AtOutside DEF AnchorLost, At, OrdinaryPC
<1>2. /\ UNCHANGED <<data, staging, previous, intent, archives, trusted>>
      /\ tornStore' \in BOOLEAN /\ releases' \in ReleaseState
    BY TypesStay DEF AnchorLost, evidence, trees
<1>3. Outside(p) /\ proc'[p].pc \in {"idle", "failing", "verify"}
    <2>1. CASE Refused(p)
        BY <1>1, <2>1, RefusedOutside
    <2>2. CASE proc' = [proc EXCEPT ![p].pc = "verify", ![p].tries = @ + 1]
        <3> DEFINE me == [proc[p] EXCEPT !.pc = "verify", !.tries = proc[p].tries + 1]
        <3>1. proc' = [proc EXCEPT ![p] = me]
            BY <2>2
        <3>2. proc'[p] = me /\ proc' = [proc EXCEPT ![p] = proc'[p]]
            BY <1>1, <3>1 DEF TypeOK
        <3>3. proc[p].tries + 1 \in Nat
            BY <1>1, RunningFacts
        <3>4. /\ me \in Running /\ me.op = proc[p].op /\ me.pc = "verify"
              /\ me.stage = proc[p].stage
            BY <1>1, <3>3 DEF Running, OrdinaryPC
        <3> QED
            BY <1>1, <3>2, <3>4 DEF Outside, OrdinaryPC
    <2> QED
        BY <2>1, <2>2 DEF AnchorLost
<1> QED
    BY <1>1, <1>2, <1>3, OutsideStep, TreeFields

LEMMA ReleasedType ==
    ASSUME Inv, NEW op \in Operation, NEW after \in Released(op)
    PROVE  after \in ReleaseState
<1>1. /\ releases \in ReleaseState
      /\ Kind(op) \in {"stage", "activate"} => Command[op].version \in Version
    BY BackupAssumption DEF Inv, TypeOK, Kind
<1>2. \/ Kind(op) = "stage" /\ after = Staged(Command[op].version)
      \/ Kind(op) = "activate" /\ after = Activated(Command[op].version)
      \/ Kind(op) = "rollback" /\ after = RolledBack
    BY DEF Released
<1> QED
    BY <1>1, <1>2 DEF ReleaseState, Staged, Activated, RolledBack

LEMMA ReleaseActStep ==
    ASSUME Inv, NEW p \in Process, ReleaseAct(p)
    PROVE  Inv'
<1>1. /\ proc[p] \in Running /\ proc[p].stage # "evidence" /\ data \in Tree /\ TypeOK
      /\ Op(p) \in Operation
    BY AtOutside DEF ReleaseAct, At, OrdinaryPC
<1>2. /\ UNCHANGED <<data, staging, previous, intent, archives, trusted>>
      /\ tornStore' \in BOOLEAN
    BY TypesStay DEF ReleaseAct, evidence, trees
<1>3. releases' \in ReleaseState
    BY <1>1, ReleasedType DEF ReleaseAct, TypeOK
<1>4. Exit(p) \/ \E x \in {"succeed", "failing"} : To(p, x)
    BY DEF ReleaseAct
<1>5. Outside(p) /\ proc'[p].pc \in {"idle", "succeed", "failing"}
    BY <1>1, <1>4, ExitLeaves, LeavesOutside, ToGoes, GoesOutside DEF Places, OrdinaryPC
<1> QED
    BY <1>1, <1>2, <1>3, <1>5, OutsideStep, TreeFields

\* What create archives is the tree of the data directory, which reads.
LEMMA BackupActStep ==
    ASSUME Inv, NEW p \in Process, BackupAct(p)
    PROVE  Inv'
<1> DEFINE a == Command[Op(p)].archive
           tree == [data EXCEPT !.marker = None]
           new == [tree |-> tree, by |-> Op(p), epoch |-> proc[p].epoch]
<1>1. /\ proc[p] \in Running /\ proc[p].stage # "evidence" /\ data \in Tree /\ TypeOK
      /\ Op(p) \in Operation /\ proc[p].epoch \in Nat /\ data # None
    BY AtOutside, RunningFacts, TreeFields DEF BackupAct, At, OrdinaryPC
<1>2. /\ UNCHANGED <<data, staging, previous, intent, trusted>>
      /\ tornStore' \in BOOLEAN /\ releases' \in ReleaseState
    BY TypesStay DEF BackupAct, evidence, trees
<1>3. a \in Archive
    BY <1>1, BackupAssumption DEF BackupAct, Kind
<1>4. tree \in Tree /\ tree.operations = data.operations
    BY <1>1 DEF Tree
<1>5. new \in BackupManifest /\ new # None
    BY <1>1, <1>4, BackupAssumption DEF BackupManifest
<1>6. archives' = [archives EXCEPT ![a] = new]
    BY DEF BackupAct
<1>7. /\ archives' \in [Archive -> BackupManifest \cup {None}]
      /\ \A b \in Archive : archives'[b] = IF b = a THEN new ELSE archives[b]
    BY <1>1, <1>3, <1>5, <1>6 DEF TypeOK
<1>8. Goes(p, "succeed")
    BY <1>1, ToGoes DEF BackupAct, Places, OrdinaryPC
<1>9. Outside(p) /\ proc'[p].pc = "succeed"
    BY <1>1, <1>8, GoesOutside DEF OrdinaryPC
<1>10. Acts(p) /\ Quiet(p)
    BY <1>1, <1>2, <1>5, <1>7, <1>9 DEF Acts, Quiet, Outside
<1>11. KindOK(p)' /\ PlaceOK(p)'
    BY <1>9, <1>10, PlainPlace DEF Outside
<1>12. HeadOK(p)' /\ RetryOK(p)'
    BY <1>9 DEF HeadOK, RetryOK, At
<1>13. HeadsOK' /\ trusted' \in Seq(IntegrityCheckpoint)
    BY <1>1, <1>2, <1>10, QuietHeads DEF TypeOK
<1>14. JournalsOK'
    <2>1. new.tree.operations = data.operations /\ Verifies(data.operations)
        BY <1>1, <1>4 DEF Inv, JournalsOK, JournalsVerify
    <2>2. JournalsVerify'
        BY <1>2 DEF Inv, JournalsOK, JournalsVerify
    <2>3. \A b \in Archive : archives'[b] # None => Verifies(archives'[b].tree.operations)
        BY <1>7, <2>1 DEF Inv, JournalsOK, Verified
    <2> QED
        BY <2>2, <2>3 DEF JournalsOK, Verified
<1> QED
    BY <1>1, <1>2, <1>10, <1>11, <1>12, <1>13, <1>14, QuietStep DEF ProcessOK

LEMMA InRestoreRuns ==
    ASSUME Inv, NEW p \in Process, InRestore(p)
    PROVE  /\ proc[p] \in Running /\ Op(p) \in Operation /\ TypeOK
           /\ Kind(Op(p)) = "restore" /\ Command[Op(p)].archive \in Archive
           /\ Snapshot(p) \in BackupManifest /\ Marker(p) \in RestoreMarker
           /\ Marker(p) # None
<1>1. TypeOK /\ proc[p].pc # "idle"
    BY DEF Inv, InRestore, InEvidence, RestorePC
<1>2. proc[p] \in Running /\ Op(p) \in Operation
    BY <1>1, AtIsRunning, RunningFacts DEF At, Op
<1>3. Kind(Op(p)) = "restore" /\ Verified(Command[Op(p)].archive)
    BY <1>1 DEF Inv, ProcessOK, KindOK, At
<1>4. Command[Op(p)].archive \in Archive
    BY <1>2, <1>3, BackupAssumption DEF Kind
<1>5. Snapshot(p) \in BackupManifest
    BY <1>1, <1>3, <1>4 DEF TypeOK, Verified, Snapshot
<1>6. Marker(p) \in RestoreMarker
    BY <1>2, <1>5 DEF Marker, RestoreMarker, BackupManifest
<1>7. Marker(p) # None
    BY <1>6, BackupAssumption
<1> QED
    BY <1>1, <1>2, <1>3, <1>4, <1>5, <1>6, <1>7

\* A restore goes to another place of the restore.
LEMMA RestoreGoes ==
    ASSUME Inv, NEW p \in Process, proc[p] \in Running, Kind(Op(p)) = "restore",
           NEW x \in RestorePC, Goes(p, x), archives' = archives,
           \/ proc[p].stage # "evidence"
           \/ x \in {"evidence", "evidence_succeed", "recover", "finalize", "cleanup"}
    PROVE  Acts(p) /\ KindOK(p)' /\ proc'[p].pc = x /\ Marker(p)' = Marker(p)
<1>1. /\ proc'[p] \in Running /\ proc'[p].pc = x /\ proc'[p].op = proc[p].op
      /\ proc'[p].stage = proc[p].stage
    BY DEF Goes
<1>2. Acts(p)
    BY <1>1 DEF Inv, TypeOK, Acts, Goes
<1>3. proc[p].pc # "idle"
    BY RunningFacts
<1>4. Marker(p)' = Marker(p)
    BY <1>1 DEF Marker, Snapshot, Op
<1>5. KindOK(p)'
    BY <1>1, <1>3 DEF Inv, ProcessOK, KindOK, At, Op, Kind, Verified, InEvidence
<1> QED
    BY <1>1, <1>2, <1>4, <1>5

LEMMA RestoreActStep ==
    ASSUME Inv, NEW p \in Process, RestoreAct(p)
    PROVE  Inv'
<1>1. /\ proc[p] \in Running /\ proc[p].stage # "evidence" /\ data \in Tree /\ TypeOK
      /\ Op(p) \in Operation /\ data # None
    BY AtOutside, TreeFields DEF RestoreAct, At, OrdinaryPC
<1>2. /\ UNCHANGED <<data, staging, previous, intent, archives, trusted>>
      /\ tornStore' \in BOOLEAN /\ releases' \in ReleaseState
    BY TypesStay DEF RestoreAct, evidence, trees
<1>3. Exit(p) \/ To(p, "failing") \/ To(p, "reconcile")
    BY DEF RestoreAct
<1>4. CASE To(p, "reconcile")
    <2>1. Goes(p, "reconcile")
        BY <1>1, <1>4, ToGoes DEF Places, RestorePC
    <2>2. Acts(p) /\ KindOK(p)' /\ proc'[p].pc = "reconcile"
        BY <1>1, <1>2, <2>1, RestoreGoes DEF RestoreAct, RestorePC
    <2>3. PlaceOK(p)'
        BY <2>2 DEF PlaceOK, At, InEvidence
    <2>4. Quiet(p)
        BY <1>2, <2>2 DEF Quiet
    <2> QED
        BY <1>1, <1>2, <2>2, <2>3, <2>4, PlainStep
<1>5. CASE Exit(p) \/ To(p, "failing")
    <2>1. Outside(p) /\ proc'[p].pc \in {"idle", "failing"}
        BY <1>1, <1>5, ExitLeaves, LeavesOutside, ToGoes, GoesOutside
           DEF Places, OrdinaryPC
    <2> QED
        BY <1>1, <1>2, <2>1, OutsideStep
<1> QED
    BY <1>3, <1>4, <1>5

-----------------------------------------------------------------------------
(* Faults, and the start of a command.                                     *)

LEMMA CrashStep ==
    ASSUME Inv, NEW p \in Process, Crash(p)
    PROVE  Inv'
<1>1. TypeOK /\ proc[p] \in Running
    BY AtIsRunning DEF Inv, Crash
<1>2. Outside(p) /\ proc'[p].pc = "idle"
    BY <1>1, ExitLeaves, LeavesOutside DEF Crash
<1>3. /\ UNCHANGED <<staging, previous, intent, archives, trusted>>
      /\ tornStore' \in BOOLEAN /\ releases' \in ReleaseState
    BY <1>1 DEF Crash, TypeOK
<1>4. data' = data \/ (data \in Tree /\ Grown(data, data'))
    <2>1. CASE data' = data
        BY <2>1
    <2>2. CASE TornBy(p) # {} /\ data' = [data EXCEPT !.torn = @ \cup TornBy(p)]
        <3>1. proc[p].pc \notin {"idle", "moved", "switch", "undo"} /\ TornBy(p) \subseteq Journal
            BY <2>2 DEF TornBy, Journal
        <3>2. data \in Tree
            BY <3>1, DataIsThere
        <3> QED
            BY <2>2, <3>1, <3>2, GrownTorn
    <2> QED
        BY <2>1, <2>2 DEF Crash
<1> QED
    BY <1>1, <1>2, <1>3, <1>4, OutsideStep

LEMMA RaiseStep ==
    ASSUME Inv, NEW p \in Process, Raise(p)
    PROVE  Inv'
<1>1. TypeOK /\ proc[p].pc # "idle"
    BY DEF Inv, Raise
<1>2. proc[p] \in Running
    BY <1>1, AtIsRunning DEF At
<1>3. /\ UNCHANGED <<data, staging, previous, intent, archives, trusted>>
      /\ tornStore' \in BOOLEAN /\ releases' \in ReleaseState
    BY TypesStay DEF Raise, evidence, trees
<1>4. CASE To(p, "failing") /\ proc[p].pc \notin {"moved", "switch", "undo"}
           /\ proc[p].stage # "evidence"
    <2>1. Outside(p) /\ proc'[p].pc = "failing"
        BY <1>1, <1>2, <1>4, ToGoes, GoesOutside DEF Places, OrdinaryPC
    <2>2. data # None
        BY <1>1, <1>4, DataIsThere, TreeFields
    <2> QED
        BY <1>2, <1>3, <2>1, <2>2, OutsideStep
<1>5. CASE proc[p].pc \in {"prepare", "move", "moved", "switch"} /\ To(p, "undo")
    <2>1. InRestore(p)
        BY <1>5 DEF InRestore, RestorePC
    <2>2. Goes(p, "undo") /\ Kind(Op(p)) = "restore"
        BY <1>1, <1>2, <1>5, <2>1, ToGoes, InRestoreRuns DEF Places, RestorePC
    <2>3. proc[p].stage # "evidence"
        BY <1>1, <1>5 DEF Inv, ProcessOK, KindOK, InEvidence, At
    <2>4. Acts(p) /\ KindOK(p)' /\ proc'[p].pc = "undo"
        BY <1>2, <1>3, <2>2, <2>3, RestoreGoes DEF RestorePC
    <2>5. Unmarked(data)
        BY <1>5 DEF Inv, ProcessOK, PlaceOK, At, Unmarked
    <2>6. PlaceOK(p)'
        BY <1>3, <2>4, <2>5 DEF PlaceOK, At, InEvidence, Unmarked
    <2>7. Quiet(p)
        BY <1>3, <2>4 DEF Quiet
    <2> QED
        BY <1>3, <2>4, <2>6, <2>7, PlainStep
<1>6. ASSUME proc[p].pc \in {"act", "succeed", "reconcile", "abort", "stage"}
      PROVE  proc[p].stage # "evidence"
    BY <1>1, <1>6 DEF Inv, ProcessOK, KindOK, InEvidence, At
<1> QED
    BY <1>4, <1>5, <1>6 DEF Raise

LEMMA TargetType ==
    ASSUME Inv, NEW op \in Operation, Kind(op) = "restore" => Verified(Command[op].archive)
    PROVE  Target(op) \in Targets
<1>1. /\ Kind(op) \in {"create", "restore", "stage", "activate", "rollback"}
      /\ Kind(op) \in {"create", "restore"} => Command[op].archive \in Archive
      /\ Kind(op) \in {"stage", "activate"} => Command[op].version \in Version
    BY BackupAssumption DEF Kind
<1>2. Kind(op) = "restore" => archives[Command[op].archive].by \in Operation
    BY <1>1 DEF Inv, TypeOK, Verified, BackupManifest
<1>3. releases.previous \in Version \cup {None}
    BY DEF Inv, TypeOK, ReleaseState
<1> QED
    BY <1>1, <1>2, <1>3 DEF Target, Targets

LEMMA StartStep ==
    ASSUME Inv, NEW p \in Process, NEW op \in Operation, Start(p, op)
    PROVE  Inv'
<1> DEFINE new == [pc |-> "begin", op |-> op, target |-> Target(op),
                   stage |-> "request", epoch |-> 0, journal |-> "audit",
                   head |-> <<>>, tries |-> 0]
<1>1. /\ TypeOK /\ data # None
      /\ UNCHANGED <<data, staging, previous, intent, archives, trusted, tornStore, releases>>
    BY DEF Inv, Start, trees, evidence
<1>2. new \in Running
    <2>1. Target(op) \in Targets
        BY TargetType DEF Start
    <2>2. <<>> \in History
        BY EmptySeq DEF History
    <2> QED
        BY <2>1, <2>2 DEF Running, OrdinaryPC, Journal
<1>3. proc' = [proc EXCEPT ![p] = new]
    BY DEF Start
<1> HIDE DEF new
<1>4. /\ proc' \in [Process -> Running \cup {Idle}] /\ proc'[p] = new
      /\ \A q \in Process : q # p => proc'[q] = proc[q]
    BY <1>1, <1>2, <1>3 DEF TypeOK
<1>5. new.pc = "begin" /\ new.op = op /\ new.stage = "request"
    BY DEF new
<1>6. TypeOK'
    BY <1>1, <1>4 DEF TypeOK
<1>7. \A q \in Process : q # p /\ proc[q].pc # "idle" => Release(op) /\ Release(proc[q].op)
    BY DEF Start, At, Op
<1>8. Alone'
    <2> SUFFICES ASSUME NEW q \in Process, NEW r \in Process, q # r,
                        proc'[q].pc # "idle", proc'[r].pc # "idle"
                 PROVE  Release(proc'[q].op) /\ Release(proc'[r].op)
        BY DEF Alone, At, Op, Release, Offline, Kind
    <2>1. CASE q = p
        BY <1>4, <1>5, <1>7, <2>1
    <2>2. CASE r = p
        BY <1>4, <1>5, <1>7, <2>2
    <2>3. CASE q # p /\ r # p
        BY <1>4, <2>3 DEF Inv, Alone, At, Op
    <2> QED
        BY <2>1, <2>2, <2>3
<1>9. TreesOK' /\ HeadsOK' /\ JournalsOK'
    <2>1. TreesOK'
        BY <1>1 DEF Inv, TreesOK, AwayOK, MarkOK, CommittedOK, PhaseIn
    <2>2. HeadsOK'
        BY <1>1 DEF Inv, HeadsOK, HeadsOf, Pending, Switched
    <2>3. JournalsOK'
        BY <1>1 DEF Inv, JournalsOK, JournalsVerify, Verified
    <2> QED
        BY <2>1, <2>2, <2>3
<1>10. ASSUME NEW q \in Process
       PROVE  ProcessOK(q)'
    <2>1. CASE q = p
        <3>1. ~InRestore(p)' /\ proc'[p].stage # "evidence"
            BY <1>4, <1>5 DEF InRestore, InEvidence, RestorePC
        <3>2. KindOK(p)'
            BY <1>1, <1>4, <1>5, <3>1 DEF KindOK, At, Op, Kind, Verified, Start
        <3>3. PlaceOK(p)' /\ HeadOK(p)' /\ RetryOK(p)'
            BY <1>4, <1>5 DEF PlaceOK, HeadOK, RetryOK, At, InEvidence
        <3> QED
            BY <2>1, <3>2, <3>3 DEF ProcessOK
    <2>2. CASE q # p
        <3>1. proc'[q] = proc[q]
            BY <1>4, <2>2
        <3>2. ProcessOK(q)
            BY DEF Inv
        <3> QED
            BY <1>1, <3>1, <3>2
               DEF ProcessOK, KindOK, PlaceOK, HeadOK, RetryOK, At, Op, Kind, Verified,
                   InRestore, InEvidence, HeadsOf, IsMarked, IsIntent, PhaseIn, Marker,
                   Snapshot, Unmarked
    <2> QED
        BY <2>1, <2>2
<1> QED
    BY <1>6, <1>8, <1>9, <1>10 DEF Inv

-----------------------------------------------------------------------------
(* The restore.                                                            *)

LEMMA IntentFields ==
    ASSUME NEW i \in RestoreIntent
    PROVE  /\ i # None /\ i.marker # None
           /\ \A x \in {"prepared", "previous_moved", "committed", "finalized", "aborted"} :
                  /\ [i EXCEPT !.phase = x] \in RestoreIntent
                  /\ [i EXCEPT !.phase = x].phase = x
                  /\ [i EXCEPT !.phase = x].marker = i.marker
  BY BackupAssumption DEF RestoreIntent

LEMMA MarkedTree ==
    ASSUME NEW t \in Tree, NEW m \in RestoreMarker \cup {None}
    PROVE  /\ [t EXCEPT !.marker = m] \in Tree /\ [t EXCEPT !.marker = m].marker = m
           /\ [t EXCEPT !.marker = m].operations = t.operations
           /\ \A j \in Journal : [t EXCEPT !.marker = m][j] = t[j]
<1> DEFINE u == [t EXCEPT !.marker = m]
<1>1. /\ u \in Tree /\ u.marker = m /\ u.operations = t.operations /\ u.audit = t.audit
    BY DEF Tree
<1> HIDE DEF u
<1>2. \A j \in Journal : u[j] = t[j]
    BY <1>1, TreeFields DEF Journal
<1> QED
    BY <1>1, <1>2 DEF u

LEMMA NotSwitched ==
    ASSUME Inv, Unmarked(data)
    PROVE  ~Switched /\ ~Pending /\ (data # None => HeadsOf(data)) /\ ~PhaseIn({"committed"})
<1>1. ~Switched
    BY IntentFields DEF Inv, TypeOK, Unmarked, Switched
<1>2. ~PhaseIn({"committed"})
    BY IntentFields DEF Inv, TypeOK, TreesOK, CommittedOK, Unmarked, PhaseIn
<1> QED
    BY <1>1, <1>2 DEF Pending, Inv, HeadsOK

\* A data directory that has not been switched is not marked.
LEMMA UnmarkedData ==
    ASSUME Inv, ~Switched \/ (intent # None /\ intent.phase \in {"prepared", "aborted"})
    PROVE  Unmarked(data)
  BY DEF Inv, TreesOK, MarkOK, PhaseIn, Unmarked, Switched

LEMMA RestoreStep ==
    ASSUME Inv, NEW p \in Process, InRestore(p), Acts(p),
           data' \in Tree \cup {None}, staging' \in Tree \cup {None},
           previous' \in Tree \cup {None}, intent' \in RestoreIntent \cup {None},
           trusted' \in Seq(IntegrityCheckpoint),
           UNCHANGED <<archives, tornStore, releases>>,
           TreesOK', HeadsOK', JournalsOK', ProcessOK(p)'
    PROVE  Inv'
<1>1. Alone' /\ proc' \in [Process -> Running \cup {Idle}]
    BY ActsOthers
<1>2. TypeOK'
    BY <1>1 DEF Inv, TypeOK
<1>3. ASSUME NEW q \in Process, q # p
      PROVE  ProcessOK(q)'
    <2>1. proc'[q] = proc[q] /\ KindOK(q)' /\ PlaceOK(q)'
        BY <1>3, ActsOthers
    <2>2. proc[q].pc = "idle"
        BY <1>3, RestoreIsAlone DEF At
    <2>3. HeadOK(q)' /\ RetryOK(q)'
        BY <2>1, <2>2 DEF HeadOK, RetryOK, At
    <2> QED
        BY <2>1, <2>3 DEF ProcessOK
<1>4. \A q \in Process : ProcessOK(q)'
    BY <1>3
<1> QED
    BY <1>1, <1>2, <1>4 DEF Inv

\* At most places a process knows nothing of the journals.
LEMMA KnowsNoHeads ==
    ASSUME NEW p, proc'[p].pc \notin {"checkpoint", "lost", "finalize", "retry"}
    PROVE  HeadOK(p)' /\ RetryOK(p)'
  BY DEF HeadOK, RetryOK, At

LEMMA ReconcileKeeps ==
    ASSUME Inv, NEW p \in Process, Reconcile(p), UNCHANGED <<data, staging, previous, intent>>
    PROVE  Inv'
<1>1. InRestore(p) /\ proc[p].pc = "reconcile"
    BY DEF Reconcile, At, InRestore, RestorePC
<1>2. /\ proc[p] \in Running /\ TypeOK /\ Kind(Op(p)) = "restore" /\ data # None
    BY <1>1, InRestoreRuns, DataIsThere, TreeFields
<1>3. /\ UNCHANGED <<archives, trusted>>
      /\ tornStore' \in BOOLEAN /\ releases' \in ReleaseState
    BY TypesStay DEF Reconcile, evidence
<1>4. proc[p].stage # "evidence"
    BY <1>1 DEF Inv, ProcessOK, KindOK, InEvidence, At
<1>5. CASE Exit(p)
    BY <1>2, <1>3, <1>5, ExitLeaves, LeavesOutside, OutsideStep
<1>6. ASSUME NEW x \in {"stage", "abort"}, To(p, x), Unmarked(data),
             x = "abort" => intent # None
      PROVE  Inv'
    <2>1. Goes(p, x)
        BY <1>2, <1>6, ToGoes DEF Places, RestorePC
    <2>2. Acts(p) /\ KindOK(p)' /\ proc'[p].pc = x
        BY <1>2, <1>3, <1>4, <2>1, RestoreGoes DEF RestorePC
    <2>3. PlaceOK(p)'
        BY <1>6, <2>2 DEF PlaceOK, At, InEvidence, Unmarked
    <2>4. Quiet(p)
        BY <2>2 DEF Quiet
    <2> QED
        BY <1>2, <1>3, <2>2, <2>3, <2>4, PlainStep
<1>7. CASE To(p, "evidence") /\ IsIntent(p, {"committed"})
    <2>1. Goes(p, "evidence")
        BY <1>2, <1>7, ToGoes DEF Places, RestorePC
    <2>2. Acts(p) /\ KindOK(p)' /\ proc'[p].pc = "evidence" /\ Marker(p)' = Marker(p)
        BY <1>2, <1>3, <1>4, <2>1, RestoreGoes DEF RestorePC
    <2>3. PlaceOK(p)'
        BY <1>7, <2>2 DEF PlaceOK, At, InEvidence, IsIntent, PhaseIn
    <2>4. Quiet(p)
        BY <2>2 DEF Quiet
    <2> QED
        BY <1>2, <1>3, <2>2, <2>3, <2>4, PlainStep
<1>8. CASE UNCHANGED proc
    <2>1. proc'[p] = proc[p] /\ proc' = [proc EXCEPT ![p] = proc'[p]]
        BY <1>2, <1>8 DEF TypeOK
    <2>2. Acts(p)
        BY <1>2, <1>3, <2>1 DEF Acts, TypeOK
    <2>3. KindOK(p)'
        BY <1>3, <2>1 DEF Inv, ProcessOK, KindOK, At, Op, Kind, Verified, InRestore,
                          InEvidence
    <2>4. PlaceOK(p)'
        BY <1>1, <2>1 DEF PlaceOK, At, InEvidence
    <2> QED
        BY <1>1, <1>2, <1>3, <2>1, <2>2, <2>3, <2>4, PlainStep DEF Quiet
<1>9. intent = None => Unmarked(data)
    BY UnmarkedData DEF Switched
<1>10. Cleaned => Unmarked(data)
    BY <1>2, MarkedTree DEF Cleaned, Unmarked, TypeOK
<1>11. ASSUME proc' = [proc EXCEPT ![p].pc = "abort"], ~Switched, intent # None
       PROVE  Inv'
    BY <1>6, <1>11, UnmarkedData DEF To
<1> QED
    BY <1>5, <1>6, <1>7, <1>8, <1>9, <1>10, <1>11 DEF Reconcile, IsIntent, PhaseIn

\* The leftovers of a settled restore go.
LEMMA CleanedTrees ==
    ASSUME Inv, data \in Tree, Cleaned, PhaseIn({"finalized", "aborted"}), intent' = intent,
           UNCHANGED <<trusted, archives>>
    PROVE  /\ data' \in Tree /\ staging' = None /\ previous' = None /\ Unmarked(data)'
           /\ TreesOK' /\ HeadsOK' /\ JournalsOK'
<1>1. /\ data' \in Tree /\ data'.marker = None /\ data'.operations = data.operations
      /\ \A j \in Journal : data'[j] = data[j]
      /\ data' # None /\ data # None
    <2>1. data' = [data EXCEPT !.marker = None] /\ None \in RestoreMarker \cup {None}
        BY DEF Cleaned
    <2>2. /\ data' \in Tree /\ data'.marker = None /\ data'.operations = data.operations
          /\ \A j \in Journal : data'[j] = data[j]
        BY <2>1, MarkedTree
    <2> QED
        BY <2>2, TreeFields
<1>2. staging' = None /\ previous' = None
    BY DEF Cleaned
<1>3. TreesOK'
    BY <1>1 DEF PhaseIn, TreesOK, AwayOK, MarkOK, CommittedOK
<1>4. HeadsOf(data)
    <2>1. CASE intent.phase = "finalized"
        BY <1>1, <2>1 DEF Inv, HeadsOK, Pending
    <2>2. CASE intent.phase = "aborted"
        BY <1>1, <2>2, UnmarkedData, NotSwitched DEF PhaseIn
    <2> QED
        BY <2>1, <2>2 DEF PhaseIn
<1>5. HeadsOf(data)'
    BY <1>1, <1>4 DEF HeadsOf
<1>6. HeadsOK'
    BY <1>1, <1>5 DEF HeadsOK
<1>7. Verifies(data'.operations)
    BY <1>1 DEF Inv, JournalsOK, JournalsVerify
<1>8. JournalsOK'
    BY <1>2, <1>7 DEF Inv, JournalsOK, JournalsVerify, Verified
<1> QED
    BY <1>1, <1>2, <1>3, <1>6, <1>8 DEF Unmarked

LEMMA ReconcileStep ==
    ASSUME Inv, NEW p \in Process, Reconcile(p)
    PROVE  Inv'
<1>1. InRestore(p) /\ proc[p].pc = "reconcile"
    BY DEF Reconcile, At, InRestore, RestorePC
<1>2. /\ proc[p] \in Running /\ TypeOK /\ Kind(Op(p)) = "restore"
      /\ data \in Tree /\ data # None
    BY <1>1, InRestoreRuns, DataIsThere, TreeFields
<1>3. UNCHANGED <<archives, trusted, tornStore, releases>>
    BY DEF Reconcile, evidence
<1>4. proc[p].stage # "evidence"
    BY <1>1 DEF Inv, ProcessOK, KindOK, InEvidence, At
<1>5. intent' \in RestoreIntent \cup {None} /\ trusted' \in Seq(IntegrityCheckpoint)
    BY <1>2, <1>3, IntentFields DEF Reconcile, TypeOK
<1>6. CASE /\ intent # None /\ intent.phase \in {"finalized", "aborted"}
           /\ Cleaned /\ To(p, "stage") /\ UNCHANGED intent
    <2>1. /\ data' \in Tree /\ staging' = None /\ previous' = None /\ Unmarked(data)'
          /\ TreesOK' /\ HeadsOK' /\ JournalsOK'
        BY <1>2, <1>3, <1>6, CleanedTrees DEF PhaseIn
    <2>2. Goes(p, "stage")
        BY <1>2, <1>6, ToGoes DEF Places, RestorePC
    <2>3. Acts(p) /\ KindOK(p)' /\ proc'[p].pc = "stage"
        BY <1>2, <1>3, <1>4, <2>2, RestoreGoes DEF RestorePC
    <2>4. PlaceOK(p)'
        BY <2>1, <2>3 DEF PlaceOK, At, InEvidence
    <2>5. HeadOK(p)' /\ RetryOK(p)'
        BY <2>3, KnowsNoHeads
    <2> QED
        BY <1>1, <1>3, <1>5, <2>1, <2>3, <2>4, <2>5, RestoreStep DEF ProcessOK
<1>7. CASE /\ intent # None /\ intent.phase \in {"prepared", "previous_moved"}
           /\ Switched
           /\ intent' = [intent EXCEPT !.phase = "committed"] /\ UNCHANGED <<trees, proc>>
    <2>1. /\ intent'.phase = "committed" /\ intent'.marker = intent.marker /\ intent' # None
          /\ intent.marker # None
        BY <1>2, <1>7, IntentFields DEF TypeOK
    <2>2. UNCHANGED <<data, staging, previous, proc>>
        BY <1>7 DEF trees
    <2>3. previous # None /\ data.marker = intent.marker
        BY <1>7, <2>1 DEF Inv, TreesOK, MarkOK, Switched
    <2>4. TreesOK'
        BY <1>2, <2>1, <2>2, <2>3 DEF TreesOK, AwayOK, MarkOK, CommittedOK, PhaseIn
    <2>5. HeadsOK'
        BY <1>2, <2>1, <2>2, <2>3 DEF HeadsOK, Pending, Switched
    <2>6. JournalsOK'
        BY <1>3, <2>2 DEF Inv, JournalsOK, JournalsVerify, Verified
    <2>7. proc'[p] = proc[p] /\ proc' = [proc EXCEPT ![p] = proc'[p]]
        BY <1>2, <2>2 DEF TypeOK
    <2>8. Acts(p)
        BY <1>2, <1>3, <2>7 DEF Acts, TypeOK
    <2>9. KindOK(p)'
        BY <1>3, <2>7 DEF Inv, ProcessOK, KindOK, At, Op, Kind, Verified, InRestore,
                          InEvidence
    <2>10. PlaceOK(p)'
        BY <1>1, <2>7 DEF PlaceOK, At, InEvidence
    <2>11. HeadOK(p)' /\ RetryOK(p)'
        BY <1>1, <2>7, KnowsNoHeads
    <2>12. data' \in Tree \cup {None} /\ staging' \in Tree \cup {None}
           /\ previous' \in Tree \cup {None}
        BY <1>2, <2>2 DEF TypeOK
    <2> QED
        BY <1>1, <1>3, <1>5, <2>4, <2>5, <2>6, <2>8, <2>9, <2>10, <2>11, <2>12, RestoreStep
           DEF ProcessOK
<1>8. CASE /\ intent # None /\ ~Switched
           /\ PutBack /\ UNCHANGED intent
           /\ proc' = [proc EXCEPT ![p].pc = "abort"]
    <2>1. data' = data /\ previous' = previous /\ staging' = None
        BY <1>2, <1>8 DEF PutBack
    <2>2. Goes(p, "abort")
        BY <1>2, <1>8, ToGoes DEF Places, RestorePC, To
    <2>3. Acts(p) /\ KindOK(p)' /\ proc'[p].pc = "abort"
        BY <1>2, <1>3, <1>4, <2>2, RestoreGoes DEF RestorePC
    <2>4. Unmarked(data)
        BY <1>8, UnmarkedData
    <2>5. PlaceOK(p)'
        BY <1>8, <2>1, <2>3, <2>4 DEF PlaceOK, At, InEvidence, Unmarked
    <2>6. TreesOK'
        BY <1>2, <1>8, <2>1 DEF Inv, TreesOK, AwayOK, MarkOK, CommittedOK, PhaseIn
    <2>7. HeadsOK'
        BY <1>2, <1>3, <1>8, <2>1 DEF Inv, HeadsOK, HeadsOf, Pending, Switched
    <2>8. JournalsOK'
        BY <1>3, <2>1 DEF Inv, JournalsOK, JournalsVerify, Verified
    <2>9. data' \in Tree \cup {None} /\ staging' \in Tree \cup {None}
          /\ previous' \in Tree \cup {None}
        BY <1>2, <2>1 DEF TypeOK
    <2>10. HeadOK(p)' /\ RetryOK(p)'
        BY <2>3, KnowsNoHeads
    <2> QED
        BY <1>1, <1>3, <1>5, <2>3, <2>5, <2>6, <2>7, <2>8, <2>9, <2>10, RestoreStep
           DEF ProcessOK
<1>9. CASE UNCHANGED <<data, staging, previous, intent>>
    BY <1>9, ReconcileKeeps
<1> QED
    BY <1>6, <1>7, <1>8, <1>9 DEF Reconcile, trees

LEMMA RestoreAbortStep ==
    ASSUME Inv, NEW p \in Process, RestoreAbort(p)
    PROVE  Inv'
<1>1. InRestore(p) /\ proc[p].pc \in {"abort", "abort_failing"}
    BY DEF RestoreAbort, At, InRestore, RestorePC
<1>2. /\ proc[p] \in Running /\ TypeOK /\ Kind(Op(p)) = "restore" /\ Op(p) \in Operation
      /\ data \in Tree /\ data # None /\ Marker(p) \in RestoreMarker
    BY <1>1, InRestoreRuns, DataIsThere, TreeFields
<1>3. UNCHANGED <<data, staging, previous, archives, trusted, tornStore, releases>>
    BY DEF RestoreAbort, evidence, trees
<1>4. proc[p].stage # "evidence"
    BY <1>1 DEF Inv, ProcessOK, KindOK, InEvidence, At
<1>5. Unmarked(data) /\ (At(p, "abort") => intent # None)
    BY <1>1 DEF Inv, ProcessOK, PlaceOK
<1>6. intent' \in RestoreIntent /\ intent'.phase = "aborted"
    <2>1. Intent(p, "aborted") \in RestoreIntent /\ Intent(p, "aborted").phase = "aborted"
        BY <1>2 DEF Intent, RestoreIntent
    <2> QED
        BY <1>2, <1>5, <2>1, IntentFields DEF RestoreAbort, TypeOK
<1>7. intent' # None /\ intent'.marker # None
    BY <1>6, IntentFields
<1>8. TreesOK'
    BY <1>2, <1>3, <1>5, <1>6 DEF TreesOK, AwayOK, MarkOK, CommittedOK, PhaseIn, Unmarked
<1>9. HeadsOK'
    BY <1>2, <1>3, <1>5, NotSwitched DEF HeadsOK, HeadsOf
<1>10. JournalsOK'
    BY <1>3 DEF Inv, JournalsOK, JournalsVerify, Verified
<1>11. /\ data' \in Tree \cup {None} /\ staging' \in Tree \cup {None}
       /\ previous' \in Tree \cup {None} /\ trusted' \in Seq(IntegrityCheckpoint)
    BY <1>2, <1>3 DEF TypeOK
<1>12. Acts(p) /\ KindOK(p)' /\ PlaceOK(p)' /\ proc'[p].pc \in {"stage", "failing"}
    <2>1. CASE To(p, "stage")
        <3>1. Goes(p, "stage")
            BY <1>2, <2>1, ToGoes DEF Places, RestorePC
        <3>2. Acts(p) /\ KindOK(p)' /\ proc'[p].pc = "stage"
            BY <1>2, <1>3, <1>4, <3>1, RestoreGoes DEF RestorePC
        <3> QED
            BY <1>3, <1>5, <3>2 DEF PlaceOK, At, InEvidence, Unmarked
    <2>2. CASE To(p, "failing")
        <3>1. Outside(p) /\ proc'[p].pc = "failing"
            BY <1>2, <1>4, <2>2, ToGoes, GoesOutside DEF Places, OrdinaryPC
        <3>2. Acts(p)
            BY <1>2, <1>3, <3>1 DEF Acts, Outside, TypeOK
        <3> QED
            BY <3>1, <3>2, PlainPlace DEF Outside
    <2> QED
        BY <2>1, <2>2 DEF RestoreAbort
<1>13. HeadOK(p)' /\ RetryOK(p)'
    BY <1>12, KnowsNoHeads
<1> QED
    BY <1>1, <1>3, <1>6, <1>8, <1>9, <1>10, <1>11, <1>12, <1>13, RestoreStep DEF ProcessOK

LEMMA RestoreStageStep ==
    ASSUME Inv, NEW p \in Process, RestoreStage(p)
    PROVE  Inv'
<1> DEFINE tree == [Snapshot(p).tree EXCEPT !.marker = Marker(p)]
<1>1. InRestore(p) /\ proc[p].pc = "stage"
    BY DEF RestoreStage, At, InRestore, RestorePC
<1>2. /\ proc[p] \in Running /\ TypeOK /\ Kind(Op(p)) = "restore"
      /\ data \in Tree /\ data # None /\ Marker(p) \in RestoreMarker
      /\ Snapshot(p) \in BackupManifest /\ Command[Op(p)].archive \in Archive
    BY <1>1, InRestoreRuns, DataIsThere, TreeFields
<1>3. UNCHANGED <<data, previous, intent, archives, trusted, tornStore, releases>>
    BY DEF RestoreStage, evidence
<1>4. proc[p].stage # "evidence"
    BY <1>1 DEF Inv, ProcessOK, KindOK, InEvidence, At
<1>5. Unmarked(data)
    BY <1>1 DEF Inv, ProcessOK, PlaceOK
<1>6. CASE staging' = tree /\ To(p, "prepare")
    <2>1. Snapshot(p).tree \in Tree /\ Snapshot(p) # None
        BY <1>2, BackupAssumption DEF BackupManifest
    <2>2. /\ tree \in Tree /\ tree.marker = Marker(p)
          /\ tree.operations = Snapshot(p).tree.operations
        BY <1>2, <2>1, MarkedTree
    <2>3. Verifies(tree.operations)
        BY <1>2, <2>1, <2>2 DEF Inv, JournalsOK, Verified, Snapshot
    <2>4. tree # None
        BY <2>2, TreeFields
    <2> HIDE DEF tree
    <2>5. Goes(p, "prepare")
        BY <1>2, <1>6, ToGoes DEF Places, RestorePC
    <2>6. Acts(p) /\ KindOK(p)' /\ proc'[p].pc = "prepare" /\ Marker(p)' = Marker(p)
        BY <1>2, <1>3, <1>4, <2>5, RestoreGoes DEF RestorePC
    <2>7. PlaceOK(p)'
        BY <1>3, <1>5, <1>6, <2>2, <2>4, <2>6
           DEF PlaceOK, At, InEvidence, Unmarked, IsMarked
    <2>8. TreesOK'
        BY <1>2, <1>3 DEF Inv, TreesOK, AwayOK, MarkOK, CommittedOK, PhaseIn
    <2>9. HeadsOK'
        BY <1>2, <1>3 DEF Inv, HeadsOK, HeadsOf, Pending, Switched
    <2>10. JournalsOK'
        BY <1>3, <1>6, <2>3 DEF Inv, JournalsOK, JournalsVerify, Verified
    <2>11. /\ data' \in Tree \cup {None} /\ staging' \in Tree \cup {None}
           /\ previous' \in Tree \cup {None} /\ trusted' \in Seq(IntegrityCheckpoint)
           /\ intent' \in RestoreIntent \cup {None}
        BY <1>2, <1>3, <1>6, <2>2 DEF TypeOK
    <2>12. HeadOK(p)' /\ RetryOK(p)'
        BY <2>6, KnowsNoHeads
    <2> QED
        BY <1>1, <1>3, <2>6, <2>7, <2>8, <2>9, <2>10, <2>11, <2>12, RestoreStep
           DEF ProcessOK
<1>7. CASE To(p, "failing") /\ UNCHANGED staging
    <2>1. Outside(p) /\ proc'[p].pc = "failing"
        BY <1>2, <1>4, <1>7, ToGoes, GoesOutside DEF Places, OrdinaryPC
    <2>2. tornStore' \in BOOLEAN /\ releases' \in ReleaseState
        BY <1>3, TypesStay
    <2> QED
        BY <1>2, <1>3, <1>7, <2>1, <2>2, OutsideStep
<1> QED
    BY <1>6, <1>7 DEF RestoreStage

LEMMA RestorePrepareStep ==
    ASSUME Inv, NEW p \in Process, RestorePrepare(p)
    PROVE  Inv'
<1>1. InRestore(p) /\ proc[p].pc = "prepare"
    BY DEF RestorePrepare, At, InRestore, RestorePC
<1>2. /\ proc[p] \in Running /\ TypeOK /\ Kind(Op(p)) = "restore" /\ Op(p) \in Operation
      /\ data \in Tree /\ data # None /\ Marker(p) \in RestoreMarker /\ Marker(p) # None
    BY <1>1, InRestoreRuns, DataIsThere, TreeFields
<1>3. UNCHANGED <<data, staging, previous, archives, trusted, tornStore, releases>>
    BY DEF RestorePrepare, evidence, trees
<1>4. proc[p].stage # "evidence"
    BY <1>1 DEF Inv, ProcessOK, KindOK, InEvidence, At
<1>5. Unmarked(data) /\ IsMarked(staging, p)
    BY <1>1 DEF Inv, ProcessOK, PlaceOK
<1>6. /\ intent' \in RestoreIntent /\ intent'.phase = "prepared"
      /\ intent'.marker = Marker(p) /\ intent' # None
    <2>1. intent' = Intent(p, "prepared")
        BY DEF RestorePrepare
    <2>2. /\ intent' \in RestoreIntent /\ intent'.phase = "prepared"
          /\ intent'.marker = Marker(p)
        BY <1>2, <2>1 DEF Intent, RestoreIntent
    <2> QED
        BY <2>2, IntentFields
<1>7. Goes(p, "move")
    BY <1>2, ToGoes DEF RestorePrepare, Places, RestorePC
<1>8. Acts(p) /\ KindOK(p)' /\ proc'[p].pc = "move" /\ Marker(p)' = Marker(p)
    BY <1>2, <1>3, <1>4, <1>7, RestoreGoes DEF RestorePC
<1>9. PlaceOK(p)'
    BY <1>3, <1>5, <1>6, <1>8
       DEF PlaceOK, At, InEvidence, Unmarked, IsMarked, IsIntent, PhaseIn
<1>10. TreesOK'
    BY <1>2, <1>3, <1>5, <1>6 DEF TreesOK, AwayOK, MarkOK, CommittedOK, PhaseIn, Unmarked
<1>11. HeadsOK'
    BY <1>2, <1>3, <1>5, NotSwitched DEF HeadsOK, HeadsOf
<1>12. JournalsOK'
    BY <1>3 DEF Inv, JournalsOK, JournalsVerify, Verified
<1>13. /\ data' \in Tree \cup {None} /\ staging' \in Tree \cup {None}
       /\ previous' \in Tree \cup {None} /\ trusted' \in Seq(IntegrityCheckpoint)
    BY <1>2, <1>3 DEF TypeOK
<1>14. HeadOK(p)' /\ RetryOK(p)'
    BY <1>8, KnowsNoHeads
<1> QED
    BY <1>1, <1>3, <1>6, <1>8, <1>9, <1>10, <1>11, <1>12, <1>13, <1>14, RestoreStep
       DEF ProcessOK

\* The data directory is moved away: the tree to put back is the one its heads are of.
LEMMA RestoreMoveStep ==
    ASSUME Inv, NEW p \in Process, RestoreMove(p)
    PROVE  Inv'
<1>1. InRestore(p) /\ proc[p].pc = "move"
    BY DEF RestoreMove, At, InRestore, RestorePC
<1>2. /\ proc[p] \in Running /\ TypeOK /\ Kind(Op(p)) = "restore"
      /\ data \in Tree /\ data # None
    BY <1>1, InRestoreRuns, DataIsThere, TreeFields
<1>3. /\ UNCHANGED <<staging, intent, archives, trusted, tornStore, releases>>
      /\ previous' = data /\ data' = None
    BY DEF RestoreMove, evidence
<1>4. proc[p].stage # "evidence"
    BY <1>1 DEF Inv, ProcessOK, KindOK, InEvidence, At
<1>5. Unmarked(data) /\ IsMarked(staging, p) /\ IsIntent(p, {"prepared"})
    BY <1>1 DEF Inv, ProcessOK, PlaceOK, At
<1>6. Goes(p, "moved")
    BY <1>2, ToGoes DEF RestoreMove, Places, RestorePC
<1>7. Acts(p) /\ KindOK(p)' /\ proc'[p].pc = "moved" /\ Marker(p)' = Marker(p)
    BY <1>2, <1>3, <1>4, <1>6, RestoreGoes DEF RestorePC
<1>8. PlaceOK(p)'
    BY <1>3, <1>5, <1>7
       DEF PlaceOK, At, InEvidence, Unmarked, IsMarked, IsIntent, PhaseIn
<1>9. \A q \in Process : q # p => proc'[q].pc = "idle"
    BY <1>1, <1>7, RestoreIsAlone, ActsOthers DEF At
<1>10. TreesOK'
    BY <1>2, <1>3, <1>5, <1>7, <1>9
       DEF TreesOK, AwayOK, MarkOK, CommittedOK, PhaseIn, Unmarked, IsIntent
<1>11. HeadsOK'
    BY <1>2, <1>3, <1>5, NotSwitched DEF HeadsOK, HeadsOf
<1>12. JournalsOK'
    BY <1>3 DEF Inv, JournalsOK, JournalsVerify, Verified
<1>13. /\ data' \in Tree \cup {None} /\ staging' \in Tree \cup {None}
       /\ previous' \in Tree \cup {None} /\ trusted' \in Seq(IntegrityCheckpoint)
       /\ intent' \in RestoreIntent \cup {None}
    BY <1>2, <1>3 DEF TypeOK
<1>14. HeadOK(p)' /\ RetryOK(p)'
    BY <1>7, KnowsNoHeads
<1> QED
    BY <1>1, <1>3, <1>7, <1>8, <1>10, <1>11, <1>12, <1>13, <1>14, RestoreStep
       DEF ProcessOK

LEMMA RestoreMovedStep ==
    ASSUME Inv, NEW p \in Process, RestoreMoved(p)
    PROVE  Inv'
<1>1. InRestore(p) /\ proc[p].pc = "moved"
    BY DEF RestoreMoved, At, InRestore, RestorePC
<1>2. proc[p] \in Running /\ TypeOK /\ Kind(Op(p)) = "restore"
    BY <1>1, InRestoreRuns
<1>3. UNCHANGED <<data, staging, previous, archives, trusted, tornStore, releases>>
    BY DEF RestoreMoved, evidence, trees
<1>4. proc[p].stage # "evidence"
    BY <1>1 DEF Inv, ProcessOK, KindOK, InEvidence, At
<1>5. data = None /\ IsMarked(staging, p) /\ IsIntent(p, {"prepared"})
    BY <1>1 DEF Inv, ProcessOK, PlaceOK, At
<1>6. /\ intent' \in RestoreIntent /\ intent'.phase = "previous_moved"
      /\ intent'.marker = intent.marker /\ intent' # None
    BY <1>2, <1>5, IntentFields DEF RestoreMoved, TypeOK, IsIntent, PhaseIn
<1>7. Goes(p, "switch")
    BY <1>2, ToGoes DEF RestoreMoved, Places, RestorePC
<1>8. Acts(p) /\ KindOK(p)' /\ proc'[p].pc = "switch" /\ Marker(p)' = Marker(p)
    BY <1>2, <1>3, <1>4, <1>7, RestoreGoes DEF RestorePC
<1>9. PlaceOK(p)'
    BY <1>3, <1>5, <1>6, <1>8
       DEF PlaceOK, At, InEvidence, Unmarked, IsMarked, IsIntent, PhaseIn
<1>10. \A q \in Process : q # p => proc'[q].pc = "idle"
    BY <1>1, <1>8, RestoreIsAlone, ActsOthers DEF At
<1>11. TreesOK'
    BY <1>3, <1>5, <1>6, <1>8, <1>10
       DEF Inv, TreesOK, AwayOK, MarkOK, CommittedOK, PhaseIn
<1>12. HeadsOK'
    BY <1>3, <1>5 DEF Inv, HeadsOK, HeadsOf
<1>13. JournalsOK'
    BY <1>3 DEF Inv, JournalsOK, JournalsVerify, Verified
<1>14. /\ data' \in Tree \cup {None} /\ staging' \in Tree \cup {None}
       /\ previous' \in Tree \cup {None} /\ trusted' \in Seq(IntegrityCheckpoint)
    BY <1>2, <1>3 DEF TypeOK
<1>15. HeadOK(p)' /\ RetryOK(p)'
    BY <1>8, KnowsNoHeads
<1> QED
    BY <1>1, <1>3, <1>6, <1>8, <1>9, <1>11, <1>12, <1>13, <1>14, <1>15, RestoreStep
       DEF ProcessOK

\* The switch: from here on the restored tree is the data directory, and pending.
LEMMA RestoreSwitchStep ==
    ASSUME Inv, NEW p \in Process, RestoreSwitch(p)
    PROVE  Inv'
<1>1. InRestore(p) /\ proc[p].pc = "switch"
    BY DEF RestoreSwitch, At, InRestore, RestorePC
<1>2. /\ proc[p] \in Running /\ TypeOK /\ Kind(Op(p)) = "restore" /\ Marker(p) # None
    BY <1>1, InRestoreRuns
<1>3. /\ UNCHANGED <<previous, intent, archives, trusted, tornStore, releases>>
      /\ data' = staging /\ staging' = None
    BY DEF RestoreSwitch, evidence
<1>4. proc[p].stage # "evidence"
    BY <1>1 DEF Inv, ProcessOK, KindOK, InEvidence, At
<1>5. data = None /\ IsMarked(staging, p) /\ IsIntent(p, {"previous_moved"})
    BY <1>1 DEF Inv, ProcessOK, PlaceOK, At
<1>6. previous # None
    BY <1>5 DEF Inv, TreesOK, AwayOK
<1>7. Goes(p, "commit")
    BY <1>2, ToGoes DEF RestoreSwitch, Places, RestorePC
<1>8. Acts(p) /\ KindOK(p)' /\ proc'[p].pc = "commit" /\ Marker(p)' = Marker(p)
    BY <1>2, <1>3, <1>4, <1>7, RestoreGoes DEF RestorePC
<1>9. PlaceOK(p)'
    BY <1>3, <1>5, <1>8
       DEF PlaceOK, At, InEvidence, Unmarked, IsMarked, IsIntent, PhaseIn
<1>10. TreesOK'
    BY <1>2, <1>3, <1>5, <1>6
       DEF TreesOK, AwayOK, MarkOK, CommittedOK, PhaseIn, IsMarked, IsIntent
<1>11. HeadsOK'
    BY <1>3, <1>5 DEF HeadsOK, Pending, Switched, IsMarked, IsIntent, PhaseIn
<1>12. JournalsOK'
    BY <1>3 DEF Inv, JournalsOK, JournalsVerify, Verified
<1>13. /\ data' \in Tree \cup {None} /\ staging' \in Tree \cup {None}
       /\ previous' \in Tree \cup {None} /\ trusted' \in Seq(IntegrityCheckpoint)
       /\ intent' \in RestoreIntent \cup {None}
    BY <1>2, <1>3 DEF TypeOK
<1>14. HeadOK(p)' /\ RetryOK(p)'
    BY <1>8, KnowsNoHeads
<1> QED
    BY <1>1, <1>3, <1>8, <1>9, <1>10, <1>11, <1>12, <1>13, <1>14, RestoreStep
       DEF ProcessOK

LEMMA RestoreCommitStep ==
    ASSUME Inv, NEW p \in Process, RestoreCommit(p)
    PROVE  Inv'
<1>1. InRestore(p) /\ proc[p].pc = "commit"
    BY DEF RestoreCommit, At, InRestore, RestorePC
<1>2. /\ proc[p] \in Running /\ TypeOK /\ Kind(Op(p)) = "restore" /\ Marker(p) # None
    BY <1>1, InRestoreRuns
<1>3. UNCHANGED <<data, staging, previous, archives, trusted, tornStore, releases>>
    BY DEF RestoreCommit, evidence, trees
<1>4. IsMarked(data, p) /\ IsIntent(p, {"previous_moved"})
    BY <1>1 DEF Inv, ProcessOK, PlaceOK, At
<1>5. data # None /\ data.marker = Marker(p) /\ intent.marker = Marker(p) /\ previous # None
    BY <1>2, <1>4 DEF Inv, TreesOK, MarkOK, IsMarked, IsIntent, PhaseIn
<1>6. /\ intent' \in RestoreIntent /\ intent'.phase = "committed"
      /\ intent'.marker = intent.marker /\ intent' # None
    BY <1>2, <1>4, IntentFields DEF RestoreCommit, TypeOK, IsIntent, PhaseIn
<1>7. Goes(p, "evidence")
    BY <1>2, ToGoes DEF RestoreCommit, Places, RestorePC
<1>8. Acts(p) /\ KindOK(p)' /\ proc'[p].pc = "evidence" /\ Marker(p)' = Marker(p)
    BY <1>2, <1>3, <1>7, RestoreGoes DEF RestorePC
<1>9. PlaceOK(p)'
    BY <1>5, <1>6, <1>8 DEF PlaceOK, At, InEvidence, IsIntent, PhaseIn
<1>10. TreesOK'
    BY <1>3, <1>5, <1>6 DEF TreesOK, AwayOK, MarkOK, CommittedOK, PhaseIn
<1>11. HeadsOK'
    BY <1>3, <1>5, <1>6 DEF HeadsOK, Pending, Switched
<1>12. JournalsOK'
    BY <1>3 DEF Inv, JournalsOK, JournalsVerify, Verified
<1>13. /\ data' \in Tree \cup {None} /\ staging' \in Tree \cup {None}
       /\ previous' \in Tree \cup {None} /\ trusted' \in Seq(IntegrityCheckpoint)
    BY <1>2, <1>3 DEF TypeOK
<1>14. HeadOK(p)' /\ RetryOK(p)'
    BY <1>8, KnowsNoHeads
<1> QED
    BY <1>1, <1>3, <1>6, <1>8, <1>9, <1>10, <1>11, <1>12, <1>13, <1>14, RestoreStep
       DEF ProcessOK

\* An error before the switch: the tree that was moved away is put back.
LEMMA RestoreRollbackStep ==
    ASSUME Inv, NEW p \in Process, RestoreRollback(p)
    PROVE  Inv'
<1>1. InRestore(p) /\ proc[p].pc = "undo"
    BY DEF RestoreRollback, At, InRestore, RestorePC
<1>2. proc[p] \in Running /\ TypeOK /\ Kind(Op(p)) = "restore"
    BY <1>1, InRestoreRuns
<1>3. /\ UNCHANGED <<intent, archives, trusted, tornStore, releases>>
      /\ data' = IF data = None THEN previous ELSE data
      /\ previous' = IF data = None THEN None ELSE previous
      /\ staging' = None
    BY DEF RestoreRollback, PutBack, evidence
<1>4. proc[p].stage # "evidence"
    BY <1>1 DEF Inv, ProcessOK, KindOK, InEvidence, At
<1>5. Unmarked(data)
    BY <1>1 DEF Inv, ProcessOK, PlaceOK
<1>6. data = None => previous # None /\ previous.marker = None /\ HeadsOf(previous)
    BY DEF Inv, TreesOK, AwayOK, HeadsOK
<1>7. data' # None /\ data'.marker = None /\ data' \in Tree
    BY <1>2, <1>3, <1>5, <1>6 DEF TypeOK, Unmarked
<1>8. Goes(p, "abort_failing")
    BY <1>2, ToGoes DEF RestoreRollback, Places, RestorePC
<1>9. Acts(p) /\ KindOK(p)' /\ proc'[p].pc = "abort_failing"
    BY <1>2, <1>3, <1>4, <1>8, RestoreGoes DEF RestorePC
<1>10. PlaceOK(p)'
    BY <1>7, <1>9 DEF PlaceOK, At, InEvidence, Unmarked
<1>11. TreesOK'
    BY <1>3, <1>5, <1>7, NotSwitched DEF TreesOK, AwayOK, MarkOK, CommittedOK, PhaseIn
<1>12. HeadsOK'
    BY <1>3, <1>5, <1>6, <1>7, NotSwitched DEF HeadsOK, HeadsOf
<1>13. JournalsOK'
    BY <1>3 DEF Inv, JournalsOK, JournalsVerify, Verified
<1>14. /\ data' \in Tree \cup {None} /\ staging' \in Tree \cup {None}
       /\ previous' \in Tree \cup {None} /\ trusted' \in Seq(IntegrityCheckpoint)
       /\ intent' \in RestoreIntent \cup {None}
    BY <1>2, <1>3 DEF TypeOK
<1>15. HeadOK(p)' /\ RetryOK(p)'
    BY <1>9, KnowsNoHeads
<1> QED
    BY <1>1, <1>3, <1>9, <1>10, <1>11, <1>12, <1>13, <1>14, <1>15, RestoreStep
       DEF ProcessOK

\* The evidence of a restore in the restored journals.
LEMMA EvidenceBeginStep ==
    ASSUME Inv, NEW p \in Process, EvidenceBegin(p)
    PROVE  Inv'
<1> DEFINE state == OperationState(data.operations, Op(p))
<1>1. InEvidence(p) /\ InRestore(p) /\ proc[p].pc = "evidence"
    BY DEF EvidenceBegin, At, InEvidence, InRestore, RestorePC
<1>2. /\ proc[p] \in Running /\ TypeOK /\ Op(p) \in Operation
      /\ Snapshot(p) \in BackupManifest /\ data \in Tree
    BY <1>1, InRestoreRuns, DataIsThere
<1>3. /\ UNCHANGED <<staging, previous, intent, archives, trusted>>
      /\ tornStore' \in BOOLEAN /\ releases' \in ReleaseState
    BY TypesStay DEF EvidenceBegin, evidence
<1>4. Grown(data, data')
    <2>1. Snapshot(p).by \in Targets
        BY <1>2 DEF BackupManifest, Targets
    <2>2. state = None => Grown(data, Begun(data, Op(p), Snapshot(p).by))
        BY <1>2, <2>1, GrownBegun
    <2>3. state # None /\ state.status = "failed" => Grown(data, Retried(data, Op(p)))
        BY <1>2, GrownRetried
    <2>4. Grown(data, data)
        BY <1>2, GrownSame
    <2>5. \/ data' = data
          \/ state = None /\ data' = Begun(data, Op(p), Snapshot(p).by)
          \/ state # None /\ state.status = "failed" /\ data' = Retried(data, Op(p))
        BY DEF EvidenceBegin
    <2> QED
        BY <2>2, <2>3, <2>4, <2>5
<1>5. /\ proc' = [proc EXCEPT ![p] = proc'[p]]
      /\ \/ proc'[p] = Idle
         \/ /\ proc'[p] \in Running /\ proc'[p].op = proc[p].op /\ InEvidence(p)'
            /\ proc'[p].pc # "finalize"
    <2>1. CASE Exit(p)
        BY <1>2, <2>1, ExitLeaves DEF Leaves
    <2>2. CASE To(p, "recover")
        <3>1. Goes(p, "recover")
            BY <1>2, <2>2, ToGoes DEF Places, RestorePC
        <3> QED
            BY <3>1 DEF Goes, InEvidence
    <2>3. CASE proc' = [proc EXCEPT ![p].pc = "audit", ![p].stage = "evidence"]
        <3> DEFINE me == [proc[p] EXCEPT !.pc = "audit", !.stage = "evidence"]
        <3>1. proc' = [proc EXCEPT ![p] = me]
            BY <2>3
        <3>2. proc'[p] = me /\ proc' = [proc EXCEPT ![p] = proc'[p]]
            BY <1>2, <3>1 DEF TypeOK
        <3>3. /\ me \in Running /\ me.op = proc[p].op
              /\ me.pc = "audit" /\ me.stage = "evidence"
            BY <1>2 DEF Running, OrdinaryPC
        <3> QED
            BY <3>2, <3>3 DEF InEvidence
    <2> QED
        BY <2>1, <2>2, <2>3 DEF EvidenceBegin
<1> QED
    BY <1>1, <1>2, <1>3, <1>4, <1>5, EvidenceStep

LEMMA EvidenceSucceedStep ==
    ASSUME Inv, NEW p \in Process, EvidenceSucceed(p)
    PROVE  Inv'
<1>1. InEvidence(p) /\ InRestore(p) /\ proc[p].pc = "evidence_succeed"
    BY DEF EvidenceSucceed, At, InEvidence, InRestore, RestorePC
<1>2. proc[p] \in Running /\ TypeOK /\ Op(p) \in Operation /\ data \in Tree
    BY <1>1, InRestoreRuns, DataIsThere
<1>3. /\ UNCHANGED <<staging, previous, intent, archives, trusted>>
      /\ tornStore' \in BOOLEAN /\ releases' \in ReleaseState
    BY TypesStay DEF EvidenceSucceed, evidence
<1>4. CASE Exit(p) /\ UNCHANGED data
    <2>1. Leaves(p)
        BY <1>2, <1>4, ExitLeaves
    <2> QED
        BY <1>1, <1>3, <1>4, <2>1, EvidenceStep DEF Leaves
<1>5. CASE /\ ~CannotFinish(data, Op(p), "succeeded")
           /\ data' = Finished(data, Op(p), "succeeded") /\ To(p, "recover")
    <2>1. Grown(data, data')
        BY <1>2, <1>5, GrownFinished
    <2>2. Goes(p, "recover")
        BY <1>2, <1>5, ToGoes DEF Places, RestorePC
    <2>3. /\ proc' = [proc EXCEPT ![p] = proc'[p]]
          /\ proc'[p] \in Running /\ proc'[p].op = proc[p].op /\ InEvidence(p)'
          /\ proc'[p].pc # "finalize"
        BY <2>2 DEF Goes, InEvidence
    <2> QED
        BY <1>1, <1>2, <1>3, <2>1, <2>3, EvidenceStep
<1> QED
    BY <1>4, <1>5 DEF EvidenceSucceed

LEMMA AppendTwo ==
    ASSUME NEW S, NEW s \in Seq(S), NEW a \in S, NEW b \in S
    PROVE  s \o <<a, b>> = Append(Append(s, a), b)
<1> DEFINE n == Len(s)
           u == s \o <<a, b>>
           t == Append(Append(s, a), b)
<1>1. <<a, b>> \in Seq(S) /\ Len(<<a, b>>) = 2
    OBVIOUS
<1>2. /\ u \in Seq(S) /\ Len(u) = n + 2
      /\ \A i \in 1..n + 2 : u[i] = IF i <= n THEN s[i] ELSE <<a, b>>[i - n]
    BY <1>1, ConcatProperties
<1>3. /\ n \in Nat /\ t \in Seq(S) /\ Len(t) = n + 2
      /\ \A i \in 1..n : t[i] = s[i]
      /\ t[n + 1] = a /\ t[n + 2] = b
    <2>1. /\ Append(s, a) \in Seq(S) /\ Len(Append(s, a)) = n + 1 /\ n \in Nat
          /\ \A i \in 1..n : Append(s, a)[i] = s[i]
          /\ Append(s, a)[n + 1] = a
        BY AppendProperties, LenProperties
    <2> DEFINE v == Append(s, a)
    <2> HIDE DEF v, n
    <2>2. /\ t \in Seq(S) /\ Len(t) = Len(v) + 1
          /\ \A i \in 1..Len(v) : t[i] = v[i]
          /\ t[Len(v) + 1] = b
        BY <2>1, AppendProperties DEF v
    <2> HIDE DEF t
    <2> QED
        BY <2>1, <2>2 DEF v
<1> HIDE DEF n, u, t
<1>4. u[n + 1] = a /\ u[n + 2] = b
    BY <1>2, <1>3
<1>5. \A i \in 1..Len(u) : u[i] = t[i]
    <2>1. \A i \in 1..Len(u) : i \in 1..n \/ i = n + 1 \/ i = n + 2
        BY <1>2, <1>3
    <2>2. \A i \in 1..n : u[i] = s[i]
        BY <1>2, <1>3
    <2> QED
        BY <1>3, <1>4, <2>1, <2>2
<1>6. u = t
    BY <1>2, <1>3, <1>5, SeqEqual
<1> QED
    BY <1>6 DEF u, t

\* The pair of a recovery makes both journals as they are the trusted ones.
LEMMA RecoveryHeads ==
    ASSUME NEW store \in Seq(IntegrityCheckpoint), NEW heads \in [Journal -> History],
           NEW op \in Operation
    PROVE  /\ NewRecovery(store, heads, op) \in Seq(IntegrityCheckpoint)
           /\ \A j \in Journal : Latest(NewRecovery(store, heads, op), j).head = heads[j]
<1> DEFINE a == Record("audit", heads["audit"], Epoch(store) + 1, op)
           b == Record("operations", heads["operations"], Epoch(store) + 1, op)
<1>1. Epoch(store) + 1 \in Nat
    BY EpochType
<1>2. /\ a \in IntegrityCheckpoint /\ a.journal = "audit" /\ a.head = heads["audit"]
      /\ b \in IntegrityCheckpoint /\ b.journal = "operations"
      /\ b.head = heads["operations"]
    BY <1>1 DEF Record, IntegrityCheckpoint, Journal
<1> HIDE DEF a, b
<1>3. Append(store, a) \in Seq(IntegrityCheckpoint)
    BY <1>2, AppendProperties
<1>4. Append(Append(store, a), b) \in Seq(IntegrityCheckpoint)
    BY <1>2, <1>3, AppendProperties
<1>5. NewRecovery(store, heads, op) = Append(Append(store, a), b)
    BY <1>2, AppendTwo DEF NewRecovery, a, b
<1>6. \A j \in Journal : Latest(Append(Append(store, a), b), j).head = heads[j]
    <2> SUFFICES ASSUME NEW j \in Journal
                 PROVE  Latest(Append(Append(store, a), b), j).head = heads[j]
        OBVIOUS
    <2>1. Latest(Append(store, a), j) = IF a.journal = j THEN a ELSE Latest(store, j)
        BY <1>2, LatestAppend
    <2>2. Latest(Append(Append(store, a), b), j) =
              IF b.journal = j THEN b ELSE Latest(Append(store, a), j)
        BY <1>2, <1>3, LatestAppend
    <2> QED
        BY <1>2, <2>1, <2>2 DEF Journal
<1> QED
    BY <1>4, <1>5, <1>6

LEMMA EvidenceRecoverStep ==
    ASSUME Inv, NEW p \in Process, EvidenceRecover(p)
    PROVE  Inv'
<1> DEFINE heads == [j \in Journal |-> data[j]]
<1>1. InEvidence(p) /\ InRestore(p) /\ proc[p].pc = "recover"
    BY DEF EvidenceRecover, At, InEvidence, InRestore, RestorePC
<1>2. /\ proc[p] \in Running /\ TypeOK /\ Kind(Op(p)) = "restore" /\ data \in Tree
      /\ data # None /\ Op(p) \in Operation
    BY <1>1, InRestoreRuns, DataIsThere, TreeFields
<1>3. /\ UNCHANGED <<data, staging, previous, intent, archives, tornStore, releases>>
      /\ tornStore' \in BOOLEAN /\ releases' \in ReleaseState
    BY TypesStay DEF EvidenceRecover, trees
<1>4. CASE Exit(p) /\ UNCHANGED trusted
    <2>1. Leaves(p)
        BY <1>2, <1>4, ExitLeaves
    <2> QED
        BY <1>1, <1>3, <1>4, <2>1, EvidenceStep DEF Leaves
<1>5. CASE /\ trusted' = IF Recovered(trusted, Op(p)) THEN trusted
                         ELSE NewRecovery(trusted, heads, Op(p))
           /\ Recovered(trusted, Op(p)) => MatchesRecovery(trusted, heads, Op(p))
           /\ To(p, "finalize")
    <2>1. heads \in [Journal -> History] /\ \A j \in Journal : heads[j] = data[j]
        BY <1>2, TreeFields
    <2> HIDE DEF heads
    <2>2. /\ trusted' \in Seq(IntegrityCheckpoint)
          /\ \A j \in Journal : Latest(trusted', j).head = data[j]
        <3>1. trusted \in Seq(IntegrityCheckpoint)
            BY <1>2 DEF TypeOK
        <3>2. CASE Recovered(trusted, Op(p))
            BY <1>5, <2>1, <3>1, <3>2 DEF MatchesRecovery
        <3>3. CASE ~Recovered(trusted, Op(p))
            BY <1>2, <1>5, <2>1, <3>1, <3>3, RecoveryHeads
        <3> QED
            BY <3>2, <3>3
    <2>3. HeadsOf(data)'
        <3>1. \A j \in Journal : IsPrefix(data[j], data[j])
            BY <1>2, TreeFields, PrefixItself DEF Journal
        <3> QED
            BY <1>3, <2>2, <3>1 DEF HeadsOf
    <2>4. HeadsOK'
        BY <1>2, <1>3, <2>3 DEF HeadsOK
    <2>5. Goes(p, "finalize")
        BY <1>2, <1>5, ToGoes DEF Places, RestorePC
    <2>6. Acts(p) /\ KindOK(p)' /\ proc'[p].pc = "finalize" /\ Marker(p)' = Marker(p)
        BY <1>2, <1>3, <2>5, RestoreGoes DEF RestorePC
    <2>7. IsIntent(p, {"committed"})
        BY <1>1 DEF Inv, ProcessOK, PlaceOK
    <2>8. PlaceOK(p)'
        BY <1>3, <2>6, <2>7 DEF PlaceOK, At, IsIntent, PhaseIn
    <2>9. HeadOK(p)' /\ RetryOK(p)'
        BY <2>3, <2>6 DEF HeadOK, RetryOK, At
    <2>10. Quiet(p)
        BY <1>3, <2>6 DEF Quiet
    <2>11. JournalsOK'
        BY <1>3, <2>10, QuietJournals
    <2> QED
        BY <1>2, <1>3, <2>2, <2>4, <2>6, <2>8, <2>9, <2>10, <2>11, QuietStep DEF ProcessOK
<1> QED
    BY <1>4, <1>5 DEF EvidenceRecover

LEMMA FinalizeStep ==
    ASSUME Inv, NEW p \in Process, Finalize(p)
    PROVE  Inv'
<1>1. InEvidence(p) /\ InRestore(p) /\ proc[p].pc = "finalize"
    BY DEF Finalize, At, InEvidence, InRestore, RestorePC
<1>2. /\ proc[p] \in Running /\ TypeOK /\ Kind(Op(p)) = "restore" /\ data # None
    BY <1>1, InRestoreRuns, DataIsThere, TreeFields
<1>3. UNCHANGED <<data, staging, previous, archives, trusted, tornStore, releases>>
    BY DEF Finalize, evidence, trees
<1>4. IsIntent(p, {"committed"}) /\ HeadsOf(data)
    BY <1>1 DEF Inv, ProcessOK, PlaceOK, HeadOK, At
<1>5. /\ intent' \in RestoreIntent /\ intent'.phase = "finalized"
      /\ intent'.marker = intent.marker /\ intent' # None
    BY <1>2, <1>4, IntentFields DEF Finalize, TypeOK, IsIntent, PhaseIn
<1>6. data.marker = intent.marker
    BY <1>4 DEF Inv, TreesOK, CommittedOK, IsIntent
<1>7. Goes(p, "cleanup")
    BY <1>2, ToGoes DEF Finalize, Places, RestorePC
<1>8. Acts(p) /\ KindOK(p)' /\ proc'[p].pc = "cleanup"
    BY <1>2, <1>3, <1>7, RestoreGoes DEF RestorePC
<1>9. PlaceOK(p)'
    BY <1>5, <1>8 DEF PlaceOK, At, InEvidence, PhaseIn
<1>10. TreesOK'
    BY <1>2, <1>3, <1>5, <1>6 DEF TreesOK, AwayOK, MarkOK, CommittedOK, PhaseIn
<1>11. HeadsOK'
    BY <1>2, <1>3, <1>4 DEF HeadsOK, HeadsOf
<1>12. JournalsOK'
    BY <1>3 DEF Inv, JournalsOK, JournalsVerify, Verified
<1>13. /\ data' \in Tree \cup {None} /\ staging' \in Tree \cup {None}
       /\ previous' \in Tree \cup {None} /\ trusted' \in Seq(IntegrityCheckpoint)
    BY <1>2, <1>3 DEF TypeOK
<1>14. HeadOK(p)' /\ RetryOK(p)'
    BY <1>8, KnowsNoHeads
<1> QED
    BY <1>1, <1>3, <1>5, <1>8, <1>9, <1>10, <1>11, <1>12, <1>13, <1>14, RestoreStep
       DEF ProcessOK

LEMMA CleanupStep ==
    ASSUME Inv, NEW p \in Process, Cleanup(p)
    PROVE  Inv'
<1>1. InRestore(p) /\ proc[p].pc = "cleanup"
    BY DEF Cleanup, At, InRestore, RestorePC
<1>2. proc[p] \in Running /\ TypeOK /\ data \in Tree
    BY <1>1, InRestoreRuns, DataIsThere
<1>3. UNCHANGED <<intent, archives, trusted, tornStore, releases>>
    BY DEF Cleanup, evidence
<1>4. PhaseIn({"finalized"})
    BY <1>1 DEF Inv, ProcessOK, PlaceOK, At
<1>5. /\ data' \in Tree /\ staging' = None /\ previous' = None
      /\ TreesOK' /\ HeadsOK' /\ JournalsOK'
    BY <1>2, <1>3, <1>4, CleanedTrees DEF Cleanup, PhaseIn
<1>6. Leaves(p)
    BY <1>2, ExitLeaves DEF Cleanup
<1>7. Acts(p) /\ proc'[p].pc = "idle"
    BY <1>2, <1>3, <1>6 DEF Acts, Leaves, TypeOK, Idle
<1>8. KindOK(p)' /\ PlaceOK(p)'
    BY <1>6, <1>7, PlainPlace DEF Leaves
<1>9. HeadOK(p)' /\ RetryOK(p)'
    BY <1>7, KnowsNoHeads
<1>10. intent' \in RestoreIntent \cup {None} /\ trusted' \in Seq(IntegrityCheckpoint)
    BY <1>2, <1>3 DEF TypeOK
<1> QED
    BY <1>1, <1>3, <1>5, <1>7, <1>8, <1>9, <1>10, RestoreStep DEF ProcessOK

-----------------------------------------------------------------------------
(* The theorems.                                                           *)

LEMMA InitInv ==
    ASSUME Init
    PROVE  Inv
<1>1. NewTree \in Tree /\ NewTree.marker = None /\ NewTree.operations = <<>>
    <2>1. <<>> \in Seq(AuditEvent) /\ <<>> \in Seq(OperationEvent)
        OBVIOUS
    <2> QED
        BY <2>1 DEF NewTree, Tree
<1>2. data \in Tree /\ data # None /\ data.marker = None /\ data.operations = <<>>
    BY <1>1, TreeFields DEF Init
<1>3. \A p \in Process : proc[p] = Idle /\ proc[p].pc = "idle"
    BY DEF Init, Idle
<1>4. TypeOK
    <2>1. <<>> \in Seq(IntegrityCheckpoint)
        OBVIOUS
    <2>2. releases \in ReleaseState
        BY BackupAssumption DEF Init
    <2> QED
        BY <1>2, <2>1, <2>2 DEF Init, TypeOK
<1>5. Alone
    BY <1>3 DEF Alone, At
<1>6. TreesOK
    BY <1>2 DEF Init, TreesOK, AwayOK, MarkOK, CommittedOK, PhaseIn
<1>7. HeadsOK
    <2>1. \A j \in Journal : Latest(trusted, j) = None
        BY DEF Init, Latest
    <2> QED
        BY <1>2, <2>1 DEF HeadsOK, HeadsOf
<1>8. JournalsOK
    <2>1. Verifies(data.operations)
        BY <1>2 DEF Verifies
    <2> QED
        BY <2>1 DEF Init, JournalsOK, JournalsVerify, Verified
<1>9. ASSUME NEW p \in Process
      PROVE  ProcessOK(p)
    BY <1>3 DEF ProcessOK, KindOK, PlaceOK, HeadOK, RetryOK, InRestore, InEvidence,
                RestorePC, At
<1> QED
    BY <1>4, <1>5, <1>6, <1>7, <1>8, <1>9 DEF Inv

LEMMA StutterInv ==
    ASSUME Inv, UNCHANGED vars
    PROVE  Inv'
<1>1. UNCHANGED <<data, staging, previous, intent, archives, trusted, tornStore, releases,
                  proc>>
    BY DEF vars, trees, evidence
<1>2. TypeOK' /\ Alone' /\ TreesOK'
    BY <1>1 DEF Inv, TypeOK, Alone, TreesOK, AwayOK, MarkOK, CommittedOK, PhaseIn, At, Op
<1>3. HeadsOK' /\ JournalsOK'
    BY <1>1 DEF Inv, HeadsOK, HeadsOf, Pending, Switched, JournalsOK, JournalsVerify, Verified
<1>4. ASSUME NEW p \in Process
      PROVE  ProcessOK(p)'
    <2>1. ProcessOK(p)
        BY DEF Inv
    <2>2. KindOK(p)' /\ RetryOK(p)'
        BY <1>1, <2>1 DEF ProcessOK, KindOK, RetryOK, InRestore, InEvidence, At, Op, Verified
    <2>3. PlaceOK(p)'
        BY <1>1, <2>1 DEF ProcessOK, PlaceOK, InEvidence, At, IsMarked, IsIntent, Unmarked,
                          PhaseIn, Marker, Snapshot, Op
    <2>4. HeadOK(p)'
        BY <1>1, <2>1 DEF ProcessOK, HeadOK, HeadsOf, At
    <2> QED
        BY <2>2, <2>3, <2>4 DEF ProcessOK
<1> QED
    BY <1>2, <1>3, <1>4 DEF Inv

LEMMA NextInv ==
    ASSUME Inv, [Next]_vars
    PROVE  Inv'
<1>1. ASSUME NEW p \in Process, NEW op \in Operation, Start(p, op)
      PROVE  Inv'
    BY <1>1, StartStep
<1>2. ASSUME NEW p \in Process, Step(p)
      PROVE  Inv'
    <2>1. CASE Begin(p) \/ Retry(p) \/ Replay(p) \/ Succeed(p) \/ RecordFailure(p) \/ Fail(p)
        BY <2>1, BeginStep, RetryStep, ReplayStep, SucceedStep, RecordFailureStep, FailStep
    <2>2. CASE AuditCheck(p) \/ AuditAppend(p)
        BY <2>2, AuditCheckStep, AuditAppendStep
    <2>3. CASE AnchorEpoch(p) \/ AnchorVerify(p) \/ AnchorCheckpoint(p) \/ AnchorLost(p)
        BY <2>3, AnchorEpochStep, AnchorVerifyStep, AnchorCheckpointStep, AnchorLostStep
    <2>4. CASE ReleaseAct(p) \/ BackupAct(p) \/ RestoreAct(p)
        BY <2>4, ReleaseActStep, BackupActStep, RestoreActStep
    <2>5. CASE \/ Reconcile(p) \/ RestoreAbort(p) \/ RestoreStage(p) \/ RestorePrepare(p)
               \/ RestoreMove(p) \/ RestoreMoved(p) \/ RestoreSwitch(p)
               \/ RestoreCommit(p) \/ RestoreRollback(p)
        BY <2>5, ReconcileStep, RestoreAbortStep, RestoreStageStep, RestorePrepareStep,
           RestoreMoveStep, RestoreMovedStep, RestoreSwitchStep, RestoreCommitStep,
           RestoreRollbackStep
    <2>6. CASE \/ EvidenceBegin(p) \/ EvidenceSucceed(p) \/ EvidenceRecover(p)
               \/ Finalize(p) \/ Cleanup(p)
        BY <2>6, EvidenceBeginStep, EvidenceSucceedStep, EvidenceRecoverStep, FinalizeStep,
           CleanupStep
    <2> QED
        BY <1>2, <2>1, <2>2, <2>3, <2>4, <2>5, <2>6 DEF Step
<1>3. ASSUME NEW p \in Process, Crash(p) \/ Raise(p)
      PROVE  Inv'
    BY <1>3, CrashStep, RaiseStep
<1>4. CASE UNCHANGED vars
    BY <1>4, StutterInv
<1> QED
    BY <1>1, <1>2, <1>3, <1>4 DEF Next

\* The invariant above holds of every behaviour, whatever dies or raises where.
THEOREM BackupInv == Spec => []Inv
<1>1. Init => Inv
    BY InitInv
<1>2. Inv /\ [Next]_vars => Inv'
    BY NextInv
<1> QED
    BY <1>1, <1>2, PTL DEF Spec

\* Every tree, the intent, the archives and the store of trusted heads are always of
\* the form their readers parse, and every command is at one of its places.
THEOREM BackupTypeOK == Spec => []TypeOK
<1>1. Inv => TypeOK
    BY DEF Inv
<1> QED
    BY <1>1, BackupInv, PTL

\* A crash or an error at any step of restore, _reconcile_intent or
\* _rollback_precommit leaves the data directory in place, or moved to where the
\* intent says it is to be put back from.
THEOREM RestoreNeverLosesData == Spec => []DataCanBePutBack
<1>1. Inv => DataCanBePutBack
    BY DEF Inv, TreesOK, AwayOK, PhaseIn, DataCanBePutBack
<1> QED
    BY <1>1, BackupInv, PTL

\* Until _finalize_intent has recorded that the restored heads are trusted, the tree
\* the restore replaced is still there.
THEOREM RestoreKeepsReplacedTree == Spec => []ReplacedTreeIsKept
<1>1. Inv => ReplacedTreeIsKept
    <2> SUFFICES ASSUME Inv, Pending
                 PROVE  previous # None
        BY DEF ReplacedTreeIsKept
    <2>1. data # None /\ intent # None /\ data.marker = intent.marker
          /\ intent.phase # "finalized"
        BY DEF Pending, Switched
    <2>2. data.marker # None
        BY <2>1, IntentFields DEF Inv, TypeOK
    <2> QED
        BY <2>1, <2>2 DEF Inv, TreesOK, MarkOK
<1> QED
    BY <1>1, BackupInv, PTL

\* Outside a pending restore, no interleaving of the commands' _anchor with appends,
\* crashes, retries and earlier restores leaves a trusted head that is not a prefix of
\* its journal.
THEOREM AnchorsAreHistory == Spec => []TrustedHeadsAreHistory
<1>1. Inv => TrustedHeadsAreHistory
    BY DEF Inv, HeadsOK, HeadsOf, TrustedHeadsAreHistory
<1> QED
    BY <1>1, BackupInv, PTL

\* The operation journal of every tree reads: no sequence of begin, retry, succeed and
\* fail by commands that interleave, die and are repeated appends an event that
\* _apply_event refuses.
THEOREM CommandsKeepJournals == Spec => []JournalsVerify
<1>1. Inv => JournalsVerify
    BY DEF Inv, JournalsOK
<1> QED
    BY <1>1, BackupInv, PTL

-----------------------------------------------------------------------------
(* The store of trusted heads.                                             *)

LEMMA LatestOfLast ==
    ASSUME NEW s \in Seq(IntegrityCheckpoint), s # <<>>
    PROVE  /\ Len(s) \in Nat \ {0} /\ DOMAIN s = 1..Len(s)
           /\ s[Len(s)] \in IntegrityCheckpoint
           /\ Latest(s, s[Len(s)].journal) = s[Len(s)]
<1> DEFINE n == Len(s)
           mine == {i \in DOMAIN s : s[i].journal = s[n].journal}
<1>1. n \in Nat \ {0} /\ DOMAIN s = 1..n
    BY EmptySeq, LenProperties
<1>2. s[n] \in IntegrityCheckpoint
    BY <1>1, ElementOfSeq
<1> HIDE DEF n
<1>3. n \in mine /\ mine \subseteq Int /\ \A y \in mine : y <= n
    BY <1>1
<1>4. Max(mine) = n
    BY <1>3, MaxIs
<1> QED
    BY <1>1, <1>2, <1>3, <1>4 DEF Latest, n

\* A store that verifies is in the epoch of its last record, and no record is in a
\* later one.
LEMMA StoreEpoch ==
    ASSUME NEW s \in Seq(IntegrityCheckpoint), EpochKnown(s)
    PROVE  /\ \A i \in DOMAIN s : s[i].epoch <= Epoch(s)
           /\ \A j \in Journal : Latest(s, j) # None => Latest(s, j).epoch = Epoch(s)
<1>1. CASE s = <<>>
    BY <1>1 DEF Latest
<1>2. CASE s # <<>>
    <2> DEFINE last == s[Len(s)]
               E == Epochs(s)
    <2>1. /\ Len(s) \in Nat \ {0} /\ DOMAIN s = 1..Len(s) /\ last \in IntegrityCheckpoint
          /\ Latest(s, last.journal) = last
        BY <1>2, LatestOfLast
    <2>2. \A i \in DOMAIN s : s[i] \in IntegrityCheckpoint
        BY <2>1, ElementOfSeq
    <2>3. /\ last.epoch \in Nat /\ last # None /\ last.journal \in Journal
          /\ \A i \in DOMAIN s : s[i].epoch \in Nat
        BY <2>1, <2>2, BackupAssumption DEF IntegrityCheckpoint
    <2>4. \A i \in DOMAIN s : s[i].epoch <= last.epoch
        <3> SUFFICES ASSUME NEW i \in DOMAIN s
                     PROVE  s[i].epoch <= last.epoch
            OBVIOUS
        <3>1. CASE i = Len(s)
            BY <2>3, <3>1
        <3>2. CASE i # Len(s)
            <4>1. i < Len(s) /\ Len(s) \in DOMAIN s
                BY <2>1, <3>2
            <4> QED
                BY <4>1 DEF EpochKnown, ValidStore
        <3> QED
            BY <3>1, <3>2
    <2>5. ASSUME NEW j \in Journal, Latest(s, j) # None
          PROVE  \E i \in DOMAIN s : Latest(s, j) = s[i]
        <3> DEFINE mine == {i \in DOMAIN s : s[i].journal = j}
        <3>1. mine # {} /\ Latest(s, j) = s[Max(mine)]
            BY <2>5 DEF Latest
        <3>2. Max(mine) \in DOMAIN s
            BY <2>1, <3>1, MaxIsMember
        <3> QED
            BY <3>1, <3>2
    <2> HIDE DEF last
    <2>6. /\ E \subseteq Nat /\ last.epoch \in E
          /\ \A y \in E : y <= last.epoch
        BY <2>1, <2>3, <2>4, <2>5 DEF Epochs
    <2> HIDE DEF E
    <2>7. E = {last.epoch}
        <3>1. IsFiniteSet(E)
            BY <2>3, <2>6, FS_BoundedSetOfNaturals
        <3>2. Cardinality(E) <= 1 /\ Cardinality(E) \in Nat
            BY <3>1, FS_CardinalityType DEF EpochKnown, E
        <3>3. IsFiniteSet(E \ {last.epoch})
              /\ Cardinality(E \ {last.epoch}) = Cardinality(E) - 1
            BY <2>6, <3>1, FS_RemoveElement
        <3>4. Cardinality(E \ {last.epoch}) \in Nat
            BY <3>3, FS_CardinalityType
        <3>5. Cardinality(E \ {last.epoch}) = 0
            BY <3>2, <3>3, <3>4
        <3>6. E \ {last.epoch} = {}
            BY <3>3, <3>5, FS_EmptySet
        <3> QED
            BY <2>6, <3>6
    <2>8. Epoch(s) = last.epoch
        <3>1. Max(E) = last.epoch
            BY <2>3, <2>7, MaxOfOne
        <3> QED
            BY <1>2, <3>1 DEF Epoch, E
    <2>9. \A j \in Journal : Latest(s, j) # None => Latest(s, j).epoch \in E
        BY DEF Epochs, E
    <2> QED
        BY <2>4, <2>7, <2>8, <2>9
<1> QED
    BY <1>1, <1>2

\* The heads of a store in one epoch.
LEMMA OneEpoch ==
    ASSUME NEW s \in Seq(IntegrityCheckpoint), s # <<>>, NEW e \in Nat,
           \A j \in Journal : Latest(s, j) # None => Latest(s, j).epoch = e
    PROVE  Cardinality(Epochs(s)) <= 1 /\ Epoch(s) = e
<1> DEFINE last == s[Len(s)]
<1>1. last \in IntegrityCheckpoint /\ Latest(s, last.journal) = last
    BY LatestOfLast
<1>2. last # None /\ last.journal \in Journal
    BY <1>1, BackupAssumption DEF IntegrityCheckpoint
<1> HIDE DEF last
<1>3. Epochs(s) = {e}
    BY <1>1, <1>2 DEF Epochs
<1>4. Max({e}) = e
    BY MaxOfOne
<1>5. Cardinality({e}) = 1
    BY FS_Singleton
<1> QED
    BY <1>3, <1>4, <1>5 DEF Epoch

\* A head that is anchored, in the epoch of the store.
LEMMA AnchoredVerifies ==
    ASSUME NEW s \in Seq(IntegrityCheckpoint), EpochKnown(s),
           NEW j \in Journal, NEW head \in History
    PROVE  LET t == Append(s, Record(j, head, Epoch(s), None))
           IN EpochKnown(t) /\ Epoch(t) = Epoch(s)
<1> DEFINE c == Record(j, head, Epoch(s), None)
           n == Len(s)
           t == Append(s, c)
<1>1. Epoch(s) \in Nat
    BY EpochType
<1>2. c \in IntegrityCheckpoint /\ c.epoch = Epoch(s) /\ c.op = None
    BY <1>1 DEF Record, IntegrityCheckpoint
<1> HIDE DEF c
<1>3. /\ n \in Nat /\ DOMAIN s = 1..n
      /\ t \in Seq(IntegrityCheckpoint) /\ Len(t) = n + 1
      /\ \A i \in 1..n : t[i] = s[i]
      /\ t[n + 1] = c
    BY <1>2, LenProperties, AppendProperties
<1>4. DOMAIN t = 1..(n + 1) /\ t # <<>>
    BY <1>3, LenProperties, EmptySeq
<1>5. \A k \in Journal : Latest(t, k) # None => Latest(t, k).epoch = Epoch(s)
    BY <1>2, StoreEpoch, LatestAppend
<1>6. \A i \in DOMAIN s : s[i].epoch <= Epoch(s) /\ s[i].epoch \in Nat
    <2>1. \A i \in DOMAIN s : s[i] \in IntegrityCheckpoint
        BY <1>3, ElementOfSeq
    <2> QED
        BY <2>1, StoreEpoch DEF IntegrityCheckpoint
<1> HIDE DEF t, n
<1>7. Cardinality(Epochs(t)) <= 1 /\ Epoch(t) = Epoch(s)
    BY <1>1, <1>3, <1>4, <1>5, OneEpoch
<1>8. ASSUME NEW i \in DOMAIN t, NEW k \in DOMAIN t, i < k
      PROVE  t[i].epoch <= t[k].epoch
    <2>1. i \in DOMAIN s /\ t[i] = s[i]
        BY <1>3, <1>4, <1>8
    <2>2. CASE k = n + 1
        BY <1>2, <1>3, <1>6, <2>1, <2>2
    <2>3. CASE k # n + 1
        <3>1. k \in DOMAIN s /\ t[k] = s[k]
            BY <1>3, <1>4, <2>3
        <3> QED
            BY <1>8, <2>1, <3>1 DEF EpochKnown, ValidStore
    <2> QED
        BY <2>2, <2>3
<1>9. \A i \in DOMAIN t : t[i].op # None => i \in DOMAIN s /\ t[i] = s[i]
    BY <1>2, <1>3, <1>4
<1>10. \A i \in DOMAIN s : i \in DOMAIN t /\ t[i] = s[i]
    BY <1>3, <1>4
<1>11. ASSUME NEW i \in DOMAIN t, NEW k \in DOMAIN t, t[i].op # None, t[k].op # None,
              t[i].epoch = t[k].epoch
       PROVE  t[i].op = t[k].op
    BY <1>9, <1>11 DEF EpochKnown, ValidStore
<1>12. ASSUME NEW i \in DOMAIN t, t[i].op # None
       PROVE  LET pair == {k \in DOMAIN t : t[k].op = t[i].op}
              IN /\ {t[k].journal : k \in pair} = Journal
                 /\ \E k \in pair : pair = {k, k + 1} /\ t[k].epoch = t[k + 1].epoch
    <2> DEFINE pair == {k \in DOMAIN s : s[k].op = s[i].op}
               after == {k \in DOMAIN t : t[k].op = t[i].op}
    <2>1. i \in DOMAIN s /\ t[i] = s[i]
        BY <1>9, <1>12
    <2>2. after = pair
        BY <1>9, <1>10, <1>12, <2>1
    <2>3. /\ {s[k].journal : k \in pair} = Journal
          /\ \E k \in pair : pair = {k, k + 1} /\ s[k].epoch = s[k + 1].epoch
        BY <1>12, <2>1 DEF EpochKnown, ValidStore
    <2>4. {t[k].journal : k \in pair} = {s[k].journal : k \in pair}
        BY <1>10
    <2>5. \E k \in pair : pair = {k, k + 1} /\ t[k].epoch = t[k + 1].epoch
        <3>1. PICK k \in pair : pair = {k, k + 1} /\ s[k].epoch = s[k + 1].epoch
            BY <2>3
        <3>2. k \in DOMAIN s /\ k + 1 \in DOMAIN s
            BY <3>1
        <3> QED
            BY <1>10, <3>1, <3>2
    <2> QED
        BY <2>2, <2>3, <2>4, <2>5
<1>13. ValidStore(t)
    BY <1>8, <1>11, <1>12 DEF ValidStore
<1> QED
    BY <1>7, <1>13 DEF EpochKnown, t, c

\* Both heads of a recovery, in the next epoch.
LEMMA RecoveryVerifies ==
    ASSUME NEW s \in Seq(IntegrityCheckpoint), EpochKnown(s),
           NEW heads \in [Journal -> History], NEW op \in Operation, ~Recovered(s, op)
    PROVE  LET t == NewRecovery(s, heads, op)
           IN EpochKnown(t) /\ Epoch(t) = Epoch(s) + 1
<1> DEFINE e == Epoch(s) + 1
           a == Record("audit", heads["audit"], e, op)
           b == Record("operations", heads["operations"], e, op)
           n == Len(s)
           t == NewRecovery(s, heads, op)
<1>1. Epoch(s) \in Nat /\ e \in Nat /\ Epoch(s) < e
    BY EpochType
<1>2. op # None
    BY BackupAssumption
<1> HIDE DEF e
<1>3. /\ a \in IntegrityCheckpoint /\ a.journal = "audit" /\ a.epoch = e /\ a.op = op
      /\ b \in IntegrityCheckpoint /\ b.journal = "operations" /\ b.epoch = e /\ b.op = op
    BY <1>1 DEF Record, IntegrityCheckpoint, Journal
<1> HIDE DEF a, b
<1>4. t = Append(Append(s, a), b) /\ Append(s, a) \in Seq(IntegrityCheckpoint)
    BY <1>3, AppendTwo, AppendProperties DEF NewRecovery, a, b, e
<1> HIDE DEF t
<1>5. /\ n \in Nat /\ DOMAIN s = 1..n
      /\ t \in Seq(IntegrityCheckpoint) /\ Len(t) = n + 2
      /\ \A i \in 1..n : t[i] = s[i]
      /\ t[n + 1] = a /\ t[n + 2] = b
    <2>1. /\ n \in Nat /\ DOMAIN s = 1..n /\ Len(Append(s, a)) = n + 1
          /\ \A i \in 1..n : Append(s, a)[i] = s[i]
          /\ Append(s, a)[n + 1] = a
        BY <1>3, AppendProperties, LenProperties
    <2> DEFINE v == Append(s, a)
    <2> HIDE DEF v, n
    <2>2. /\ t \in Seq(IntegrityCheckpoint) /\ Len(t) = Len(v) + 1
          /\ \A i \in 1..Len(v) : t[i] = v[i]
          /\ t[Len(v) + 1] = b
        BY <1>3, <1>4, AppendProperties DEF v
    <2> QED
        BY <2>1, <2>2 DEF v
<1> HIDE DEF n
<1>6. DOMAIN t = 1..(n + 2) /\ t # <<>>
    BY <1>5, LenProperties, EmptySeq
<1>7. \A i \in DOMAIN t : \/ i \in DOMAIN s /\ t[i] = s[i]
                          \/ i = n + 1 /\ t[i] = a
                          \/ i = n + 2 /\ t[i] = b
    BY <1>5, <1>6
<1>8. \A i \in DOMAIN s : /\ s[i].epoch \in Nat /\ s[i].epoch <= Epoch(s)
                          /\ s[i].op # op /\ i \in DOMAIN t /\ t[i] = s[i] /\ i <= n
    <2>1. \A i \in DOMAIN s : s[i] \in IntegrityCheckpoint
        BY <1>5, ElementOfSeq
    <2>2. \A i \in DOMAIN s : s[i].epoch \in Nat /\ s[i].epoch <= Epoch(s)
        BY <2>1, StoreEpoch DEF IntegrityCheckpoint
    <2>3. \A i \in DOMAIN s : s[i].op # op
        BY DEF Recovered
    <2>4. \A i \in DOMAIN s : i \in DOMAIN t /\ t[i] = s[i] /\ i <= n
        BY <1>5, <1>6
    <2> QED
        BY <2>2, <2>3, <2>4
<1>9. Cardinality(Epochs(t)) <= 1 /\ Epoch(t) = e
    <2>1. \A j \in Journal : Latest(t, j).epoch = e
        <3> SUFFICES ASSUME NEW j \in Journal
                     PROVE  Latest(t, j).epoch = e
            OBVIOUS
        <3>1. Latest(Append(s, a), j) = IF a.journal = j THEN a ELSE Latest(s, j)
            BY <1>3, LatestAppend
        <3> DEFINE u == Append(s, a)
        <3> HIDE DEF u
        <3>2. u \in Seq(IntegrityCheckpoint) /\ t = Append(u, b)
            BY <1>4 DEF u
        <3>3. Latest(t, j) = IF b.journal = j THEN b ELSE Latest(u, j)
            BY <1>3, <3>2, LatestAppend
        <3> QED
            BY <1>3, <3>1, <3>3 DEF Journal, u
    <2> QED
        BY <1>1, <1>5, <1>6, <2>1, OneEpoch
<1>10. ASSUME NEW i \in DOMAIN t, NEW k \in DOMAIN t, i < k
       PROVE  t[i].epoch <= t[k].epoch
    <2>1. CASE k \in DOMAIN s
        <3>1. i \in DOMAIN s
            BY <1>5, <1>6, <1>10, <2>1
        <3> QED
            BY <1>8, <1>10, <2>1, <3>1 DEF EpochKnown, ValidStore
    <2>2. CASE k \notin DOMAIN s
        <3>1. t[k].epoch = e
            BY <1>3, <1>7, <2>2
        <3>2. t[i].epoch <= e
            BY <1>1, <1>3, <1>7, <1>8
        <3> QED
            BY <3>1, <3>2
    <2> QED
        BY <2>1, <2>2
<1>11. ASSUME NEW i \in DOMAIN t, NEW k \in DOMAIN t, t[i].op # None, t[k].op # None,
              t[i].epoch = t[k].epoch
       PROVE  t[i].op = t[k].op
    <2>1. CASE i \in DOMAIN s /\ k \in DOMAIN s
        BY <1>8, <1>11, <2>1 DEF EpochKnown, ValidStore
    <2>2. CASE i \notin DOMAIN s /\ k \notin DOMAIN s
        BY <1>3, <1>7, <2>2
    <2>3. ASSUME NEW x \in DOMAIN s, NEW y \in DOMAIN t \ DOMAIN s
          PROVE  t[x].epoch # t[y].epoch
        <3>1. t[y].epoch = e
            BY <1>3, <1>7, <2>3
        <3>2. t[x].epoch \in Nat /\ t[x].epoch <= Epoch(s)
            BY <1>8, <2>3
        <3> QED
            BY <1>1, <3>1, <3>2
    <2> QED
        BY <1>11, <2>1, <2>2, <2>3
<1>12. ASSUME NEW i \in DOMAIN t, t[i].op # None
       PROVE  LET pair == {k \in DOMAIN t : t[k].op = t[i].op}
              IN /\ {t[k].journal : k \in pair} = Journal
                 /\ \E k \in pair : pair = {k, k + 1} /\ t[k].epoch = t[k + 1].epoch
    <2> DEFINE after == {k \in DOMAIN t : t[k].op = t[i].op}
    <2>1. CASE i \in DOMAIN s
        <3> DEFINE pair == {k \in DOMAIN s : s[k].op = s[i].op}
        <3>1. t[i] = s[i] /\ s[i].op # op
            BY <1>8, <2>1
        <3>2. after = pair
            BY <1>3, <1>7, <1>8, <3>1
        <3>3. /\ {s[k].journal : k \in pair} = Journal
              /\ \E k \in pair : pair = {k, k + 1} /\ s[k].epoch = s[k + 1].epoch
            BY <1>12, <2>1, <3>1 DEF EpochKnown, ValidStore
        <3>4. {t[k].journal : k \in pair} = {s[k].journal : k \in pair}
            BY <1>8
        <3>5. \E k \in pair : pair = {k, k + 1} /\ t[k].epoch = t[k + 1].epoch
            <4>1. PICK k \in pair : pair = {k, k + 1} /\ s[k].epoch = s[k + 1].epoch
                BY <3>3
            <4>2. k \in DOMAIN s /\ k + 1 \in DOMAIN s
                BY <4>1
            <4> QED
                BY <1>8, <4>1, <4>2
        <3> QED
            BY <3>2, <3>3, <3>4, <3>5
    <2>2. CASE i \notin DOMAIN s
        <3>1. t[i].op = op
            BY <1>3, <1>7, <2>2
        <3>2. n + 1 \in DOMAIN t /\ n + 2 \in DOMAIN t
            BY <1>5, <1>6
        <3>3. after = {n + 1, n + 2}
            BY <1>3, <1>5, <1>7, <1>8, <3>1, <3>2
        <3>4. n + 2 = (n + 1) + 1
            BY <1>5
        <3>5. {t[k].journal : k \in after} = Journal
            BY <1>3, <1>5, <3>3 DEF Journal
        <3>6. n + 1 \in after /\ after = {n + 1, (n + 1) + 1}
              /\ t[n + 1].epoch = t[(n + 1) + 1].epoch
            BY <1>3, <1>5, <3>3, <3>4
        <3> QED
            BY <3>5, <3>6
    <2> QED
        BY <2>1, <2>2
<1>13. ValidStore(t)
    BY <1>10, <1>11, <1>12 DEF ValidStore
<1> QED
    BY <1>9, <1>13 DEF EpochKnown, t, e

\* The steps that do not write the store.
LEMMA StoreUnchanged ==
    ASSUME NEW p \in Process, Step(p) \/ Crash(p) \/ Raise(p), ~AnchorCheckpoint(p),
           ~EvidenceRecover(p)
    PROVE  trusted' = trusted
<1>1. CASE Begin(p) \/ Retry(p) \/ Replay(p) \/ Succeed(p) \/ RecordFailure(p) \/ Fail(p)
    BY <1>1 DEF Begin, Retry, Replay, Succeed, RecordFailure, Fail, evidence
<1>2. CASE AuditCheck(p) \/ AuditAppend(p) \/ AnchorEpoch(p) \/ AnchorVerify(p) \/ AnchorLost(p)
    BY <1>2 DEF AuditCheck, AuditAppend, AnchorEpoch, AnchorVerify, AnchorLost, evidence
<1>3. CASE ReleaseAct(p) \/ BackupAct(p) \/ RestoreAct(p) \/ Reconcile(p) \/ RestoreAbort(p)
    BY <1>3 DEF ReleaseAct, BackupAct, RestoreAct, Reconcile, RestoreAbort, evidence
<1>4. CASE \/ RestoreStage(p) \/ RestorePrepare(p) \/ RestoreMove(p) \/ RestoreMoved(p)
           \/ RestoreSwitch(p) \/ RestoreCommit(p) \/ RestoreRollback(p)
    BY <1>4 DEF RestoreStage, RestorePrepare, RestoreMove, RestoreMoved, RestoreSwitch,
                RestoreCommit, RestoreRollback, evidence
<1>5. CASE EvidenceBegin(p) \/ EvidenceSucceed(p) \/ Finalize(p) \/ Cleanup(p)
    BY <1>5 DEF EvidenceBegin, EvidenceSucceed, Finalize, Cleanup, evidence
<1>6. CASE Crash(p) \/ Raise(p)
    BY <1>6 DEF Crash, Raise, evidence
<1> QED
    BY <1>1, <1>2, <1>3, <1>4, <1>5, <1>6 DEF Step

LEMMA AnchorCheckpointStore ==
    ASSUME Inv, EpochKnown(trusted), NEW p \in Process, AnchorCheckpoint(p)
    PROVE  EpochKnown(trusted') /\ Epoch(trusted') = Epoch(trusted)
<1>1. CASE trusted' = trusted
    BY <1>1
<1>2. CASE trusted' = Anchored(trusted, proc[p].journal, proc[p].head)
    <2>1. trusted \in Seq(IntegrityCheckpoint)
        BY DEF Inv, TypeOK
    <2>2. proc[p].journal \in Journal /\ proc[p].head \in History
        BY AtOutside, RunningFacts DEF AnchorCheckpoint, At, OrdinaryPC
    <2> DEFINE t == Append(trusted, Record(proc[p].journal, proc[p].head,
                                           Epoch(trusted), None))
    <2>3. EpochKnown(t) /\ Epoch(t) = Epoch(trusted)
        BY <2>1, <2>2, AnchoredVerifies
    <2>4. trusted' = trusted \/ trusted' = t
        BY <1>2 DEF Anchored
    <2> HIDE DEF t
    <2> QED
        BY <2>3, <2>4
<1> QED
    BY <1>1, <1>2 DEF AnchorCheckpoint

LEMMA EvidenceRecoverStore ==
    ASSUME Inv, EpochKnown(trusted), NEW p \in Process, EvidenceRecover(p)
    PROVE  EpochKnown(trusted') /\ Epoch(trusted) <= Epoch(trusted')
<1>1. trusted \in Seq(IntegrityCheckpoint) /\ Epoch(trusted) \in Nat
    BY EpochType DEF Inv, TypeOK
<1>2. CASE trusted' = trusted
    BY <1>1, <1>2
<1>3. CASE /\ ~Recovered(trusted, Op(p))
           /\ trusted' = NewRecovery(trusted, [j \in Journal |-> data[j]], Op(p))
    <2> DEFINE heads == [j \in Journal |-> data[j]]
               t == NewRecovery(trusted, heads, Op(p))
    <2>1. InRestore(p) /\ proc[p].pc = "recover"
        BY DEF EvidenceRecover, At, InRestore, RestorePC
    <2>2. Op(p) \in Operation /\ data \in Tree
        BY <2>1, InRestoreRuns, DataIsThere
    <2>3. heads \in [Journal -> History]
        BY <2>2, TreeFields
    <2> HIDE DEF heads
    <2>4. EpochKnown(t) /\ Epoch(t) = Epoch(trusted) + 1
        BY <1>1, <1>3, <2>2, <2>3, RecoveryVerifies
    <2>5. trusted' = t
        BY <1>3 DEF heads
    <2> HIDE DEF t
    <2> QED
        BY <1>1, <2>4, <2>5
<1> QED
    BY <1>2, <1>3 DEF EvidenceRecover

LEMMA StoreStep ==
    ASSUME Inv, EpochKnown(trusted), [Next]_vars
    PROVE  /\ EpochKnown(trusted') /\ Epoch(trusted) <= Epoch(trusted')
           /\ Epoch(trusted) \in Nat /\ Epoch(trusted') \in Nat
<1>1. Epoch(trusted) \in Nat
    BY EpochType DEF Inv, TypeOK
<1>2. ASSUME NEW p \in Process, Step(p) \/ Crash(p) \/ Raise(p)
      PROVE  EpochKnown(trusted') /\ Epoch(trusted) <= Epoch(trusted')
    BY <1>1, <1>2, StoreUnchanged, AnchorCheckpointStore, EvidenceRecoverStore
<1>3. ASSUME NEW p \in Process, NEW op \in Operation, Start(p, op)
      PROVE  trusted' = trusted
    BY <1>3 DEF Start, evidence
<1>4. CASE UNCHANGED vars
    BY <1>1, <1>4 DEF vars, evidence
<1>5. EpochKnown(trusted') /\ Epoch(trusted) <= Epoch(trusted')
    BY <1>1, <1>2, <1>3, <1>4 DEF Next
<1>6. Epoch(trusted') \in Nat
    <2>1. trusted' \in Seq(IntegrityCheckpoint)
        BY NextInv DEF Inv, TypeOK
    <2> QED
        BY <2>1, EpochType
<1> QED
    BY <1>1, <1>5, <1>6

\* The records of the store are ones _validate_checkpoint_records accepts, and both
\* journals are in one epoch.
StoreVerifies == EpochKnown(trusted)

\* Whatever commands anchor, restore, die and are repeated, the checkpoint store reads:
\* no checkpoint or recovery, written after however many others, is one that
\* _validate_checkpoint_records or _current_recovery_epoch refuses.  Only an append
\* that a crash tears makes the store unreadable.
THEOREM TrustedStoreVerifies == Spec => []StoreVerifies
<1>1. Init => StoreVerifies
    <2> SUFFICES ASSUME Init
                 PROVE  EpochKnown(trusted)
        BY DEF StoreVerifies
    <2>1. trusted = <<>> /\ DOMAIN trusted = {}
        BY DEF Init
    <2>2. \A j \in Journal : Latest(trusted, j) = None
        BY <2>1 DEF Latest
    <2>3. Epochs(trusted) = {}
        BY <2>2 DEF Epochs
    <2>4. Cardinality(Epochs(trusted)) <= 1
        BY <2>3, FS_EmptySet
    <2> QED
        BY <2>1, <2>4 DEF EpochKnown, ValidStore
<1>2. Inv /\ StoreVerifies /\ [Next]_vars => StoreVerifies'
    BY StoreStep DEF StoreVerifies
<1> QED
    BY <1>1, <1>2, BackupInv, PTL DEF Spec

\* No step takes the store back to an earlier epoch: what a restore has made the
\* trusted history is never replaced by a checkpoint of the history before it.
THEOREM EpochsNeverMoveBack == Spec => [][Epoch(trusted) <= Epoch(trusted')]_vars
<1>1. Inv /\ StoreVerifies /\ [Next]_vars => [Epoch(trusted) <= Epoch(trusted')]_vars
    BY StoreStep DEF StoreVerifies
<1> QED
    BY <1>1, BackupInv, TrustedStoreVerifies, PTL DEF Spec

\* No command and no archive is of a later epoch than the store.
NoLaterEpoch ==
    /\ \A a \in Archive : Verified(a) => archives[a].epoch <= Epoch(trusted)
    /\ \A p \in Process : ~At(p, "idle") => proc[p].epoch <= Epoch(trusted)

\* A step leaves a command the epoch it has read, or ends it.
KeepsEpoch(p) ==
    /\ proc' = [proc EXCEPT ![p] = proc'[p]]
    /\ proc'[p] = Idle \/ proc'[p].epoch = proc[p].epoch

LEMMA ToKeepsEpoch ==
    ASSUME TypeOK, NEW p \in Process, proc[p] \in Running, NEW x, To(p, x)
    PROVE  KeepsEpoch(p)
<1>1. proc' = [proc EXCEPT ![p] = [proc[p] EXCEPT !.pc = x]]
    BY DEF To
<1>2. proc'[p] = [proc[p] EXCEPT !.pc = x] /\ proc' = [proc EXCEPT ![p] = proc'[p]]
    BY <1>1 DEF TypeOK
<1>3. [proc[p] EXCEPT !.pc = x].epoch = proc[p].epoch
    BY DEF Running
<1> QED
    BY <1>2, <1>3 DEF KeepsEpoch

LEMMA ExitKeepsEpoch ==
    ASSUME TypeOK, NEW p \in Process, Exit(p)
    PROVE  KeepsEpoch(p)
  BY ExitLeaves DEF Leaves, KeepsEpoch

LEMMA StageKeepsEpoch ==
    ASSUME TypeOK, NEW p \in Process, proc[p] \in Running, NEW x, NEW y,
           proc' = [proc EXCEPT ![p] = [proc[p] EXCEPT !.pc = x, !.stage = y]]
    PROVE  KeepsEpoch(p)
<1> DEFINE me == [proc[p] EXCEPT !.pc = x, !.stage = y]
<1>1. proc'[p] = me /\ proc' = [proc EXCEPT ![p] = proc'[p]]
    BY DEF TypeOK
<1>2. me.epoch = proc[p].epoch
    BY DEF Running
<1> QED
    BY <1>1, <1>2 DEF KeepsEpoch

LEMMA SameKeepsEpoch ==
    ASSUME TypeOK, NEW p \in Process, proc' = proc
    PROVE  KeepsEpoch(p)
  BY DEF TypeOK, KeepsEpoch

LEMMA RefusedKeepsEpoch ==
    ASSUME TypeOK, NEW p \in Process, proc[p] \in Running, Refused(p)
    PROVE  KeepsEpoch(p)
  BY ToKeepsEpoch, ExitKeepsEpoch DEF Refused

\* Every step but AnchorEpoch, which reads the epoch, keeps it.
LEMMA JournalStepsKeepEpoch ==
    ASSUME TypeOK, NEW p \in Process, proc[p] \in Running,
           \/ Begin(p) \/ Retry(p) \/ Replay(p) \/ Succeed(p) \/ RecordFailure(p) \/ Fail(p)
           \/ AuditCheck(p) \/ AuditAppend(p) \/ EvidenceBegin(p) \/ EvidenceSucceed(p)
    PROVE  KeepsEpoch(p)
<1>1. CASE Begin(p) \/ Retry(p) \/ Replay(p) \/ Fail(p) \/ EvidenceSucceed(p)
    BY <1>1, ToKeepsEpoch, ExitKeepsEpoch DEF Begin, Retry, Replay, Fail, EvidenceSucceed
<1>2. CASE Succeed(p)
    BY <1>2, ToKeepsEpoch, StageKeepsEpoch DEF Succeed
<1>3. CASE RecordFailure(p)
    <2> DEFINE state == OperationState(data.operations, Op(p))
               me == [proc[p] EXCEPT !.stage = "failure",
                          !.pc = IF state # None /\ state.status = "started"
                                 THEN "fail" ELSE "audit"]
    <2>1. me.epoch = proc[p].epoch
        BY DEF Running
    <2>2. Exit(p) \/ proc' = [proc EXCEPT ![p] = me]
        BY <1>3 DEF RecordFailure
    <2> HIDE DEF me
    <2>3. CASE proc' = [proc EXCEPT ![p] = me]
        BY <2>1, <2>3 DEF TypeOK, KeepsEpoch
    <2> QED
        BY <2>2, <2>3, ExitKeepsEpoch
<1>4. CASE AuditCheck(p) \/ AuditAppend(p)
    BY <1>4, ToKeepsEpoch, RefusedKeepsEpoch DEF AuditCheck, AuditAppend
<1>5. CASE EvidenceBegin(p)
    BY <1>5, ToKeepsEpoch, ExitKeepsEpoch, StageKeepsEpoch DEF EvidenceBegin
<1> QED
    BY <1>1, <1>2, <1>3, <1>4, <1>5

LEMMA AnchorStepsKeepEpoch ==
    ASSUME TypeOK, NEW p \in Process, proc[p] \in Running,
           AnchorVerify(p) \/ AnchorCheckpoint(p) \/ AnchorLost(p)
    PROVE  KeepsEpoch(p)
<1>1. ASSUME NEW me, me.epoch = proc[p].epoch, proc' = [proc EXCEPT ![p] = me]
      PROVE  KeepsEpoch(p)
    BY <1>1 DEF TypeOK, KeepsEpoch
<1>2. CASE AnchorVerify(p)
    <2> DEFINE me == [proc[p] EXCEPT !.pc = "checkpoint", !.head = data[proc[p].journal]]
    <2>1. me.epoch = proc[p].epoch
        BY DEF Running
    <2>2. Refused(p) \/ proc' = [proc EXCEPT ![p] = me]
        BY <1>2 DEF AnchorVerify
    <2> HIDE DEF me
    <2> QED
        BY <1>1, <2>1, <2>2, RefusedKeepsEpoch
<1>3. CASE AnchorLost(p)
    <2> DEFINE me == [proc[p] EXCEPT !.pc = "verify", !.tries = @ + 1]
    <2>1. me.epoch = proc[p].epoch
        BY DEF Running
    <2>2. Refused(p) \/ proc' = [proc EXCEPT ![p] = me]
        BY <1>3 DEF AnchorLost
    <2> HIDE DEF me
    <2> QED
        BY <1>1, <2>1, <2>2, RefusedKeepsEpoch
<1>4. ASSUME AfterAnchor(p)
      PROVE  KeepsEpoch(p)
    <2> DEFINE next == [proc[p] EXCEPT !.pc = "verify", !.journal = "operations",
                                       !.head = <<>>, !.tries = 1]
               done == [proc[p] EXCEPT !.pc = "act", !.head = <<>>]
    <2>1. next.epoch = proc[p].epoch /\ done.epoch = proc[p].epoch
        BY DEF Running
    <2>2. Exit(p) \/ proc' = [proc EXCEPT ![p] = next] \/ proc' = [proc EXCEPT ![p] = done]
        BY <1>4 DEF AfterAnchor
    <2> HIDE DEF next, done
    <2> QED
        BY <1>1, <2>1, <2>2, ExitKeepsEpoch
<1>5. CASE AnchorCheckpoint(p)
    <2>1. Refused(p) \/ AfterAnchor(p) \/ To(p, "lost")
        BY <1>5 DEF AnchorCheckpoint
    <2> QED
        BY <1>4, <2>1, RefusedKeepsEpoch, ToKeepsEpoch
<1> QED
    BY <1>2, <1>3, <1>5

LEMMA ActsKeepEpoch ==
    ASSUME TypeOK, NEW p \in Process, proc[p] \in Running,
           \/ ReleaseAct(p) \/ BackupAct(p) \/ RestoreAct(p)
           \/ Reconcile(p) \/ RestoreAbort(p) \/ RestoreStage(p) \/ RestorePrepare(p)
           \/ RestoreMove(p) \/ RestoreMoved(p) \/ RestoreSwitch(p) \/ RestoreCommit(p)
           \/ RestoreRollback(p)
           \/ EvidenceRecover(p) \/ Finalize(p) \/ Cleanup(p) \/ Crash(p) \/ Raise(p)
    PROVE  KeepsEpoch(p)
<1>1. CASE ReleaseAct(p) \/ BackupAct(p) \/ RestoreAct(p)
    BY <1>1, ToKeepsEpoch, ExitKeepsEpoch DEF ReleaseAct, BackupAct, RestoreAct
<1>2. CASE Reconcile(p)
    <2>1. \/ To(p, "stage") \/ To(p, "evidence") \/ Exit(p) \/ proc' = proc
          \/ To(p, "abort")
        BY <1>2 DEF Reconcile, To
    <2> QED
        BY <2>1, ToKeepsEpoch, ExitKeepsEpoch, SameKeepsEpoch
<1>3. CASE \/ RestoreAbort(p) \/ RestoreStage(p) \/ RestorePrepare(p) \/ RestoreMove(p)
           \/ RestoreMoved(p) \/ RestoreSwitch(p) \/ RestoreCommit(p) \/ RestoreRollback(p)
    BY <1>3, ToKeepsEpoch DEF RestoreAbort, RestoreStage, RestorePrepare, RestoreMove,
                              RestoreMoved, RestoreSwitch, RestoreCommit, RestoreRollback
<1>4. CASE EvidenceRecover(p) \/ Finalize(p) \/ Cleanup(p) \/ Crash(p) \/ Raise(p)
    BY <1>4, ToKeepsEpoch, ExitKeepsEpoch
       DEF EvidenceRecover, Finalize, Cleanup, Crash, Raise
<1> QED
    BY <1>1, <1>2, <1>3, <1>4

\* Only create writes an archive, with the epoch its command has read.
LEMMA ArchivesUnchanged ==
    ASSUME NEW p \in Process, Step(p) \/ Crash(p) \/ Raise(p), ~BackupAct(p)
    PROVE  archives' = archives
<1>1. CASE Begin(p) \/ Retry(p) \/ Replay(p) \/ Succeed(p) \/ RecordFailure(p) \/ Fail(p)
    BY <1>1 DEF Begin, Retry, Replay, Succeed, RecordFailure, Fail
<1>2. CASE AuditCheck(p) \/ AuditAppend(p) \/ AnchorEpoch(p) \/ AnchorVerify(p) \/ AnchorLost(p)
    BY <1>2 DEF AuditCheck, AuditAppend, AnchorEpoch, AnchorVerify, AnchorLost
<1>3. CASE AnchorCheckpoint(p) \/ ReleaseAct(p) \/ RestoreAct(p) \/ Reconcile(p)
    BY <1>3 DEF AnchorCheckpoint, ReleaseAct, RestoreAct, Reconcile
<1>4. CASE \/ RestoreAbort(p) \/ RestoreStage(p) \/ RestorePrepare(p) \/ RestoreMove(p)
           \/ RestoreMoved(p) \/ RestoreSwitch(p) \/ RestoreCommit(p) \/ RestoreRollback(p)
    BY <1>4 DEF RestoreAbort, RestoreStage, RestorePrepare, RestoreMove, RestoreMoved,
                RestoreSwitch, RestoreCommit, RestoreRollback
<1>5. CASE EvidenceBegin(p) \/ EvidenceSucceed(p) \/ EvidenceRecover(p)
    BY <1>5 DEF EvidenceBegin, EvidenceSucceed, EvidenceRecover
<1>6. CASE Finalize(p) \/ Cleanup(p) \/ Crash(p) \/ Raise(p)
    BY <1>6 DEF Finalize, Cleanup, Crash, Raise
<1> QED
    BY <1>1, <1>2, <1>3, <1>4, <1>5, <1>6 DEF Step

\* A step of a command moves no epoch past the store's.
LEMMA CommandEpochs ==
    ASSUME Inv, StoreVerifies, NoLaterEpoch, NEW p \in Process,
           Step(p) \/ Crash(p) \/ Raise(p), Epoch(trusted) <= Epoch(trusted'),
           Epoch(trusted) \in Nat, Epoch(trusted') \in Nat
    PROVE  NoLaterEpoch'
<1>1. TypeOK /\ TypeOK'
    <2>1. Step(p) \/ Crash(p) \/ Raise(p) => Next
        BY DEF Next
    <2> QED
        BY <2>1, NextInv DEF Inv
<1>2. ~At(p, "idle")
    BY DEF Step, Begin, Retry, Replay, Succeed, RecordFailure, Fail, AuditCheck, AuditAppend,
           AnchorEpoch, AnchorVerify, AnchorCheckpoint, AnchorLost, ReleaseAct, BackupAct,
           RestoreAct, Reconcile, RestoreAbort, RestoreStage, RestorePrepare, RestoreMove,
           RestoreMoved, RestoreSwitch, RestoreCommit, RestoreRollback, EvidenceBegin,
           EvidenceSucceed, EvidenceRecover, Finalize, Cleanup, Crash, Raise, At
<1>3. /\ proc[p] \in Running /\ proc[p].epoch \in Nat
      /\ proc[p].epoch <= Epoch(trusted)
    BY <1>1, <1>2, AtIsRunning, RunningFacts DEF NoLaterEpoch
<1>4. /\ proc' = [proc EXCEPT ![p] = proc'[p]]
      /\ proc'[p] = Idle \/ proc'[p].epoch <= Epoch(trusted')
    <2>1. CASE AnchorEpoch(p)
        <3> DEFINE me == [proc[p] EXCEPT !.pc = "verify", !.epoch = Epoch(trusted),
                                         !.journal = "audit", !.tries = 1]
        <3>1. me.epoch = Epoch(trusted)
            BY <1>3 DEF Running
        <3>2. Refused(p) \/ proc' = [proc EXCEPT ![p] = me]
            BY <2>1 DEF AnchorEpoch
        <3> HIDE DEF me
        <3>3. CASE Refused(p)
            BY <1>1, <1>3, <3>3, RefusedKeepsEpoch DEF KeepsEpoch
        <3>4. CASE proc' = [proc EXCEPT ![p] = me]
            BY <1>1, <3>1, <3>4 DEF TypeOK
        <3> QED
            BY <3>2, <3>3, <3>4
    <2>2. CASE ~AnchorEpoch(p)
        <3>1. KeepsEpoch(p)
            BY <1>1, <1>3, <2>2, JournalStepsKeepEpoch, AnchorStepsKeepEpoch, ActsKeepEpoch
               DEF Step
        <3> QED
            BY <1>3, <3>1 DEF KeepsEpoch
    <2> QED
        BY <2>1, <2>2
<1>5. ASSUME NEW q \in Process, ~At(q, "idle")'
      PROVE  proc'[q].epoch <= Epoch(trusted')
    <2>1. CASE q = p
        BY <1>4, <1>5, <2>1 DEF At, Idle
    <2>2. CASE q # p
        <3>1. proc'[q] = proc[q]
            BY <1>1, <1>4, <2>2, OthersStay
        <3>2. proc[q].epoch \in Nat /\ proc[q].epoch <= Epoch(trusted)
            BY <1>1, <1>5, <3>1, AtIsRunning, RunningFacts DEF At, NoLaterEpoch
        <3> QED
            BY <3>1, <3>2
    <2> QED
        BY <2>1, <2>2
<1>6. ASSUME NEW a \in Archive, Verified(a)'
      PROVE  archives'[a].epoch <= Epoch(trusted')
    <2>1. CASE archives'[a] = archives[a]
        <3>1. archives[a].epoch \in Nat /\ archives[a].epoch <= Epoch(trusted)
            BY <1>1, <1>6, <2>1 DEF Verified, NoLaterEpoch, TypeOK, BackupManifest
        <3> QED
            BY <2>1, <3>1
    <2>2. CASE BackupAct(p)
        <3> DEFINE new == [tree |-> [data EXCEPT !.marker = None], by |-> Op(p),
                           epoch |-> proc[p].epoch]
        <3>1. archives' = [archives EXCEPT ![Command[Op(p)].archive] = new]
            BY <2>2 DEF BackupAct
        <3>2. new.epoch = proc[p].epoch
            OBVIOUS
        <3> HIDE DEF new
        <3>3. archives'[a] = archives[a] \/ archives'[a] = new
            BY <1>1, <3>1 DEF TypeOK
        <3> QED
            BY <1>3, <2>1, <3>2, <3>3
    <2> QED
        BY <2>1, <2>2, ArchivesUnchanged
<1> QED
    BY <1>5, <1>6 DEF NoLaterEpoch

LEMMA NoLaterEpochStep ==
    ASSUME Inv, StoreVerifies, NoLaterEpoch, [Next]_vars
    PROVE  NoLaterEpoch'
<1>1. /\ Epoch(trusted) <= Epoch(trusted') /\ Epoch(trusted) \in Nat
      /\ Epoch(trusted') \in Nat /\ TypeOK
    BY StoreStep DEF StoreVerifies, Inv
<1>2. ASSUME NEW p \in Process, NEW op \in Operation, Start(p, op)
      PROVE  NoLaterEpoch'
    <2> DEFINE me == [pc |-> "begin", op |-> op, target |-> Target(op),
                      stage |-> "request", epoch |-> 0, journal |-> "audit",
                      head |-> <<>>, tries |-> 0]
    <2>1. proc' = [proc EXCEPT ![p] = me] /\ trusted' = trusted /\ archives' = archives
        BY <1>2 DEF Start, evidence
    <2>2. me.epoch = 0
        OBVIOUS
    <2> HIDE DEF me
    <2>3. \A q \in Process : proc'[q] = IF q = p THEN me ELSE proc[q]
        BY <1>1, <2>1 DEF TypeOK
    <2> QED
        BY <1>1, <2>1, <2>2, <2>3 DEF NoLaterEpoch, At, Verified
<1>3. CASE UNCHANGED vars
    BY <1>3 DEF vars, evidence, NoLaterEpoch, At, Verified
<1> QED
    BY <1>1, <1>2, <1>3, CommandEpochs DEF Next

\* An installation never holds an archive of a later epoch than its checkpoint store,
\* and no command anchors or archives under one: the refusal of such an archive by
\* restore only ever meets archives of another installation or a store put back.
THEOREM ArchivesAreOfKnownEpochs == Spec => []NoLaterEpoch
<1>1. Init => NoLaterEpoch
    BY DEF Init, NoLaterEpoch, At, Idle, Verified
<1>2. Inv /\ StoreVerifies /\ NoLaterEpoch /\ [Next]_vars => NoLaterEpoch'
    BY NoLaterEpochStep
<1> QED
    BY <1>1, <1>2, BackupInv, TrustedStoreVerifies, PTL DEF Spec

================================================================================
