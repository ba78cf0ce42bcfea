------------------------------ MODULE ThemesProofs ------------------------------
(***************************************************************************)
(* Proofs about Themes, for any themes, versions, manifests and bounds.    *)
(*                                                                         *)
(* A state of the coordinator is described by its intent: what its journal *)
(* entry says decides what the selection may be.  The invariant says this  *)
(* for every place of the program, so that a stop at any of them leaves an *)
(* intent recovery can finish.                                             *)
(***************************************************************************)
EXTENDS Themes, TLAPS

Themes == Theme \cup {"default"}

\* Where an intent of an earlier operation may be found.
Outside == {"idle", "down", "recover"}
Recovering == {"recover", "recover succeed", "recover fail", "recover unlink"}
\* Where the operation has its entry in the journal.
Running == {"validate", "intent", "apply", "audit", "succeed", "unlink", "undo",
            "compensate", "undo fail", "undo unlink"}
Places == Outside \cup Recovering \cup {"begin"} \cup Running

DiskOK ==
    /\ disk = [selection |-> disk.selection, intent |-> disk.intent,
               journal |-> disk.journal, audit |-> disk.audit]
    /\ disk.selection \in Selection
    /\ disk.intent \in Intent \cup {None}
    /\ DOMAIN disk.journal \subseteq Operation
    /\ disk.journal = [o \in DOMAIN disk.journal |-> disk.journal[o]]
    /\ \A o \in DOMAIN disk.journal: disk.journal[o] \in Outcome
    /\ disk.audit \subseteq [op: Operation, outcome: {"success", "compensated"}]

Job == [action: {"activate", "rollback", "recover"}, target: Themes \cup {None},
        before: Selection, op: Operation \cup {None}, audited: BOOLEAN]

RevisionType == [status: {"draft", "validated", "prepared"}, theme: Theme,
                 version: Version, uses: Pages]

TypeOK ==
    /\ records \in [Theme -> Record \cup {None}]
    /\ DiskOK
    /\ pc \in Places
    /\ pc \notin {"idle", "down"} => job \in Job
    /\ asked \in Themes \cup {None}
    /\ clock \in 0..MaxChanges
    /\ faults \in 0..MaxFaults /\ crashes \in 0..MaxCrashes
    /\ revisions \in [Revision -> RevisionType \cup {None}]
    /\ index \in [published: Revision \cup {None}, previous: Revision \cup {None}]
    /\ committed \in Selection
    /\ quarantined \subseteq Theme

-----------------------------------------------------------------------------
(* What an intent says, by the outcome of its operation.                   *)

Describes(i) ==
    /\ i.op \in DOMAIN disk.journal
    /\ i.target = i.op.target /\ i.before = i.op.before

\* The old selection, the new one, or what a stale rollback made of it.
Undecided(i) ==
    /\ disk.journal[i.op] = "started" /\ committed = i.before
    /\ \/ disk.selection = i.before
       \/ disk.selection.active = i.target
       \/ StaleRollback(i.op)

Kept(i) ==
    disk.journal[i.op] = "started" /\ committed = i.before /\ disk.selection = i.before

Changed(i) ==
    /\ disk.journal[i.op] = "started" /\ committed = i.before
    /\ disk.selection.active = i.target

GaveUp(i) ==
    disk.journal[i.op] = "failed" /\ committed = i.before /\ disk.selection = i.before

Done(i) ==
    /\ disk.journal[i.op] = "succeeded" /\ committed = disk.selection
    /\ disk.selection.active = i.target

NothingOpen == disk.intent = None /\ disk.selection = committed

Found ==
    \/ NothingOpen
    \/ /\ disk.intent \in Intent /\ Describes(disk.intent)
       /\ Undecided(disk.intent) \/ GaveUp(disk.intent) \/ Done(disk.intent)

Mine == [op |-> job.op, target |-> job.target, before |-> job.before]

Own(i) == disk.intent = i /\ Describes(i)

\* The operation that runs is the one its job describes.
JobMatches ==
    /\ job.op = [action |-> job.action, target |-> job.target, before |-> job.before]
    /\ job.op \in Operation /\ job.op \in DOMAIN disk.journal

ByPlace ==
    /\ pc \in Outside => Found
    /\ pc = "recover succeed" =>
        disk.intent \in Intent /\ Describes(disk.intent) /\ Changed(disk.intent)
    /\ pc = "recover fail" =>
        disk.intent \in Intent /\ Describes(disk.intent) /\ Kept(disk.intent)
    /\ pc = "recover unlink" =>
        /\ disk.intent \in Intent /\ Describes(disk.intent)
        /\ GaveUp(disk.intent) \/ Done(disk.intent)
    /\ pc = "begin" => NothingOpen
    /\ pc \in {"validate", "intent"} => NothingOpen /\ Kept(Mine)
    /\ pc = "apply" => Own(Mine) /\ Kept(Mine)
    /\ pc \in {"audit", "succeed"} => Own(Mine) /\ Changed(Mine)
    /\ pc = "unlink" => Own(Mine) /\ Done(Mine)
    /\ pc = "undo" => \/ Own(Mine) /\ Undecided(Mine)
                      \/ disk.intent \in {None, Mine} /\ Describes(Mine) /\ Done(Mine)
    /\ pc \in {"compensate", "undo fail"} => Own(Mine) /\ Kept(Mine)
    /\ pc = "undo unlink" => Own(Mine) /\ GaveUp(Mine)

JobInv ==
    /\ pc \in Recovering \cup {"begin"} =>
        job.action = "recover" \/ job.target \in Themes
    /\ pc = "begin" => job.action # "recover"
    /\ pc \in Running => JobMatches
    /\ pc \in (Recovering \cup {"begin", "validate", "intent", "apply"}) /\ job.action # "recover"
        => clock < MaxChanges

Usable == Enabled \cup quarantined
Excused == \E o \in DOMAIN disk.journal: StaleRollback(o)

ActiveInv ==
    /\ ActiveIsEnabled
    /\ pc \in Running => job.before.active \in Usable \/ Excused

\* The pages of a prepared revision compose by the manifest it was checked by.
RevisionInv ==
    /\ \A r \in Revision:
        LET v == revisions[r]
            m == Manifest(v.theme, v.version)
        IN  /\ v # None /\ v.status = "prepared" /\ m.parent = None
                => v.uses \subseteq DOMAIN m.blocks
    /\ \A r \in {index.published, index.previous} \ {None}:
        revisions[r] # None /\ revisions[r].status = "prepared"

CoordinatorInv == TypeOK /\ ByPlace /\ JobInv
Inv == CoordinatorInv /\ ActiveInv /\ RevisionInv

-----------------------------------------------------------------------------
(* What each kind of write does to the store.                              *)

USE DEF Outside, Recovering, Running, Places, Themes

\* The bounds are numbers.
LEMMA BoundsAreNumbers ==
    MaxChanges \in Nat /\ MaxFaults \in Nat /\ MaxCrashes \in Nat
BY ThemesAssumption

\* A write that did not reach the disk changes nothing.
LEMMA NoEffect ==
    ASSUME Durable(disk)
    PROVE  disk' = disk /\ committed' = committed
BY DEF Durable

\* ActiveThemeStore.restore, and the writes of a selection in general.
LEMMA SelectionEffect ==
    ASSUME DiskOK, NEW s \in Selection, Durable(Restored(s))
    PROVE  /\ DiskOK'
           /\ disk'.selection = s /\ disk'.intent = disk.intent
           /\ disk'.journal = disk.journal /\ committed' = committed
<1>1. disk' = [disk EXCEPT !.selection = s]
    BY DEF Durable, Restored
<1>2. disk' = [selection |-> s, intent |-> disk.intent, journal |-> disk.journal,
               audit |-> disk.audit]
    BY <1>1 DEF DiskOK
<1>3. Succeeded(Restored(s)) = Succeeded(disk)
    BY <1>1, <1>2 DEF Succeeded, Durable
<1> QED BY <1>2, <1>3 DEF DiskOK, Durable

\* The intent is written or removed.
LEMMA IntentEffect ==
    ASSUME DiskOK, NEW i \in Intent \cup {None}, Durable([disk EXCEPT !.intent = i])
    PROVE  /\ DiskOK'
           /\ disk'.selection = disk.selection /\ disk'.intent = i
           /\ disk'.journal = disk.journal /\ committed' = committed
<1>1. disk' = [disk EXCEPT !.intent = i]
    BY DEF Durable
<1>2. disk' = [selection |-> disk.selection, intent |-> i, journal |-> disk.journal,
               audit |-> disk.audit]
    BY <1>1 DEF DiskOK
<1>3. Succeeded([disk EXCEPT !.intent = i]) = Succeeded(disk)
    BY <1>1, <1>2 DEF Succeeded
<1> QED BY <1>2, <1>3 DEF DiskOK, Durable

\* The audit log decides nothing.
LEMMA AuditEffect ==
    ASSUME DiskOK, NEW op \in Operation, NEW outcome \in {"success", "compensated"},
           Durable([disk EXCEPT !.audit = @ \cup {[op |-> op, outcome |-> outcome]}])
    PROVE  /\ DiskOK'
           /\ disk'.selection = disk.selection /\ disk'.intent = disk.intent
           /\ disk'.journal = disk.journal /\ committed' = committed
<1> DEFINE more == disk.audit \cup {[op |-> op, outcome |-> outcome]}
<1>1. disk' = [disk EXCEPT !.audit = more]
    BY DEF Durable
<1>2. disk' = [selection |-> disk.selection, intent |-> disk.intent,
               journal |-> disk.journal, audit |-> more]
    BY <1>1 DEF DiskOK
<1>3. Succeeded([disk EXCEPT !.audit = @ \cup {[op |-> op, outcome |-> outcome]}])
        = Succeeded(disk)
    BY <1>1, <1>2 DEF Succeeded
<1>4. more \subseteq [op: Operation, outcome: {"success", "compensated"}]
    BY DEF DiskOK
<1> HIDE DEF more
<1>5. DiskOK'
    BY <1>2, <1>4 DEF DiskOK
<1>6. committed' = committed
    BY <1>3 DEF Durable
<1> QED BY <1>2, <1>5, <1>6

\* An entry of the operation journal; success is what commits a selection.
LEMMA JournalEffect ==
    ASSUME DiskOK, NEW op \in Operation, NEW outcome \in Outcome,
           Durable(Journaled(op, outcome))
    PROVE  /\ DiskOK'
           /\ disk'.selection = disk.selection /\ disk'.intent = disk.intent
           /\ DOMAIN disk'.journal = DOMAIN disk.journal \cup {op}
           /\ disk'.journal[op] = outcome
           /\ outcome # "succeeded" => committed' = committed
           /\ outcome = "succeeded" /\ Status(op) # "succeeded"
                => committed' = disk.selection
<1> DEFINE more == [o \in DOMAIN disk.journal \cup {op} |->
                        IF o = op THEN outcome ELSE disk.journal[o]]
<1>1. disk' = [disk EXCEPT !.journal = more] /\ Journaled(op, outcome) = disk'
    BY DEF Durable, Journaled
<1>2. disk' = [selection |-> disk.selection, intent |-> disk.intent,
               journal |-> more, audit |-> disk.audit]
    BY <1>1 DEF DiskOK
<1>3. /\ DOMAIN more = DOMAIN disk.journal \cup {op} /\ more[op] = outcome
      /\ \A o \in DOMAIN disk.journal: o # op => more[o] = disk.journal[o]
      /\ more = [o \in DOMAIN more |-> more[o]]
    OBVIOUS
<1>4. \A o \in DOMAIN more: more[o] \in Outcome
    BY DEF DiskOK
<1>5. DOMAIN more \subseteq Operation
    BY <1>3 DEF DiskOK
<1> HIDE DEF more
<1>6. DiskOK'
    BY <1>2, <1>3, <1>4, <1>5 DEF DiskOK
<1>7. outcome # "succeeded" => Succeeded(disk') \subseteq Succeeded(disk)
    BY <1>2, <1>3 DEF Succeeded
<1>8. outcome = "succeeded" /\ Status(op) # "succeeded"
        => ~ (Succeeded(disk') \subseteq Succeeded(disk))
    BY <1>2, <1>3 DEF Succeeded, Status
<1> QED BY <1>1, <1>2, <1>3, <1>6, <1>7, <1>8 DEF Durable

-----------------------------------------------------------------------------
(* The coordinator.                                                        *)

\* What an operation writes as its intent.
LEMMA MineIsIntent ==
    ASSUME JobMatches
    PROVE  /\ Mine \in Intent /\ Mine.op = job.op /\ Mine.op \in Operation
           /\ Mine.target = job.target /\ Mine.before = job.before
           /\ Mine.op.target = job.target /\ Mine.op.before = job.before
           /\ Mine.op.action = job.action /\ Mine.op \in DOMAIN disk.journal
<1>1. job.op.target = job.target /\ job.op.before = job.before /\ job.op.action = job.action
    BY DEF JobMatches
<1>2. job.target \in Themes /\ job.before \in Selection
    <2>1. job.op \in Operation
        BY DEF JobMatches
    <2> QED BY <1>1, <2>1 DEF Operation
<1>3. job.op \in Operation /\ job.op \in DOMAIN disk.journal
    BY DEF JobMatches
<1> QED BY <1>1, <1>2, <1>3 DEF Mine, Intent

\* What holds of the store holds as long as it is not written.
LEMMA SameDisk ==
    ASSUME DiskOK, disk' = disk
    PROVE  DiskOK'
BY DEF DiskOK

\* So does what is found.
LEMMA SameFound ==
    ASSUME Found, disk' = disk, committed' = committed
    PROVE  Found'
BY DEF Found, NothingOpen, Describes, Undecided, GaveUp, Done

\* Wherever the process stops, recovery finds what it can finish.
LEMMA FoundAnywhere ==
    ASSUME CoordinatorInv
    PROVE  Found
<1>1. CASE pc \in Outside
    BY <1>1 DEF CoordinatorInv, ByPlace
<1>2. CASE pc \in {"recover succeed", "recover fail", "recover unlink"}
    BY <1>2 DEF CoordinatorInv, ByPlace, Found, Undecided, Changed, Kept
<1>3. CASE pc \in {"begin", "validate", "intent"}
    BY <1>3 DEF CoordinatorInv, ByPlace, Found
<1>4. CASE pc \in {"apply", "audit", "succeed", "unlink", "undo", "compensate",
                   "undo fail", "undo unlink"}
    <2>1. Mine \in Intent
        BY <1>4, MineIsIntent DEF CoordinatorInv, JobInv
    <2>2. PICK i \in Intent: i = Mine
        BY <2>1
    <2>3. \/ Own(i) /\ (Undecided(i) \/ GaveUp(i) \/ Done(i))
          \/ disk.intent = None /\ Done(i)
        BY <1>4, <2>2 DEF CoordinatorInv, ByPlace, Undecided, Kept, Changed, Own
    <2> QED BY <2>3 DEF Found, Own, NothingOpen, Done
<1> QED BY <1>1, <1>2, <1>3, <1>4 DEF CoordinatorInv, TypeOK

\* The parts of TypeOK that a step of the coordinator leaves alone.
Others ==
    /\ records \in [Theme -> Record \cup {None}]
    /\ revisions \in [Revision -> RevisionType \cup {None}]
    /\ index \in [published: Revision \cup {None}, previous: Revision \cup {None}]
    /\ quarantined \subseteq Theme

\* A raised fault is counted within its bound.
LEMMA FaultCounted ==
    ASSUME faults \in 0..MaxFaults, Fault
    PROVE  faults' \in 0..MaxFaults
BY BoundsAreNumbers DEF Fault

\* The end of an operation, a process that stops: only what is found matters.
LEMMA Ends ==
    ASSUME pc' \in {"idle", "down"}, Found', DiskOK', Others', asked' \in Themes \cup {None},
           clock' \in 0..MaxChanges, faults' \in 0..MaxFaults, crashes' \in 0..MaxCrashes,
           committed' \in Selection
    PROVE  CoordinatorInv'
BY DEF CoordinatorInv, TypeOK, Others, ByPlace, JobInv

\* An operation begins, and waits no more for what it has to recover.
LEMMA CoordinatorCalls ==
    ASSUME CoordinatorInv,
           \/ AskRollback \/ Rollback \/ Restart \/ Crash \/ \E t \in Themes: Activate(t)
    PROVE  CoordinatorInv'
<1> USE DEF CoordinatorInv
<1>0. Bundled \in Selection
    BY BoundsAreNumbers DEF Bundled, Selection
<1>1. CASE AskRollback
    <2>1. asked' \in Themes \cup {None}
        BY <1>1 DEF AskRollback, TypeOK, DiskOK, Selection
    <2>2. UNCHANGED <<records, disk, pc, job, clock, faults, crashes, revisions, index, committed, quarantined>>
        BY <1>1 DEF AskRollback, Rest, packages, configuration
    <2>3. DiskOK'
        BY <2>2, SameDisk DEF TypeOK
    <2>4. JobInv'
        BY <2>2 DEF JobInv, JobMatches
    <2>5. ByPlace'
        BY <2>2 DEF ByPlace, Found, NothingOpen, Describes, Undecided, Kept, Changed, GaveUp, Done,
                    Mine, Own
    <2> QED BY <2>1, <2>2, <2>3, <2>4, <2>5 DEF TypeOK
<1>2. CASE Crash
    <2>1. Found
        BY FoundAnywhere
    <2>2. /\ disk' = disk /\ committed' = committed /\ pc' = "down" /\ asked' = None
          /\ UNCHANGED <<clock, faults, records, quarantined, revisions, index>>
          /\ crashes' = crashes + 1 /\ crashes < MaxCrashes
        BY <1>2 DEF Crash, Goto, packages, configuration
    <2>3. Found' /\ DiskOK' /\ Others'
        BY <2>1, <2>2, SameFound, SameDisk DEF Others, TypeOK
    <2>4. crashes' \in 0..MaxCrashes
        <3>1. crashes \in 0..MaxCrashes
            BY DEF TypeOK
        <3> QED BY <2>2, <3>1, BoundsAreNumbers
    <2> QED BY <2>2, <2>3, <2>4, Ends DEF TypeOK
<1>3. CASE Rollback \/ Restart \/ \E t \in Themes: Activate(t)
    <2>1. /\ UNCHANGED <<disk, clock, faults, committed, records, quarantined, crashes, revisions, index>>
          /\ pc \in {"idle", "down"} /\ pc' = "recover"
          /\ asked' \in Themes \cup {None}
        BY <1>3 DEF Rollback, Restart, Activate, Acquire, Rest, packages, configuration, TypeOK
    <2>6. job' \in Job /\ (job'.action = "recover" \/ (job'.target \in Themes /\ clock < MaxChanges))
        <3>1. CASE Rollback
            BY <1>0, <3>1 DEF Rollback, Acquire, TypeOK, Job
        <3>2. CASE Restart
            <4>1. job' = [action |-> "recover", target |-> None, before |-> Bundled, op |-> None,
                          audited |-> FALSE]
                BY <3>2 DEF Restart
            <4> QED BY <1>0, <4>1 DEF Job
        <3>3. CASE \E t \in Themes: Activate(t)
            BY <1>0, <3>3 DEF Activate, Acquire, Job
        <3> QED BY <1>3, <3>1, <3>2, <3>3
    <2>2. Found' /\ DiskOK' /\ Others'
        BY <2>1, SameFound, SameDisk DEF ByPlace, Others, TypeOK
    <2>3. TypeOK'
        BY <2>1, <2>2, <2>6 DEF TypeOK, Others
    <2>4. ByPlace'
        BY <2>1, <2>2 DEF ByPlace
    <2>5. JobInv'
        BY <2>1, <2>6 DEF JobInv, TypeOK
    <2> QED BY <2>3, <2>4, <2>5
<1> QED BY <1>1, <1>2, <1>3

\* What a step of the coordinator never touches.
Frame ==
    /\ faults' = faults \/ Fault
    /\ UNCHANGED <<asked, crashes, records, quarantined, revisions, index>>

\* An operation may end at any place with a write after which it is found.
LEMMA EndInv ==
    ASSUME CoordinatorInv, Frame, clock' \in 0..MaxChanges, Found', DiskOK',
           committed' \in Selection, pc' \in {"idle", "down"}
    PROVE  CoordinatorInv'
<1>2. faults' \in 0..MaxFaults
    BY FaultCounted DEF CoordinatorInv, TypeOK, Frame
<1>3. Others' /\ asked' \in Themes \cup {None} /\ crashes' \in 0..MaxCrashes
    BY DEF CoordinatorInv, TypeOK, Frame, Others
<1> QED BY <1>2, <1>3, Ends

\* An operation goes on with a write after which its next place is described.
LEMMA GoesOn ==
    ASSUME CoordinatorInv, Frame, clock' \in 0..MaxChanges, DiskOK',
           committed' \in Selection, pc' \in Places, job' \in Job, ByPlace', JobInv'
    PROVE  CoordinatorInv'
<1>2. faults' \in 0..MaxFaults
    BY FaultCounted DEF CoordinatorInv, TypeOK, Frame
<1>3. Others' /\ asked' \in Themes \cup {None} /\ crashes' \in 0..MaxCrashes
    BY DEF CoordinatorInv, TypeOK, Frame, Others
<1> QED BY <1>2, <1>3 DEF CoordinatorInv, TypeOK, Others

\* An operation may end at any place without another write.
LEMMA QuitInv ==
    ASSUME CoordinatorInv, Frame, disk' = disk, committed' = committed,
           clock' \in 0..MaxChanges, pc' \in {"idle", "down"}
    PROVE  CoordinatorInv'
<1>1. Found' /\ DiskOK' /\ committed' \in Selection
    BY FoundAnywhere, SameFound, SameDisk DEF CoordinatorInv, TypeOK
<1> QED BY <1>1, EndInv

-----------------------------------------------------------------------------
(* Recovery.                                                               *)

\* Recovery is over: the process is up, or the operation begins.
LEMMA RecoveredInv ==
    ASSUME CoordinatorInv, pc \in Recovering, Frame, clock' = clock, DiskOK',
           committed' \in Selection, NothingOpen', Goto(AfterRecovery)
    PROVE  CoordinatorInv'
<1>1. clock' \in 0..MaxChanges /\ job \in Job
    BY DEF CoordinatorInv, TypeOK
<1>2. CASE job.action = "recover"
    <2>1. pc' = "idle" /\ Found'
        BY <1>2 DEF Goto, AfterRecovery, Found
    <2> QED BY <1>1, <2>1, EndInv
<1>3. CASE job.action # "recover"
    <2>1. pc' = "begin" /\ job' = job
        BY <1>3 DEF Goto, AfterRecovery
    <2>2. ByPlace'
        BY <2>1 DEF ByPlace
    <2>3. JobInv'
        BY <1>3, <2>1 DEF CoordinatorInv, JobInv
    <2> QED BY <1>1, <2>1, <2>2, <2>3, GoesOn
<1> QED BY <1>2, <1>3

\* Recovery goes on with its next write.
LEMMA RecoveringInv ==
    ASSUME CoordinatorInv, pc \in Recovering, Frame, clock' = clock, DiskOK',
           committed' \in Selection, job' = job, ByPlace',
           pc' \in {"recover succeed", "recover fail", "recover unlink"}
    PROVE  CoordinatorInv'
<1>1. clock' \in 0..MaxChanges /\ job \in Job
    BY DEF CoordinatorInv, TypeOK
<1>2. JobInv'
    BY DEF CoordinatorInv, JobInv
<1> QED BY <1>1, <1>2, GoesOn

\* A failed step of recovery leaves the process idle or down.
LEMMA RaisedEnds ==
    ASSUME Goto(Raised)
    PROVE  pc' \in {"idle", "down"}
BY DEF Goto, Raised

\* Recovery looks at the intent and its journal entry.
LEMMA RecoverBeginInv ==
    ASSUME CoordinatorInv, RecoverBegin
    PROVE  CoordinatorInv'
<1>1. /\ pc = "recover" /\ Frame /\ clock' = clock /\ clock' \in 0..MaxChanges
      /\ Found /\ DiskOK /\ committed \in Selection
    BY DEF RecoverBegin, Write, Rest, Frame, RecoverStarted, packages, configuration,
           CoordinatorInv, TypeOK, ByPlace
<1>2. CASE disk.intent = None
    <2>1. disk' = disk /\ committed' = committed /\ Goto(AfterRecovery)
        BY <1>2 DEF RecoverBegin
    <2>2. NothingOpen
        BY <1>1, <1>2, NoneAssumption DEF Found
    <2>3. NothingOpen' /\ DiskOK' /\ committed' \in Selection
        BY <1>1, <2>1, <2>2, SameDisk DEF NothingOpen
    <2> QED BY <1>1, <2>1, <2>3, RecoveredInv
<1>3. CASE disk.intent # None
    <2>1. PICK i \in Intent: i = disk.intent
        BY <1>1, <1>3 DEF Found, NothingOpen
    <2>2. /\ Describes(i) /\ (Undecided(i) \/ GaveUp(i) \/ Done(i))
          /\ Status(i.op) = disk.journal[i.op]
        BY <1>1, <1>3, <2>1 DEF Found, NothingOpen, Status, Describes
    <2>3. i.op \in Operation /\ i.before \in Selection
        BY DEF Intent
    <2>4. CASE disk' = disk /\ committed' = committed /\ Goto(Raised)
        BY <1>1, <2>4, RaisedEnds, QuitInv
    <2>5. CASE /\ Status(i.op) = "succeeded"
               /\ Durable([disk EXCEPT !.intent = None])
               /\ Goto(AfterRecovery) \/ Goto(Raised)
        <3>1. /\ DiskOK' /\ disk'.selection = disk.selection /\ disk'.intent = None
              /\ committed' = committed
            BY <1>1, <2>5, IntentEffect
        <3>2. NothingOpen' /\ Found' /\ committed' \in Selection
            BY <1>1, <2>2, <2>5, <3>1 DEF NothingOpen, Found, Undecided, GaveUp, Done
        <3> QED BY <1>1, <2>5, <3>1, <3>2, RecoveredInv, RaisedEnds, EndInv
    <2>6. CASE /\ Status(i.op) = "failed"
               /\ Durable(Restored(i.before))
               /\ Goto("recover unlink") \/ Goto(Raised)
        <3>1. /\ DiskOK' /\ disk'.selection = i.before /\ disk'.intent = i
              /\ disk'.journal = disk.journal /\ committed' = committed
            BY <1>1, <2>1, <2>3, <2>6, SelectionEffect
        <3>2. Describes(i)' /\ GaveUp(i)'
            BY <2>2, <2>6, <3>1 DEF Describes, Undecided, GaveUp, Done
        <3>3. Found' /\ committed' \in Selection
            BY <1>1, <3>1, <3>2 DEF Found
        <3>4. CASE Goto("recover unlink")
            <4>1. ByPlace' /\ pc' = "recover unlink" /\ job' = job
                BY <3>1, <3>2, <3>4 DEF ByPlace, Goto
            <4> QED BY <1>1, <3>1, <3>3, <4>1, RecoveringInv
        <3> QED BY <1>1, <2>6, <3>1, <3>3, <3>4, RaisedEnds, EndInv
    <2>7. CASE /\ Status(i.op) = "started" /\ disk.selection.active = i.target
               /\ Durable(SuccessAudited(i.op))
               /\ Goto("recover succeed") \/ Goto(Raised)
        <3>1. /\ DiskOK' /\ disk'.selection = disk.selection /\ disk'.intent = i
              /\ disk'.journal = disk.journal /\ committed' = committed
            BY <1>1, <2>1, <2>3, <2>7, AuditEffect DEF SuccessAudited
        <3>2. Describes(i)' /\ Changed(i)' /\ Undecided(i)'
            BY <2>2, <2>7, <3>1 DEF Describes, Undecided, GaveUp, Done, Changed
        <3>3. Found' /\ committed' \in Selection
            BY <1>1, <3>1, <3>2 DEF Found
        <3>4. CASE Goto("recover succeed")
            <4>1. ByPlace' /\ pc' = "recover succeed" /\ job' = job
                BY <3>1, <3>2, <3>4 DEF ByPlace, Goto
            <4> QED BY <1>1, <3>1, <3>3, <4>1, RecoveringInv
        <3> QED BY <1>1, <2>7, <3>1, <3>3, <3>4, RaisedEnds, EndInv
    <2>8. CASE /\ Status(i.op) = "started"
               /\ Durable(Restored(i.before))
               /\ Goto("recover fail") \/ Goto(Raised)
        <3>1. /\ DiskOK' /\ disk'.selection = i.before /\ disk'.intent = i
              /\ disk'.journal = disk.journal /\ committed' = committed
            BY <1>1, <2>1, <2>3, <2>8, SelectionEffect
        <3>2. Describes(i)' /\ Kept(i)' /\ Undecided(i)'
            BY <2>2, <2>8, <3>1 DEF Describes, Undecided, GaveUp, Done, Kept
        <3>3. Found' /\ committed' \in Selection
            BY <1>1, <3>1, <3>2 DEF Found
        <3>4. CASE Goto("recover fail")
            <4>1. ByPlace' /\ pc' = "recover fail" /\ job' = job
                BY <3>1, <3>2, <3>4 DEF ByPlace, Goto
            <4> QED BY <1>1, <3>1, <3>3, <4>1, RecoveringInv
        <3> QED BY <1>1, <2>8, <3>1, <3>3, <3>4, RaisedEnds, EndInv
    <2> QED BY <1>3, <2>1, <2>4, <2>5, <2>6, <2>7, <2>8, NoEffect
            DEF RecoverBegin, RecoverStarted, Write
<1> QED BY <1>2, <1>3

\* The journal is told how recovery decided.
LEMMA RecoverDecides ==
    ASSUME CoordinatorInv, RecoverSucceed \/ RecoverFail
    PROVE  CoordinatorInv'
<1>1. /\ pc \in {"recover succeed", "recover fail"} /\ Frame /\ clock' = clock
      /\ clock' \in 0..MaxChanges /\ DiskOK /\ committed \in Selection
    BY DEF RecoverSucceed, RecoverFail, Write, Rest, Frame, packages, configuration,
           CoordinatorInv, TypeOK
<1>2. PICK i \in Intent: i = disk.intent
    BY <1>1 DEF CoordinatorInv, ByPlace
<1>3. /\ Describes(i) /\ i.op \in Operation /\ i.before \in Selection
      /\ pc = "recover succeed" => Changed(i)
      /\ pc = "recover fail" => Kept(i)
    BY <1>1, <1>2 DEF CoordinatorInv, ByPlace, Intent
<1>4. CASE disk' = disk /\ committed' = committed /\ Goto(Raised)
    BY <1>1, <1>4, RaisedEnds, QuitInv
<1> DEFINE outcome == IF pc = "recover succeed" THEN "succeeded" ELSE "failed"
<1>5. CASE /\ Durable(Journaled(i.op, outcome))
           /\ Goto("recover unlink") \/ Goto(Raised)
    <2>1. PICK o \in Outcome: o = outcome
        BY DEF Outcome
    <2> HIDE DEF outcome
    <2>2. /\ DiskOK' /\ disk'.selection = disk.selection /\ disk'.intent = i
          /\ DOMAIN disk'.journal = DOMAIN disk.journal \cup {i.op}
          /\ disk'.journal[i.op] = o
          /\ o # "succeeded" => committed' = committed
          /\ o = "succeeded" /\ Status(i.op) # "succeeded" => committed' = disk.selection
        BY <1>1, <1>2, <1>3, <1>5, <2>1, JournalEffect
    <2>3. Status(i.op) # "succeeded"
        BY <1>1, <1>3 DEF Status, Describes, Changed, Kept
    <2>4. Describes(i)' /\ (GaveUp(i)' \/ Done(i)')
        <3>1. CASE pc = "recover succeed"
            BY <1>3, <2>1, <2>2, <2>3, <3>1 DEF outcome, Describes, Changed, Done
        <3>2. CASE pc = "recover fail"
            BY <1>3, <2>1, <2>2, <3>2 DEF outcome, Describes, Kept, GaveUp
        <3> QED BY <1>1, <3>1, <3>2
    <2>5. Found' /\ committed' \in Selection
        BY <1>1, <2>1, <2>2, <2>3, <2>4 DEF Found, Outcome, DiskOK
    <2>6. CASE Goto("recover unlink")
        <3>1. ByPlace' /\ pc' = "recover unlink" /\ job' = job
            BY <2>2, <2>4, <2>6 DEF ByPlace, Goto
        <3> QED BY <1>1, <2>2, <2>5, <3>1, RecoveringInv
    <2> QED BY <1>1, <1>5, <2>2, <2>5, <2>6, RaisedEnds, EndInv
<1> QED BY <1>2, <1>4, <1>5, NoEffect DEF RecoverSucceed, RecoverFail, Write

\* Recovery removes the intent.
LEMMA RecoverUnlinkInv ==
    ASSUME CoordinatorInv, RecoverUnlink
    PROVE  CoordinatorInv'
<1>1. /\ pc = "recover unlink" /\ Frame /\ clock' = clock
      /\ clock' \in 0..MaxChanges /\ DiskOK /\ committed \in Selection
    BY DEF RecoverUnlink, Write, Rest, Frame, packages, configuration, CoordinatorInv, TypeOK
<1>2. disk.selection = committed
    BY <1>1 DEF CoordinatorInv, ByPlace, GaveUp, Done
<1>3. CASE disk' = disk /\ committed' = committed /\ Goto(Raised)
    BY <1>1, <1>3, RaisedEnds, QuitInv
<1>4. CASE /\ Durable([disk EXCEPT !.intent = None])
           /\ Goto(AfterRecovery) \/ Goto(Raised)
    <2>1. /\ DiskOK' /\ disk'.selection = disk.selection /\ disk'.intent = None
          /\ committed' = committed
        BY <1>1, <1>4, IntentEffect
    <2>2. NothingOpen' /\ Found' /\ committed' \in Selection
        BY <1>1, <1>2, <2>1 DEF NothingOpen, Found
    <2> QED BY <1>1, <1>4, <2>1, <2>2, RecoveredInv, RaisedEnds, EndInv
<1> QED BY <1>3, <1>4, NoEffect DEF RecoverUnlink, Write

-----------------------------------------------------------------------------
(* The operation itself.                                                   *)

\* A running operation goes on, its arguments unchanged, its place described.
LEMMA RunningInv ==
    ASSUME CoordinatorInv, pc \in Running, pc' \in Running, Frame, job' = job,
           clock' \in 0..MaxChanges, DiskOK', committed' \in Selection,
           DOMAIN disk.journal \subseteq DOMAIN disk'.journal,
           pc' \in {"intent", "apply"} => clock' < MaxChanges, pc' # "validate", ByPlace'
    PROVE  CoordinatorInv'
<1>1. job \in Job /\ pc' \in Places
    BY DEF CoordinatorInv, TypeOK
<1>2. JobInv'
    BY DEF CoordinatorInv, JobInv, JobMatches
<1> QED BY <1>1, <1>2, GoesOn

\* The operation enters the journal.
LEMMA BeginInv ==
    ASSUME CoordinatorInv, Begin
    PROVE  CoordinatorInv'
<1>1. /\ pc = "begin" /\ Frame /\ clock' = clock /\ clock' \in 0..MaxChanges
      /\ DiskOK /\ committed \in Selection /\ NothingOpen /\ job \in Job
      /\ job.action \in {"activate", "rollback"} /\ job.target \in Themes /\ clock < MaxChanges
    BY DEF Begin, Rest, Frame, packages, configuration, CoordinatorInv, TypeOK, ByPlace, JobInv, Job
<1>2. PICK op \in Operation: op = OperationId
    BY <1>1 DEF OperationId, Operation, DiskOK
<1>3. CASE disk' = disk /\ committed' = committed /\ Goto("idle")
    BY <1>1, <1>3, QuitInv DEF Goto
<1>4. CASE Durable(Journaled(op, "started"))
    <2>1. /\ DiskOK' /\ disk'.selection = disk.selection /\ disk'.intent = disk.intent
          /\ op \in DOMAIN disk'.journal /\ disk'.journal[op] = "started"
          /\ committed' = committed
        BY <1>1, <1>4, JournalEffect DEF Outcome
    <2>2. NothingOpen' /\ Found' /\ committed' \in Selection
        BY <1>1, <2>1 DEF NothingOpen, Found
    <2>3. CASE Goto("idle")
        BY <1>1, <2>1, <2>2, <2>3, EndInv DEF Goto
    <2>4. CASE /\ pc' = "validate"
               /\ job' = [job EXCEPT !.before = disk.selection, !.op = op]
        <3>1. job' = [action |-> job.action, target |-> job.target,
                      before |-> disk.selection, op |-> op, audited |-> job.audited]
            BY <1>1, <2>4 DEF Job
        <3>2. job' \in Job
            BY <1>1, <3>1 DEF Job, DiskOK
        <3>3. JobMatches'
            BY <1>2, <2>1, <3>1 DEF JobMatches, OperationId
        <3>4. JobInv'
            BY <1>1, <2>4, <3>3 DEF JobInv
        <3>5. Kept(Mine)'
            BY <1>1, <2>1, <3>1 DEF NothingOpen, Kept, Mine
        <3>6. ByPlace'
            BY <2>2, <2>4, <3>5 DEF ByPlace
        <3> QED BY <1>1, <2>1, <2>2, <2>4, <3>2, <3>4, <3>6, GoesOn
    <2> QED BY <1>2, <1>4, <2>3, <2>4, <1>3 DEF Begin
<1>5. CASE Durable(disk) /\ Goto("idle")
    BY <1>3, <1>5, NoEffect
<1> QED BY <1>2, <1>3, <1>4, <1>5 DEF Begin

\* The intent of a running operation, with what is known of it.
LEMMA RunningJob ==
    ASSUME CoordinatorInv, pc \in Running
    PROVE  /\ JobMatches /\ DiskOK /\ job \in Job /\ clock \in 0..MaxChanges
           /\ committed \in Selection
           /\ \E i \in Intent:
                /\ i = Mine /\ i.op = job.op /\ i.op \in Operation
                /\ i.target = job.target /\ i.before = job.before
                /\ i.op.target = job.target /\ i.op.before = job.before
                /\ i.op.action = job.action /\ Describes(i)
<1>1. JobMatches /\ DiskOK /\ job \in Job /\ clock \in 0..MaxChanges /\ committed \in Selection
    BY DEF CoordinatorInv, JobInv, TypeOK
<1>2. /\ Mine \in Intent /\ Mine.op = job.op /\ Mine.op \in Operation
      /\ Mine.target = job.target /\ Mine.before = job.before
      /\ Mine.op.target = job.target /\ Mine.op.before = job.before
      /\ Mine.op.action = job.action /\ Mine.op \in DOMAIN disk.journal
    BY <1>1, MineIsIntent
<1>3. Describes(Mine)
    BY <1>2 DEF Describes
<1> HIDE DEF Mine
<1> QED BY <1>1, <1>2, <1>3

\* The target must be an enabled theme.
LEMMA ValidateInv ==
    ASSUME CoordinatorInv, Validate
    PROVE  CoordinatorInv'
<1>1. pc = "validate" /\ pc \in Running /\ Frame /\ clock' = clock
    BY DEF Validate, Write, Rest, Frame, packages, configuration
<1>2. /\ JobMatches /\ DiskOK /\ job \in Job /\ clock \in 0..MaxChanges /\ committed \in Selection
      /\ clock < MaxChanges
    BY <1>1, RunningJob DEF CoordinatorInv, JobInv, JobMatches, Operation
<1>3. PICK i \in Intent: i = Mine /\ i.op = job.op /\ i.op \in Operation
    BY <1>1, RunningJob
<1>4. NothingOpen /\ Kept(i)
    BY <1>1, <1>3 DEF CoordinatorInv, ByPlace
<1>5. CASE disk' = disk /\ committed' = committed /\ Goto("intent")
    <2>1. pc' = "intent" /\ job' = job
        BY <1>5 DEF Goto
    <2>2. NothingOpen' /\ Kept(Mine)'
        BY <1>3, <1>4, <1>5, <2>1 DEF NothingOpen, Kept, Mine
    <2>3. ByPlace' /\ DiskOK'
        BY <1>2, <1>5, <2>1, <2>2, SameDisk DEF ByPlace
    <2> QED BY <1>1, <1>2, <1>5, <2>1, <2>3, RunningInv
<1>6. CASE disk' = disk /\ committed' = committed /\ Goto("idle")
    BY <1>1, <1>2, <1>6, QuitInv DEF Goto
<1>7. CASE Durable(Journaled(job.op, "failed")) /\ Goto("idle")
    <2>1. /\ DiskOK' /\ disk'.selection = disk.selection /\ disk'.intent = disk.intent
          /\ committed' = committed
        BY <1>2, <1>3, <1>7, JournalEffect DEF Outcome
    <2>2. Found' /\ pc' = "idle" /\ committed' \in Selection
        BY <1>2, <1>4, <1>7, <2>1 DEF Found, NothingOpen, Goto
    <2> QED BY <1>1, <1>2, <2>1, <2>2, EndInv
<1> QED BY <1>5, <1>6, <1>7, NoEffect DEF Validate, Write

\* The intent is written before the selection.
LEMMA WriteIntentInv ==
    ASSUME CoordinatorInv, WriteIntent
    PROVE  CoordinatorInv'
<1>1. pc = "intent" /\ pc \in Running /\ Frame /\ clock' = clock
    BY DEF WriteIntent, Write, Rest, Frame, packages, configuration
<1>2. /\ JobMatches /\ DiskOK /\ job \in Job /\ clock \in 0..MaxChanges /\ committed \in Selection
      /\ clock < MaxChanges
    BY <1>1, RunningJob DEF CoordinatorInv, JobInv, JobMatches, Operation
<1>3. PICK i \in Intent: i = Mine /\ i.op = job.op /\ i.op \in Operation /\ Describes(i)
    BY <1>1, RunningJob
<1>4. NothingOpen /\ Kept(i)
    BY <1>1, <1>3 DEF CoordinatorInv, ByPlace
<1>5. CASE disk' = disk /\ committed' = committed /\ Goto("idle")
    BY <1>1, <1>2, <1>5, QuitInv DEF Goto
<1>6. CASE Durable([disk EXCEPT !.intent = i])
    <2>1. /\ DiskOK' /\ disk'.selection = disk.selection /\ disk'.intent = i
          /\ disk'.journal = disk.journal /\ committed' = committed
        BY <1>2, <1>6, IntentEffect
    <2>2. Describes(i)' /\ Kept(i)' /\ Undecided(i)'
        BY <1>3, <1>4, <2>1 DEF Describes, Kept, Undecided
    <2>3. Found' /\ committed' \in Selection
        BY <1>2, <2>1, <2>2 DEF Found
    <2>4. CASE Goto("idle")
        BY <1>1, <1>2, <2>1, <2>3, <2>4, EndInv DEF Goto
    <2>5. CASE Goto("apply")
        <3>1. pc' = "apply" /\ job' = job
            BY <2>5 DEF Goto
        <3>2. Own(Mine)' /\ Kept(Mine)'
            BY <1>3, <2>1, <2>2, <3>1 DEF Own, Mine, Kept, Describes
        <3>3. ByPlace'
            BY <3>1, <3>2 DEF ByPlace
        <3> QED BY <1>1, <1>2, <2>1, <2>3, <3>1, <3>3, RunningInv
    <2> QED BY <2>4, <2>5, <1>3, <1>5, <1>6, NoEffect DEF WriteIntent, Write
<1> QED BY <1>3, <1>5, <1>6, NoEffect DEF WriteIntent, Write, Mine

\* ActiveThemeStore.set and rollback.
LEMMA MovedEffect ==
    ASSUME DiskOK, clock \in 0..MaxChanges, clock < MaxChanges, NEW t \in Themes,
           Durable(Moved(t))
    PROVE  /\ DiskOK'
           /\ disk'.selection.active = t /\ disk'.intent = disk.intent
           /\ disk'.journal = disk.journal /\ committed' = committed
<1> DEFINE s == [active |-> t, previous |-> disk.selection.active, updated |-> clock + 1]
<1>1. clock + 1 \in 0..MaxChanges
    BY BoundsAreNumbers
<1>2. s \in Selection
    BY <1>1 DEF Selection, DiskOK
<1>3. Moved(t) = Restored(s)
    BY DEF Moved, Restored
<1>4. s.active = t
    OBVIOUS
<1> HIDE DEF s
<1> QED BY <1>2, <1>3, <1>4, SelectionEffect

\* A running operation stands at undo with its intent open.
LEMMA UndoPlace ==
    ASSUME CoordinatorInv, pc \in Running, NEW i \in Intent, i = Mine, Frame,
           clock' \in 0..MaxChanges, DiskOK', committed' \in Selection,
           DOMAIN disk.journal \subseteq DOMAIN disk'.journal, Goto("undo"),
           disk'.intent = i, Describes(i)', Undecided(i)'
    PROVE  CoordinatorInv'
<1>1. pc' = "undo" /\ job' = job
    BY DEF Goto
<1>2. Own(Mine)' /\ Undecided(Mine)'
    BY <1>1 DEF Own, Mine, Undecided, Describes
<1>3. ByPlace'
    BY <1>1, <1>2 DEF ByPlace
<1> QED BY <1>1, <1>3, RunningInv

\* The selection is moved, by the action of the operation.
LEMMA ApplyInv ==
    ASSUME CoordinatorInv, Apply
    PROVE  CoordinatorInv'
<1>1. pc = "apply" /\ pc \in Running /\ Frame /\ (clock' = clock \/ clock' = clock + 1)
    BY DEF Apply, Write, Rest, Frame, packages, configuration
<1>2. /\ JobMatches /\ DiskOK /\ job \in Job /\ clock \in 0..MaxChanges /\ committed \in Selection
      /\ clock < MaxChanges /\ job.target \in Themes
    BY <1>1, RunningJob, MineIsIntent DEF CoordinatorInv, JobInv, JobMatches, Operation
<1>3. clock' \in 0..MaxChanges
    BY <1>1, <1>2, BoundsAreNumbers
<1>4. PICK i \in Intent:
            /\ i = Mine /\ i.op = job.op /\ i.op \in Operation
            /\ i.target = job.target /\ i.before = job.before
            /\ i.op.target = job.target /\ i.op.before = job.before
            /\ i.op.action = job.action /\ Describes(i)
    BY <1>1, RunningJob
<1>5. disk.intent = i /\ Kept(i)
    BY <1>1, <1>4 DEF CoordinatorInv, ByPlace, Own
<1>6. CASE disk' = disk /\ committed' = committed /\ Goto("undo")
    <2>1. Describes(i)' /\ Undecided(i)' /\ DiskOK'
        BY <1>2, <1>4, <1>5, <1>6, SameDisk DEF Describes, Kept, Undecided
    <2> QED BY <1>1, <1>2, <1>3, <1>4, <1>5, <1>6, <2>1, UndoPlace
<1>7. ASSUME disk'.selection.active = i.target, disk'.intent = i, DiskOK',
             disk'.journal = disk.journal, committed' = committed, Goto("audit")
      PROVE  CoordinatorInv'
    <2>1. pc' = "audit" /\ job' = job
        BY <1>7 DEF Goto
    <2>2. Own(Mine)' /\ Changed(Mine)'
        BY <1>4, <1>5, <1>7, <2>1 DEF Own, Mine, Changed, Kept, Describes
    <2>3. ByPlace'
        BY <2>1, <2>2 DEF ByPlace
    <2> QED BY <1>1, <1>2, <1>3, <1>7, <2>1, <2>3, RunningInv
<1>8. CASE disk' = disk /\ committed' = committed /\ Goto("audit") /\ disk.selection.active = job.target
    BY <1>2, <1>4, <1>5, <1>7, <1>8, SameDisk
<1>9. ASSUME NEW t \in Themes, Durable(Moved(t)),
             t = i.target \/ StaleRollback(i.op),
             Goto("undo") \/ (Goto("audit") /\ t = i.target)
      PROVE  CoordinatorInv'
    <2>1. /\ DiskOK' /\ disk'.selection.active = t /\ disk'.intent = i
          /\ disk'.journal = disk.journal /\ committed' = committed
        BY <1>2, <1>5, <1>9, MovedEffect
    <2>2. Describes(i)' /\ Undecided(i)'
        BY <1>4, <1>5, <1>9, <2>1 DEF Describes, Kept, Undecided
    <2> QED BY <1>1, <1>2, <1>3, <1>4, <1>7, <1>9, <2>1, <2>2, UndoPlace
<1>10. CASE job.action = "activate" /\ Write(Moved(job.target), "audit", "undo")
    BY <1>2, <1>4, <1>6, <1>9, <1>10, NoEffect DEF Write
<1>11. CASE /\ job.action = "rollback" /\ disk.selection.previous \in Enabled
            /\ Write(Moved(disk.selection.previous),
                     IF disk.selection.previous = job.target THEN "audit" ELSE "undo", "undo")
    <2>1. PICK t \in Themes: t = disk.selection.previous
        BY <1>11 DEF Enabled
    <2>2. t = i.target \/ StaleRollback(i.op)
        BY <1>4, <1>5, <1>11, <2>1 DEF StaleRollback, Kept
    <2> QED BY <1>4, <1>6, <1>9, <1>11, <2>1, <2>2, NoEffect DEF Write
<1> QED BY <1>6, <1>8, <1>10, <1>11 DEF Apply

\* Success is audited before it is journaled.
LEMMA AuditInv ==
    ASSUME CoordinatorInv, Audit
    PROVE  CoordinatorInv'
<1>1. pc = "audit" /\ pc \in Running /\ Frame /\ clock' = clock
    BY DEF Audit, Write, Rest, Frame, packages, configuration
<1>2. /\ JobMatches /\ DiskOK /\ job \in Job /\ clock' \in 0..MaxChanges /\ committed \in Selection
    BY <1>1, RunningJob
<1>3. PICK i \in Intent: i = Mine /\ i.op = job.op /\ i.op \in Operation /\ Describes(i)
                         /\ i.before = job.before /\ i.before \in Selection
    BY <1>1, RunningJob DEF Intent
<1>4. disk.intent = i /\ Changed(i)
    BY <1>1, <1>3 DEF CoordinatorInv, ByPlace, Own
<1>5. CASE disk' = disk /\ committed' = committed /\ Goto("undo")
    <2>1. Describes(i)' /\ Undecided(i)' /\ DiskOK'
        BY <1>2, <1>3, <1>4, <1>5, SameDisk DEF Describes, Changed, Undecided
    <2> QED BY <1>1, <1>2, <1>3, <1>4, <1>5, <2>1, UndoPlace
<1>6. CASE Durable(SuccessAudited(job.op))
    <2>1. /\ DiskOK' /\ disk'.selection = disk.selection /\ disk'.intent = i
          /\ disk'.journal = disk.journal /\ committed' = committed
        BY <1>2, <1>3, <1>4, <1>6, AuditEffect DEF SuccessAudited
    <2>2. Describes(i)' /\ Undecided(i)' /\ Changed(i)'
        BY <1>3, <1>4, <2>1 DEF Describes, Changed, Undecided
    <2>3. CASE Goto("undo")
        BY <1>1, <1>2, <1>3, <2>1, <2>2, <2>3, UndoPlace
    <2>4. CASE pc' = "succeed" /\ job' = [job EXCEPT !.audited = TRUE]
        <3>1. job' = [action |-> job.action, target |-> job.target, before |-> job.before,
                      op |-> job.op, audited |-> TRUE]
            BY <1>2, <2>4 DEF Job
        <3>2. job' \in Job
            BY <1>2, <3>1 DEF Job
        <3>3. JobMatches'
            BY <1>2, <2>1, <3>1 DEF JobMatches
        <3>4. JobInv'
            BY <2>4, <3>3 DEF JobInv
        <3>5. Mine' = i
            BY <1>3, <3>1 DEF Mine
        <3>6. Own(Mine)' /\ Changed(Mine)'
            BY <2>1, <2>2, <3>5 DEF Own, Changed, Describes
        <3>7. ByPlace'
            BY <2>4, <3>6 DEF ByPlace
        <3> QED BY <1>1, <1>2, <2>1, <2>4, <3>2, <3>4, <3>7, GoesOn
    <2> QED BY <1>5, <1>6, <2>3, <2>4, NoEffect DEF Audit
<1> QED BY <1>5, <1>6, NoEffect DEF Audit

\* The journal is told of the success: from here on nothing is undone.
LEMMA SucceedInv ==
    ASSUME CoordinatorInv, Succeed
    PROVE  CoordinatorInv'
<1>1. pc = "succeed" /\ pc \in Running /\ Frame /\ clock' = clock
    BY DEF Succeed, Write, Rest, Frame, packages, configuration
<1>2. /\ JobMatches /\ DiskOK /\ job \in Job /\ clock' \in 0..MaxChanges /\ committed \in Selection
    BY <1>1, RunningJob
<1>3. PICK i \in Intent: i = Mine /\ i.op = job.op /\ i.op \in Operation /\ Describes(i)
                         /\ i.before = job.before /\ i.before \in Selection
    BY <1>1, RunningJob DEF Intent
<1>4. disk.intent = i /\ Changed(i)
    BY <1>1, <1>3 DEF CoordinatorInv, ByPlace, Own
<1>5. CASE disk' = disk /\ committed' = committed /\ Goto("undo")
    <2>1. Describes(i)' /\ Undecided(i)' /\ DiskOK'
        BY <1>2, <1>3, <1>4, <1>5, SameDisk DEF Describes, Changed, Undecided
    <2> QED BY <1>1, <1>2, <1>3, <1>4, <1>5, <2>1, UndoPlace
<1>6. CASE Durable(Journaled(job.op, "succeeded")) /\ (Goto("unlink") \/ Goto("undo"))
    <2>1. Status(i.op) # "succeeded"
        BY <1>3, <1>4 DEF Status, Changed, Describes
    <2>2. /\ DiskOK' /\ disk'.selection = disk.selection /\ disk'.intent = i
          /\ DOMAIN disk'.journal = DOMAIN disk.journal \cup {i.op}
          /\ disk'.journal[i.op] = "succeeded" /\ committed' = disk.selection
        BY <1>2, <1>3, <1>4, <1>6, <2>1, JournalEffect DEF Outcome
    <2>3. Describes(i)' /\ Done(i)' /\ committed' \in Selection
        BY <1>2, <1>3, <1>4, <2>2 DEF Describes, Changed, Done, DiskOK
    <2>4. pc' \in {"unlink", "undo"} /\ job' = job
        BY <1>6 DEF Goto
    <2>5. Own(Mine)' /\ Done(Mine)' /\ Describes(Mine)'
        BY <1>3, <2>2, <2>3, <2>4 DEF Own, Mine, Done, Describes
    <2>6. ByPlace'
        BY <2>4, <2>5 DEF ByPlace, Own
    <2> QED BY <1>1, <1>2, <2>2, <2>3, <2>4, <2>6, RunningInv
<1> QED BY <1>5, <1>6, NoEffect DEF Succeed, Write

\* The intent of an operation that succeeded is removed.
LEMMA UnlinkInv ==
    ASSUME CoordinatorInv, Unlink
    PROVE  CoordinatorInv'
<1>1. pc = "unlink" /\ pc \in Running /\ Frame /\ clock' = clock
    BY DEF Unlink, Write, Rest, Frame, packages, configuration
<1>2. /\ JobMatches /\ DiskOK /\ job \in Job /\ clock' \in 0..MaxChanges /\ committed \in Selection
    BY <1>1, RunningJob
<1>3. PICK i \in Intent: i = Mine /\ i.op = job.op /\ i.op \in Operation /\ Describes(i)
                         /\ i.before = job.before /\ i.before \in Selection
    BY <1>1, RunningJob DEF Intent
<1>4. disk.intent = i /\ Done(i)
    BY <1>1, <1>3 DEF CoordinatorInv, ByPlace, Own
<1>5. ASSUME Describes(i)', Done(i)', disk'.intent \in {None, i}, DiskOK',
             disk'.journal = disk.journal, committed' = committed, Goto("undo")
      PROVE  CoordinatorInv'
    <2>1. pc' = "undo" /\ job' = job
        BY <1>5 DEF Goto
    <2>2. Mine' = i
        BY <1>3, <2>1 DEF Mine
    <2>3. Done(Mine)' /\ Describes(Mine)' /\ (disk.intent \in {None, Mine})'
        BY <1>5, <2>2 DEF Done, Describes
    <2>4. ByPlace'
        BY <2>1, <2>3 DEF ByPlace
    <2> QED BY <1>1, <1>2, <1>5, <2>1, <2>4, RunningInv
<1>6. CASE disk' = disk /\ committed' = committed /\ Goto("undo")
    <2>1. Describes(i)' /\ Done(i)' /\ DiskOK'
        BY <1>2, <1>3, <1>4, <1>6, SameDisk DEF Describes, Done
    <2> QED BY <1>4, <1>5, <1>6, <2>1
<1>7. CASE Durable([disk EXCEPT !.intent = None]) /\ (Goto("idle") \/ Goto("undo"))
    <2>1. /\ DiskOK' /\ disk'.selection = disk.selection /\ disk'.intent = None
          /\ disk'.journal = disk.journal /\ committed' = committed
        BY <1>2, <1>7, IntentEffect
    <2>2. Describes(i)' /\ Done(i)' /\ Found' /\ committed' \in Selection
        BY <1>2, <1>3, <1>4, <2>1 DEF Describes, Done, Found, NothingOpen
    <2> QED BY <1>1, <1>2, <1>5, <1>7, <2>1, <2>2, EndInv DEF Goto
<1> QED BY <1>6, <1>7, NoEffect DEF Unlink, Write

\* The operation has its old selection back and goes on undoing itself.
LEMMA UndoneInv ==
    ASSUME CoordinatorInv, pc \in Running, NEW i \in Intent, i = Mine, Frame, clock' = clock,
           DiskOK', committed' \in Selection,
           DOMAIN disk.journal \subseteq DOMAIN disk'.journal,
           disk'.intent = i, Describes(i)', job' = job,
           \/ pc' \in {"compensate", "undo fail"} /\ Kept(i)'
           \/ pc' = "undo unlink" /\ GaveUp(i)'
    PROVE  CoordinatorInv'
<1>1. Mine' = i
    BY DEF Mine
<1>2. Own(Mine)'
    BY <1>1 DEF Own, Describes
<1>3. \/ pc' \in {"compensate", "undo fail"} /\ Kept(Mine)'
      \/ pc' = "undo unlink" /\ GaveUp(Mine)'
    BY <1>1 DEF Kept, GaveUp
<1>4. ByPlace' /\ clock' \in 0..MaxChanges
    BY <1>2, <1>3 DEF ByPlace, CoordinatorInv, TypeOK
<1> QED BY <1>3, <1>4, RunningInv

\* The handler of an exception puts the old selection back, unless success was journaled.
LEMMA UndoInv ==
    ASSUME CoordinatorInv, Undo
    PROVE  CoordinatorInv'
<1>1. pc = "undo" /\ pc \in Running /\ Frame /\ clock' = clock
    BY DEF Undo, Write, Rest, Frame, packages, configuration
<1>2. /\ JobMatches /\ DiskOK /\ job \in Job /\ clock' \in 0..MaxChanges /\ committed \in Selection
    BY <1>1, RunningJob
<1>3. PICK i \in Intent: i = Mine /\ i.op = job.op /\ i.op \in Operation /\ Describes(i)
                         /\ i.before = job.before /\ i.before \in Selection
    BY <1>1, RunningJob DEF Intent
<1>4. \/ disk.intent = i /\ Undecided(i)
      \/ disk.intent \in {None, i} /\ Done(i)
    BY <1>1, <1>3 DEF CoordinatorInv, ByPlace, Own
<1>5. CASE disk' = disk /\ committed' = committed /\ Goto("idle")
    BY <1>1, <1>2, <1>5, QuitInv DEF Goto
<1>6. CASE /\ NotDecided /\ Durable(Restored(job.before))
           /\ Goto("compensate") \/ Goto("undo fail") \/ Goto("idle")
    <2>1. disk.intent = i /\ Undecided(i)
        BY <1>3, <1>4, <1>6 DEF NotDecided, Status, Done, Describes
    <2>2. /\ DiskOK' /\ disk'.selection = i.before /\ disk'.intent = i
          /\ disk'.journal = disk.journal /\ committed' = committed
        BY <1>2, <1>3, <1>6, <2>1, SelectionEffect
    <2>3. Describes(i)' /\ Kept(i)' /\ Undecided(i)' /\ committed' \in Selection
        BY <1>2, <1>3, <2>1, <2>2 DEF Describes, Kept, Undecided
    <2>4. Found'
        BY <2>2, <2>3 DEF Found
    <2>5. CASE Goto("idle")
        BY <1>1, <1>2, <2>2, <2>3, <2>4, <2>5, EndInv DEF Goto
    <2>6. CASE Goto("compensate") \/ Goto("undo fail")
        <3>1. pc' \in {"compensate", "undo fail"} /\ job' = job
            BY <2>6 DEF Goto
        <3> QED BY <1>1, <1>2, <1>3, <2>2, <2>3, <3>1, UndoneInv
    <2> QED BY <1>6, <2>5, <2>6
<1> QED BY <1>5, <1>6, NoEffect DEF Undo, Write

\* A success that was audited too early is taken back.
LEMMA CompensateInv ==
    ASSUME CoordinatorInv, Compensate
    PROVE  CoordinatorInv'
<1>1. pc = "compensate" /\ pc \in Running /\ Frame /\ clock' = clock
    BY DEF Compensate, Write, Rest, Frame, packages, configuration
<1>2. /\ JobMatches /\ DiskOK /\ job \in Job /\ clock' \in 0..MaxChanges /\ committed \in Selection
    BY <1>1, RunningJob
<1>3. PICK i \in Intent: i = Mine /\ i.op = job.op /\ i.op \in Operation /\ Describes(i)
                         /\ i.before = job.before /\ i.before \in Selection
    BY <1>1, RunningJob DEF Intent
<1>4. disk.intent = i /\ Kept(i)
    BY <1>1, <1>3 DEF CoordinatorInv, ByPlace, Own
<1>5. CASE disk' = disk /\ committed' = committed /\ Goto("idle")
    BY <1>1, <1>2, <1>5, QuitInv DEF Goto
<1>6. CASE /\ Durable([disk EXCEPT !.audit =
                          @ \cup {[op |-> job.op, outcome |-> "compensated"]}])
           /\ Goto("undo fail") \/ Goto("idle")
    <2>1. /\ DiskOK' /\ disk'.selection = disk.selection /\ disk'.intent = i
          /\ disk'.journal = disk.journal /\ committed' = committed
        BY <1>2, <1>3, <1>4, <1>6, AuditEffect
    <2>2. Describes(i)' /\ Kept(i)' /\ Undecided(i)' /\ committed' \in Selection
        BY <1>2, <1>3, <1>4, <2>1 DEF Describes, Kept, Undecided
    <2>3. Found'
        BY <2>1, <2>2 DEF Found
    <2>4. CASE Goto("idle")
        BY <1>1, <1>2, <2>1, <2>2, <2>3, <2>4, EndInv DEF Goto
    <2>5. CASE Goto("undo fail")
        <3>1. pc' = "undo fail" /\ job' = job
            BY <2>5 DEF Goto
        <3> QED BY <1>1, <1>2, <1>3, <2>1, <2>2, <3>1, UndoneInv
    <2> QED BY <1>6, <2>4, <2>5
<1> QED BY <1>5, <1>6, NoEffect DEF Compensate, Write

\* The journal is told of the failure.
LEMMA UndoFailInv ==
    ASSUME CoordinatorInv, UndoFail
    PROVE  CoordinatorInv'
<1>1. pc = "undo fail" /\ pc \in Running /\ Frame /\ clock' = clock
    BY DEF UndoFail, Write, Rest, Frame, packages, configuration
<1>2. /\ JobMatches /\ DiskOK /\ job \in Job /\ clock' \in 0..MaxChanges /\ committed \in Selection
    BY <1>1, RunningJob
<1>3. PICK i \in Intent: i = Mine /\ i.op = job.op /\ i.op \in Operation /\ Describes(i)
                         /\ i.before = job.before /\ i.before \in Selection
    BY <1>1, RunningJob DEF Intent
<1>4. disk.intent = i /\ Kept(i) /\ Status(job.op) = "started"
    BY <1>1, <1>3 DEF CoordinatorInv, ByPlace, Own, Kept, Status, Describes
<1>5. CASE disk' = disk /\ committed' = committed /\ Goto("idle")
    BY <1>1, <1>2, <1>5, QuitInv DEF Goto
<1>6. CASE /\ Durable(Journaled(job.op, "failed"))
           /\ Goto("undo unlink") \/ Goto("idle")
    <2>1. /\ DiskOK' /\ disk'.selection = disk.selection /\ disk'.intent = i
          /\ DOMAIN disk'.journal = DOMAIN disk.journal \cup {i.op}
          /\ disk'.journal[i.op] = "failed" /\ committed' = committed
        BY <1>2, <1>3, <1>4, <1>6, JournalEffect DEF Outcome
    <2>2. Describes(i)' /\ GaveUp(i)' /\ committed' \in Selection
        BY <1>2, <1>3, <1>4, <2>1 DEF Describes, Kept, GaveUp
    <2>3. Found'
        BY <2>1, <2>2 DEF Found
    <2>4. CASE Goto("idle")
        BY <1>1, <1>2, <2>1, <2>2, <2>3, <2>4, EndInv DEF Goto
    <2>5. CASE Goto("undo unlink")
        <3>1. pc' = "undo unlink" /\ job' = job
            BY <2>5 DEF Goto
        <3> QED BY <1>1, <1>2, <1>3, <2>1, <2>2, <3>1, UndoneInv
    <2> QED BY <1>6, <2>4, <2>5
<1> QED BY <1>4, <1>5, <1>6, NoEffect DEF UndoFail, Write

\* The intent of an operation that failed is removed.
LEMMA UndoUnlinkInv ==
    ASSUME CoordinatorInv, UndoUnlink
    PROVE  CoordinatorInv'
<1>1. pc = "undo unlink" /\ pc \in Running /\ Frame /\ clock' = clock
    BY DEF UndoUnlink, Write, Rest, Frame, packages, configuration
<1>2. /\ JobMatches /\ DiskOK /\ job \in Job /\ clock' \in 0..MaxChanges /\ committed \in Selection
    BY <1>1, RunningJob
<1>3. PICK i \in Intent: i = Mine /\ i.op = job.op /\ i.op \in Operation /\ Describes(i)
                         /\ i.before = job.before /\ i.before \in Selection
    BY <1>1, RunningJob DEF Intent
<1>4. GaveUp(i)
    BY <1>1, <1>3 DEF CoordinatorInv, ByPlace
<1>5. CASE disk' = disk /\ committed' = committed /\ Goto("idle")
    BY <1>1, <1>2, <1>5, QuitInv DEF Goto
<1>6. CASE Durable([disk EXCEPT !.intent = None]) /\ Goto("idle")
    <2>1. /\ DiskOK' /\ disk'.selection = disk.selection /\ disk'.intent = None
          /\ committed' = committed
        BY <1>2, <1>6, IntentEffect
    <2>2. Found' /\ committed' \in Selection
        BY <1>2, <1>4, <2>1 DEF GaveUp, Found, NothingOpen
    <2> QED BY <1>1, <1>2, <1>6, <2>1, <2>2, EndInv DEF Goto
<1> QED BY <1>5, <1>6, NoEffect DEF UndoUnlink, Write

\* Every step of the coordinator.
LEMMA CoordinatorSteps ==
    ASSUME CoordinatorInv, CoordinatorNext
    PROVE  CoordinatorInv'
BY CoordinatorCalls, RecoverBeginInv, RecoverDecides, RecoverUnlinkInv, BeginInv, ValidateInv,
   WriteIntentInv, ApplyInv, AuditInv, SucceedInv, UnlinkInv, UndoInv, CompensateInv, UndoFailInv,
   UndoUnlinkInv DEF CoordinatorNext

-----------------------------------------------------------------------------
(* Packages and revisions leave the coordinator alone.                     *)

\* What the coordinator's state satisfies does not depend on them.
LEMMA CoordinatorUnchanged ==
    ASSUME CoordinatorInv, UNCHANGED coordinator, Others'
    PROVE  CoordinatorInv'
<1>1. UNCHANGED <<disk, pc, job, asked, clock, faults, crashes, committed>>
    BY DEF coordinator
<1>2. DiskOK'
    BY <1>1, SameDisk DEF CoordinatorInv, TypeOK
<1>3. TypeOK'
    BY <1>1, <1>2 DEF CoordinatorInv, TypeOK, Others
<1>4. JobInv'
    BY <1>1 DEF CoordinatorInv, JobInv, JobMatches
<1>5. ByPlace'
    BY <1>1 DEF CoordinatorInv, ByPlace, Found, NothingOpen, Describes, Undecided, Kept, Changed,
                GaveUp, Done, Mine, Own
<1> QED BY <1>3, <1>4, <1>5 DEF CoordinatorInv

\* Package operations on themes.
LEMMA PackageSteps ==
    ASSUME CoordinatorInv, PackageNext
    PROVE  CoordinatorInv' /\ pc = "idle" /\ UNCHANGED <<coordinator, configuration>>
<1>1. PICK t \in Theme:
        \/ Enable(t) \/ Disable(t) \/ Uninstall(t) \/ Quarantine(t)
        \/ \E v \in Version: Install(t, v) \/ Update(t, v)
    BY DEF PackageNext
<1>2. pc = "idle" /\ UNCHANGED <<coordinator, configuration>>
    BY <1>1 DEF Enable, Disable, Uninstall, Quarantine, Install, Update, PackageStep
<1>3. quarantined' \subseteq Theme
    BY <1>1 DEF Enable, Disable, Uninstall, Quarantine, Install, Update, CoordinatorInv, TypeOK
<1>4. records \in [Theme -> Record \cup {None}]
    BY DEF CoordinatorInv, TypeOK
<1>5. records' \in [Theme -> Record \cup {None}]
    <2>1. CASE \E v \in Version: Install(t, v)
        BY <1>4, <2>1 DEF Install, PackageStep, Record
    <2>2. CASE Uninstall(t)
        BY <1>4, <2>2 DEF Uninstall, PackageStep
    <2>3. CASE ~ (\E v \in Version: Install(t, v)) /\ ~ Uninstall(t)
        <3>1. Installed(t)
            BY <1>1, <2>3 DEF Enable, Disable, Quarantine, Update
        <3>2. PICK q \in Record: q = records[t]
            BY <1>4, <3>1 DEF Installed
        <3>3. /\ \A s \in {"enabled", "disabled"}: [q EXCEPT !.status = s] \in Record
              /\ \A v \in Version: [q EXCEPT !.version = v] \in Record
            BY DEF Record
        <3> QED BY <1>1, <1>4, <2>3, <3>2, <3>3 DEF Enable, Disable, Quarantine, Update, PackageStep
    <2> QED BY <2>1, <2>2, <2>3
<1>6. Others'
    BY <1>2, <1>3, <1>5 DEF Others, configuration, CoordinatorInv, TypeOK
<1> QED BY <1>2, <1>6, CoordinatorUnchanged

\* A revision's record stays one when a field of it is changed.
LEMMA RevisionFields ==
    ASSUME NEW v \in RevisionType
    PROVE  /\ \A s \in {"draft", "validated", "prepared"}:
                [v EXCEPT !.status = s] \in RevisionType
           /\ \A uses \in Pages: [v EXCEPT !.uses = uses] \in RevisionType
BY DEF RevisionType

\* An enabled theme other than the bundled one has a record.
LEMMA EnabledHasRecord ==
    ASSUME CoordinatorInv, NEW t \in Theme, t \in Enabled
    PROVE  records[t] \in Record /\ Here(t) = Manifest(t, records[t].version)
<1>1. t # "default"
    BY ThemesAssumption
<1>2. Installed(t)
    BY <1>1 DEF Enabled
<1> QED BY <1>1, <1>2 DEF Installed, Here, CoordinatorInv, TypeOK

\* Revisions, and their index.
LEMMA RevisionSteps ==
    ASSUME CoordinatorInv, RevisionInv, RevisionNext
    PROVE  /\ CoordinatorInv' /\ RevisionInv'
           /\ UNCHANGED <<packages, coordinator>>
<1>1. /\ revisions \in [Revision -> RevisionType \cup {None}]
      /\ index \in [published: Revision \cup {None}, previous: Revision \cup {None}]
    BY DEF CoordinatorInv, TypeOK
<1>2. ASSUME UNCHANGED <<packages, coordinator>>,
             revisions' \in [Revision -> RevisionType \cup {None}],
             index' \in [published: Revision \cup {None}, previous: Revision \cup {None}]
      PROVE  CoordinatorInv'
    <2>1. Others'
        BY <1>2 DEF Others, packages, CoordinatorInv, TypeOK
    <2> QED BY <1>2, <2>1, CoordinatorUnchanged
<1>3. ASSUME NEW r \in Revision, NEW new \in RevisionType, WriteRevision(r, new),
             new.status = "prepared" /\ Manifest(new.theme, new.version).parent = None
                => new.uses \subseteq DOMAIN Manifest(new.theme, new.version).blocks
      PROVE  /\ CoordinatorInv' /\ RevisionInv' /\ UNCHANGED <<packages, coordinator>>
    <2>1. /\ UNCHANGED <<packages, coordinator, index>>
          /\ revisions' = [revisions EXCEPT ![r] = new]
          /\ revisions[r] # None => revisions[r].status # "prepared"
        BY <1>3 DEF WriteRevision
    <2>2. revisions' \in [Revision -> RevisionType \cup {None}]
        BY <1>1, <2>1
    <2>3. revisions'[r] = new /\ \A q \in Revision: q # r => revisions'[q] = revisions[q]
        BY <1>1, <2>1
    <2>4. ASSUME NEW q \in Revision, revisions'[q] # None, revisions'[q].status = "prepared",
                 Manifest(revisions'[q].theme, revisions'[q].version).parent = None
          PROVE  revisions'[q].uses
                    \subseteq DOMAIN Manifest(revisions'[q].theme, revisions'[q].version).blocks
        <3>1. CASE q = r
            BY <1>3, <2>3, <2>4, <3>1
        <3>2. CASE q # r
            BY <2>3, <2>4, <3>2 DEF RevisionInv
        <3> QED BY <3>1, <3>2
    <2>5. ASSUME NEW q \in {index.published, index.previous} \ {None}
          PROVE  revisions'[q] # None /\ revisions'[q].status = "prepared"
        <3>1. q \in Revision /\ revisions[q] # None /\ revisions[q].status = "prepared"
            BY <1>1 DEF RevisionInv
        <3> QED BY <2>1, <2>3, <3>1
    <2>6. RevisionInv'
        BY <2>1, <2>4, <2>5 DEF RevisionInv
    <2> QED BY <1>1, <1>2, <2>1, <2>2, <2>6
<1>4. ASSUME NEW r \in Revision, NEW uses \in Pages, NEW t \in Theme, Draft(r, t, uses)
      PROVE  /\ CoordinatorInv' /\ RevisionInv' /\ UNCHANGED <<packages, coordinator>>
    <2>1. PICK n \in RevisionType:
            n = [status |-> "draft", theme |-> t, version |-> records[t].version, uses |-> uses]
        BY <1>4, EnabledHasRecord DEF Draft, RequireTheme, RevisionType, Record
    <2>2. WriteRevision(r, n) /\ n.status = "draft"
        BY <1>4, <2>1 DEF Draft
    <2> QED BY <2>2, <1>3
<1>5. ASSUME NEW r \in Revision, NEW uses \in Pages, UpdateDraft(r, uses)
      PROVE  /\ CoordinatorInv' /\ RevisionInv' /\ UNCHANGED <<packages, coordinator>>
    <2>1. PICK v \in RevisionType: v = revisions[r]
        BY <1>1, <1>5 DEF UpdateDraft
    <2>2. PICK n \in RevisionType: n = [v EXCEPT !.uses = uses]
        BY RevisionFields
    <2>3. WriteRevision(r, n) /\ n.status = "draft"
        BY <1>5, <2>1, <2>2 DEF UpdateDraft, RevisionType
    <2> QED BY <2>3, <1>3
<1>6. ASSUME NEW r \in Revision, ValidateRevision(r)
      PROVE  /\ CoordinatorInv' /\ RevisionInv' /\ UNCHANGED <<packages, coordinator>>
    <2>1. PICK v \in RevisionType: v = revisions[r]
        BY <1>1, <1>6 DEF ValidateRevision
    <2>2. PICK n \in RevisionType: n = [v EXCEPT !.status = "validated"]
        BY RevisionFields
    <2>3. WriteRevision(r, n) /\ n.status = "validated"
        BY <1>6, <2>1, <2>2 DEF ValidateRevision, RevisionType
    <2> QED BY <2>3, <1>3
<1>7. ASSUME NEW r \in Revision, Prepare(r)
      PROVE  /\ CoordinatorInv' /\ RevisionInv' /\ UNCHANGED <<packages, coordinator>>
    <2>1. PICK v \in RevisionType: v = revisions[r]
        BY <1>1, <1>7 DEF Prepare
    <2>2. PICK n \in RevisionType: n = [v EXCEPT !.status = "prepared"]
        BY RevisionFields
    <2>3. WriteRevision(r, n) /\ n.theme = v.theme /\ n.version = v.version /\ n.uses = v.uses
        BY <1>7, <2>1, <2>2 DEF Prepare, RevisionType
    <2>4. /\ v.theme \in Theme /\ v.theme \in Enabled /\ records[v.theme].version = v.version
          /\ v.uses \subseteq DOMAIN Composition(Here(v.theme))
        BY <1>7, <2>1 DEF Prepare, RequireValid, RequireRevisionTheme, RequireTheme, RevisionType
    <2>5. Here(v.theme) = Manifest(n.theme, n.version)
        BY <2>3, <2>4, EnabledHasRecord
    <2>6. Manifest(n.theme, n.version).parent = None
            => n.uses \subseteq DOMAIN Manifest(n.theme, n.version).blocks
        BY <2>3, <2>4, <2>5 DEF Composition
    <2> QED BY <2>3, <2>6, <1>3
<1>8. ASSUME UNCHANGED <<packages, coordinator, revisions>>,
             NEW p \in Revision, NEW q \in Revision \cup {None},
             index' = [published |-> p, previous |-> q],
             \A r \in {p, q} \ {None}: revisions[r] # None /\ revisions[r].status = "prepared"
      PROVE  CoordinatorInv' /\ RevisionInv'
    <2>1. CoordinatorInv'
        BY <1>1, <1>2, <1>8
    <2>2. RevisionInv'
        BY <1>8 DEF RevisionInv
    <2> QED BY <2>1, <2>2
<1>9. ASSUME NEW r \in Revision, Publish(r)
      PROVE  /\ CoordinatorInv' /\ RevisionInv' /\ UNCHANGED <<packages, coordinator>>
    <2>1. PICK q \in Revision \cup {None}: q = index.published
        BY <1>1
    <2> QED BY <1>8, <1>9, <2>1 DEF Publish, IsPrepared, RevisionInv
<1>10. CASE RollbackRevision
    <2>1. PICK p \in Revision, q \in Revision \cup {None}: p = index.previous /\ q = index.published
        BY <1>1, <1>10 DEF RollbackRevision
    <2> QED BY <1>8, <1>10, <2>1 DEF RollbackRevision, RevisionInv
<1> QED BY <1>4, <1>5, <1>6, <1>7, <1>9, <1>10 DEF RevisionNext

-----------------------------------------------------------------------------
(* The active theme.                                                       *)

\* Journal entries are added and never removed; only the selection's writers
\* change the selection.
LEMMA JournalGrows ==
    ASSUME DiskOK, NEW op, NEW outcome, disk' = Journaled(op, outcome)
    PROVE  /\ disk'.selection = disk.selection
           /\ DOMAIN disk.journal \subseteq DOMAIN disk'.journal
<1> DEFINE more == [o \in DOMAIN disk.journal \cup {op} |->
                        IF o = op THEN outcome ELSE disk.journal[o]]
<1>1. disk' = [disk EXCEPT !.journal = more]
    BY DEF Journaled
<1>2. DOMAIN disk.journal \subseteq DOMAIN more
    OBVIOUS
<1> HIDE DEF more
<1> QED BY <1>1, <1>2 DEF DiskOK

\* A selection is written beside the journal.
LEMMA RestoredSelection ==
    ASSUME DiskOK, NEW s, disk' = Restored(s)
    PROVE  disk'.selection = s /\ disk'.journal = disk.journal
BY DEF DiskOK, Restored

\* How a step of the coordinator may change the selection: it moves to an
\* enabled theme, an exception's handler puts the old one back, or recovery
\* does, and then it is back already or the operation is a stale rollback.
LEMMA SelectionMoves ==
    ASSUME CoordinatorInv, CoordinatorNext
    PROVE  /\ DOMAIN disk.journal \subseteq DOMAIN disk'.journal
           /\ UNCHANGED <<records, quarantined>>
           /\ \/ disk'.selection = disk.selection
              \/ disk'.selection.active \in Enabled
              \/ pc \in Running /\ disk'.selection = job.before
              \/ Excused
           /\ pc' \in Running =>
                \/ pc \in Running /\ job'.before = job.before
                \/ job'.before = disk.selection
<1> USE DEF Durable, Goto, Rest, packages
<1>0. DiskOK
    BY DEF CoordinatorInv, TypeOK
<1>1. CASE AskRollback \/ Rollback \/ Restart \/ Crash \/ \E t \in Themes: Activate(t)
    BY <1>1 DEF AskRollback, Rollback, Restart, Crash, Activate, Acquire
<1>2. CASE RecoverBegin
    <2>1. pc = "recover" /\ UNCHANGED <<records, quarantined>> /\ pc' \notin Running
        BY <1>2 DEF RecoverBegin, RecoverStarted, Write, AfterRecovery, Raised
    <2>2. Found
        BY FoundAnywhere
    <2>3. CASE disk' = disk
        BY <2>1, <2>3
    <2>4. CASE disk' = [disk EXCEPT !.intent = None]
        BY <1>0, <2>1, <2>4 DEF DiskOK
    <2>5. CASE disk.intent # None /\ disk' = SuccessAudited(disk.intent.op)
        BY <1>0, <2>1, <2>5 DEF DiskOK, SuccessAudited
    <2>6. CASE /\ disk.intent # None /\ disk' = Restored(disk.intent.before)
               /\ \/ Status(disk.intent.op) = "failed"
                  \/ /\ Status(disk.intent.op) = "started"
                     /\ disk.selection.active # disk.intent.target
        <3>1. disk'.selection = disk.intent.before /\ disk'.journal = disk.journal
            BY <1>0, <2>6, RestoredSelection
        <3>2. disk.selection = disk.intent.before \/ Excused
            BY <2>2, <2>6 DEF Found, NothingOpen, Describes, Status, Undecided, GaveUp, Done, Excused
        <3> QED BY <2>1, <3>1, <3>2
    <2> QED BY <1>2, <2>3, <2>4, <2>5, <2>6 DEF RecoverBegin, RecoverStarted, Write
<1>3. CASE RecoverSucceed \/ RecoverFail
    BY <1>0, <1>3, JournalGrows DEF RecoverSucceed, RecoverFail, Write, Raised
<1>4. CASE RecoverUnlink
    BY <1>0, <1>4 DEF RecoverUnlink, Write, Raised, AfterRecovery, DiskOK
<1>5. CASE Begin
    <2>1. UNCHANGED <<records, quarantined>>
        BY <1>5 DEF Begin
    <2>2. \/ disk' = disk \/ disk' = Journaled(OperationId, "started")
        BY <1>5 DEF Begin
    <2>3. /\ disk'.selection = disk.selection
          /\ DOMAIN disk.journal \subseteq DOMAIN disk'.journal
        BY <1>0, <2>2, JournalGrows
    <2>4. pc' \in Running => job'.before = disk.selection
        <3>1. job \in Job
            BY <1>5 DEF Begin, CoordinatorInv, TypeOK
        <3> QED BY <1>5, <3>1 DEF Begin, Job
    <2> QED BY <2>1, <2>3, <2>4
<1>6. CASE Validate
    BY <1>0, <1>6, JournalGrows DEF Validate, Write
<1>7. CASE WriteIntent
    BY <1>0, <1>7 DEF WriteIntent, Write, DiskOK
<1>8. CASE Apply
    <2>1. /\ UNCHANGED <<records, quarantined>> /\ pc \in Running /\ pc' \in Running
          /\ job' = job
        BY <1>8 DEF Apply, Write
    <2>2. \/ disk' = disk
          \/ \E t \in Enabled: disk' = Moved(t)
        BY <1>8 DEF Apply, Write
    <2>3. ASSUME NEW t \in Enabled, disk' = Moved(t)
          PROVE  disk'.selection.active = t /\ disk'.journal = disk.journal
        BY <1>0, <2>3 DEF Moved, DiskOK
    <2> QED BY <2>1, <2>2, <2>3
<1>9. CASE Audit
    <2>1. /\ UNCHANGED <<records, quarantined>> /\ pc \in Running
          /\ disk' = disk \/ disk' = SuccessAudited(job.op)
        BY <1>9 DEF Audit
    <2>2. disk'.selection = disk.selection /\ disk'.journal = disk.journal
        BY <1>0, <2>1 DEF SuccessAudited, DiskOK
    <2>3. job \in Job
        BY <1>9 DEF Audit, CoordinatorInv, TypeOK
    <2>4. job'.before = job.before
        BY <1>9, <2>3 DEF Audit, Job
    <2> QED BY <2>1, <2>2, <2>4
<1>10. CASE Succeed
    BY <1>0, <1>10, JournalGrows DEF Succeed, Write
<1>11. CASE Unlink
    BY <1>0, <1>11 DEF Unlink, Write, DiskOK
<1>12. CASE Undo
    BY <1>0, <1>12, RestoredSelection DEF Undo, Write
<1>13. CASE Compensate
    BY <1>0, <1>13 DEF Compensate, Write, DiskOK
<1>14. CASE UndoFail
    BY <1>0, <1>14, JournalGrows DEF UndoFail, Write
<1>15. CASE UndoUnlink
    BY <1>0, <1>15 DEF UndoUnlink, Write, DiskOK
<1> QED BY <1>1, <1>2, <1>3, <1>4, <1>5, <1>6, <1>7, <1>8, <1>9, <1>10, <1>11, <1>12, <1>13,
           <1>14, <1>15 DEF CoordinatorNext

\* The coordinator keeps the active theme among the usable ones.
LEMMA ActiveByCoordinator ==
    ASSUME CoordinatorInv, ActiveInv, CoordinatorNext
    PROVE  ActiveInv'
<1>1. Usable' = Usable
    BY SelectionMoves DEF Usable, Enabled, Installed
<1>2. Excused => Excused'
    BY SelectionMoves DEF Excused, StaleRollback
<1>3. disk'.selection.active \in Usable \/ Excused
    BY SelectionMoves DEF ActiveInv, ActiveIsEnabled, Usable, Excused
<1>4. pc' \in Running => job'.before.active \in Usable \/ Excused
    BY SelectionMoves DEF ActiveInv, ActiveIsEnabled, Usable, Excused
<1> QED BY <1>1, <1>2, <1>3, <1>4 DEF ActiveInv, ActiveIsEnabled, Usable, Excused

\* So do package operations: the active theme is neither disabled nor removed.
LEMMA ActiveByPackages ==
    ASSUME CoordinatorInv, ActiveInv, PackageNext
    PROVE  ActiveInv'
<1>1. PICK t \in Theme:
        \/ Enable(t) \/ Disable(t) \/ Uninstall(t) \/ Quarantine(t)
        \/ \E v \in Version: Install(t, v) \/ Update(t, v)
    BY DEF PackageNext
<1>2. pc = "idle" /\ disk' = disk /\ pc' = pc
    BY PackageSteps DEF coordinator
<1>3. records \in [Theme -> Record \cup {None}]
    BY DEF CoordinatorInv, TypeOK
<1>4. \A u \in Usable: u # disk.selection.active \/ u \in Usable'
    <2>1. CASE Disable(t)
        BY <1>3, <2>1 DEF Disable, NotActive, PackageStep, Usable, Enabled, Installed
    <2>2. CASE Uninstall(t)
        BY <1>3, <2>2 DEF Uninstall, NotActive, PackageStep, Usable, Enabled, Installed
    <2>3. CASE Quarantine(t)
        BY <1>3, <2>3 DEF Quarantine, PackageStep, Usable, Enabled, Installed
    <2>4. CASE \E v \in Version: Install(t, v)
        BY <1>3, <2>4 DEF Install, PackageStep, Usable, Enabled, Installed
    <2>5. CASE Enable(t) \/ \E v \in Version: Update(t, v)
        <3>1. PICK q \in Record: q = records[t]
            BY <1>3, <2>5 DEF Enable, Update, Installed
        <3>2. PICK n \in Record:
                /\ records' = [records EXCEPT ![t] = n]
                /\ \/ n.status = q.status /\ quarantined' = quarantined
                   \/ n.status = "enabled" /\ quarantined' = quarantined \ {t}
            <4>1. CASE Enable(t)
                <5>1. PICK n \in Record: n = [q EXCEPT !.status = "enabled"]
                    BY DEF Record
                <5>2. n.status = "enabled"
                    BY <5>1 DEF Record
                <5> QED BY <3>1, <4>1, <5>1, <5>2 DEF Enable, PackageStep
            <4>2. ASSUME NEW v \in Version, Update(t, v)
                  PROVE  \E n \in Record: /\ records' = [records EXCEPT ![t] = n]
                                          /\ n.status = q.status /\ quarantined' = quarantined
                <5>1. PICK n \in Record: n = [q EXCEPT !.version = v]
                    BY DEF Record
                <5>2. n.status = q.status
                    BY <5>1 DEF Record
                <5> QED BY <3>1, <4>2, <5>1, <5>2 DEF Update, PackageStep
            <4> QED BY <2>5, <4>1, <4>2
        <3>4. records'[t] = n /\ n # None /\ \A u \in Theme: u # t => records'[u] = records[u]
            BY <1>3, <3>2, NoneAssumption
        <3> QED BY <3>1, <3>2, <3>4 DEF Usable, Enabled, Installed
    <2> QED BY <1>1, <2>1, <2>2, <2>3, <2>4, <2>5
<1> QED BY <1>2, <1>4 DEF ActiveInv, ActiveIsEnabled, Usable, Excused

-----------------------------------------------------------------------------
(* The theorems.                                                           *)

\* The initial state.
LEMMA InitInv ==
    ASSUME Init
    PROVE  Inv
<1>1. Bundled \in Selection /\ Bundled.active = "default"
    BY BoundsAreNumbers DEF Bundled, Selection
<1>2. /\ disk = [selection |-> Bundled, intent |-> None, journal |-> <<>>, audit |-> {}]
      /\ committed = Bundled /\ pc = "idle"
    BY DEF Init
<1>3. DOMAIN disk.journal = {} /\ disk.journal = [o \in {} |-> disk.journal[o]]
    BY <1>2
<1>4. DiskOK
    BY <1>1, <1>2, <1>3 DEF DiskOK
<1>5. TypeOK
    BY <1>1, <1>2, <1>4, BoundsAreNumbers DEF Init, TypeOK
<1>6. ByPlace /\ JobInv
    BY <1>2 DEF ByPlace, JobInv, Found, NothingOpen
<1>7. ActiveInv
    BY <1>1, <1>2 DEF ActiveInv, ActiveIsEnabled, Enabled
<1>8. RevisionInv
    BY DEF Init, RevisionInv
<1> QED BY <1>5, <1>6, <1>7, <1>8 DEF Inv, CoordinatorInv

\* Steps of the coordinator and of packages do not write revisions.
LEMMA RevisionsUnchanged ==
    ASSUME RevisionInv, UNCHANGED configuration
    PROVE  RevisionInv'
BY DEF RevisionInv, configuration

\* Every step keeps the invariant.
LEMMA NextInv ==
    ASSUME Inv, [Next]_vars
    PROVE  Inv'
<1> USE DEF Inv
<1>1. CASE PackageNext
    BY <1>1, PackageSteps, ActiveByPackages, RevisionsUnchanged
<1>2. CASE CoordinatorNext
    <2>1. UNCHANGED configuration
        BY <1>2 DEF CoordinatorNext, AskRollback, Rollback, Restart, Crash, Activate, RecoverBegin,
            RecoverStarted, RecoverSucceed, RecoverFail, RecoverUnlink, Begin, Validate, WriteIntent,
            Apply, Audit, Succeed, Unlink, Undo, Compensate, UndoFail, UndoUnlink, Write, Rest
    <2> QED BY <1>2, <2>1, CoordinatorSteps, ActiveByCoordinator, RevisionsUnchanged
<1>3. CASE RevisionNext
    <2>1. CoordinatorInv' /\ RevisionInv' /\ UNCHANGED <<packages, coordinator>>
        BY <1>3, RevisionSteps
    <2>2. ActiveInv'
        BY <2>1 DEF ActiveInv, ActiveIsEnabled, Usable, Excused, Enabled, Installed, StaleRollback,
                    packages, coordinator
    <2> QED BY <2>1, <2>2
<1>4. CASE UNCHANGED vars
    <2>1. UNCHANGED packages /\ UNCHANGED coordinator /\ UNCHANGED configuration
        BY <1>4 DEF vars
    <2>2. CoordinatorInv'
        <3>1. Others'
            BY <2>1 DEF Others, packages, configuration, CoordinatorInv, TypeOK
        <3> QED BY <2>1, <3>1, CoordinatorUnchanged
    <2>3. ActiveInv'
        BY <2>1 DEF ActiveInv, ActiveIsEnabled, Usable, Excused, Enabled, Installed, StaleRollback,
                    packages, coordinator
    <2> QED BY <2>1, <2>2, <2>3, RevisionsUnchanged
<1> QED BY <1>1, <1>2, <1>3, <1>4 DEF Next

(* At every place of the coordinator, its intent, the journal and the      *)
(* selection agree as the place demands; a prepared revision composes.     *)
THEOREM Invariance == Spec => []Inv
<1> QED BY InitInv, NextInv, PTL DEF Spec

(* The state of the theme coordinator and of the revisions is always well  *)
(* formed, and the counters stay within their bounds.                      *)
THEOREM ThemesTypeCorrect == Spec => []TypeOK
<1>1. Inv => TypeOK
    BY DEF Inv, CoordinatorInv
<1> QED BY <1>1, Invariance, PTL

(* The active theme is an enabled one, or an emergency disabled it, unless *)
(* a rollback ran whose target had changed while it waited for the lock.   *)
THEOREM ActiveThemeIsEnabled == Spec => []ActiveIsEnabled
<1>1. Inv => ActiveIsEnabled
    BY DEF Inv, ActiveInv
<1> QED BY <1>1, Invariance, PTL

(* When nothing runs and nothing is left to recover, the selection is the  *)
(* one the last operation that succeeded left: whatever write raised, and  *)
(* wherever the process stopped, theme_operations.py undoes or completes.  *)
THEOREM SelectionIsWhatSucceeded == Spec => []SelectionFollowsJournal
<1>1. Inv => SelectionFollowsJournal
    BY NoneAssumption
       DEF Inv, CoordinatorInv, ByPlace, Found, NothingOpen, SelectionFollowsJournal
<1> QED BY <1>1, Invariance, PTL

(* An intent that is found can always be completed: _recover_locked never  *)
(* meets one without journal evidence, nor a success with another theme.   *)
THEOREM RecoveryNeverConflicts == Spec => []RecoveryCanFinish
<1>1. ASSUME Inv
      PROVE  RecoveryCanFinish
    <2> SUFFICES ASSUME pc \in Outside, RecoveryConflicts
                 PROVE  FALSE
        BY DEF RecoveryCanFinish
    <2>1. PICK i \in Intent: i = disk.intent
        BY <1>1 DEF RecoveryConflicts, Inv, CoordinatorInv, ByPlace, Found, NothingOpen
    <2>2. Describes(i) /\ (Undecided(i) \/ GaveUp(i) \/ Done(i))
        BY <1>1, <2>1 DEF RecoveryConflicts, Inv, CoordinatorInv, ByPlace, Found, NothingOpen
    <2>3. Status(i.op) = disk.journal[i.op] /\ Status(i.op) \in Outcome
        BY <1>1, <2>2 DEF Describes, Status, Inv, CoordinatorInv, TypeOK, DiskOK
    <2>4. Status(i.op) # None
        BY <2>3, NoneAssumption
    <2>5. Status(i.op) = "succeeded" => disk.selection.active = i.target
        BY <2>2, <2>3 DEF Undecided, GaveUp, Done
    <2> QED BY <2>1, <2>4, <2>5 DEF RecoveryConflicts
<1> QED BY <1>1, Invariance, PTL

(* What is published, or kept to return to, was prepared and was not       *)
(* changed since; a theme without a parent can still compose its pages     *)
(* while the theme has the version it was prepared for.                    *)
THEOREM PublishedRevisionsCompose == Spec => []PublishedIsPrepared
<1>1. ASSUME Inv, NEW r \in {index.published, index.previous} \ {None}
      PROVE  /\ revisions[r] # None /\ revisions[r].status = "prepared"
             /\ RequireRevisionTheme(r) /\ Here(revisions[r].theme).parent = None
                    => RequireValid(r)
    <2>1. revisions[r] # None /\ revisions[r].status = "prepared" /\ r \in Revision
        BY <1>1 DEF Inv, RevisionInv, CoordinatorInv, TypeOK
    <2>2. PICK v \in RevisionType: v = revisions[r]
        BY <1>1, <2>1 DEF Inv, CoordinatorInv, TypeOK
    <2>3. ASSUME RequireRevisionTheme(r), Here(v.theme).parent = None
          PROVE  RequireValid(r)
        <3>1. v.theme \in Theme /\ v.theme \in Enabled /\ records[v.theme].version = v.version
            BY <2>2, <2>3 DEF RequireRevisionTheme, RequireTheme, RevisionType
        <3>2. Here(v.theme) = Manifest(v.theme, v.version)
            BY <1>1, <3>1, EnabledHasRecord DEF Inv
        <3>3. v.uses \subseteq DOMAIN Manifest(v.theme, v.version).blocks
            BY <1>1, <2>1, <2>2, <2>3, <3>2 DEF Inv, RevisionInv
        <3> QED BY <2>2, <2>3, <3>2, <3>3 DEF RequireValid, Composition
    <2> QED BY <2>1, <2>2, <2>3
<1>2. Inv => PublishedIsPrepared
    BY <1>1 DEF PublishedIsPrepared
<1> QED BY <1>2, Invariance, PTL

=================================================================================
