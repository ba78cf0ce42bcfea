--------------------------------- MODULE Ledgers --------------------------------
(***************************************************************************)
(* The two journals of an installation (audit.py, operation_journal.py)    *)
(* and the store of trusted heads that anchors them (integrity.py): what a *)
(* read accepts and what each call appends, as operators on their values.  *)
(*                                                                         *)
(* A journal is the sequence of its events and its head hash is that       *)
(* sequence: the HMAC chain makes one head stand for one history.  An      *)
(* append that a crash tears leaves a line that every later read refuses;  *)
(* it is recorded in "torn" instead of in the sequence.  Timestamps, the   *)
(* actor and the free text of an event are left out, and an operation's    *)
(* action goes with its identifier.                                        *)
(***************************************************************************)
EXTENDS Integers, FiniteSets, Sequences, SequencesExt

CONSTANTS None, Operation

Journal == {"audit", "operations"}

Status == {"started", "succeeded", "failed"}

AuditEvent == [op: Operation, action: {"requested", "performed"},
               outcome: {"success", "failure"}]

\* The journals of one data directory; marker is the file a restore leaves in the
\* tree it installs.
NewTree == [audit |-> <<>>, operations |-> <<>>, torn |-> {}, marker |-> None]

-----------------------------------------------------------------------------
(* The operation journal.                                                  *)

\* The state of an operation is the last event that names it.
OperationState(events, op) ==
    LET mine == {i \in DOMAIN events : events[i].op = op}
    IN IF mine = {} THEN None ELSE events[Max(mine)]

\* _apply_event: the events a reader accepts next.
Applies(current, event) ==
    IF current = None
    THEN event.status = "started" /\ event.attempt = 1
    ELSE /\ event.target = current.target
         /\ \/ /\ event.status = "started" /\ current.status = "failed"
               /\ event.attempt = current.attempt + 1
            \/ /\ event.status # "started" /\ current.status = "started"
               /\ event.attempt = current.attempt

Verifies(events) ==
    \A i \in DOMAIN events :
        Applies(OperationState(SubSeq(events, 1, i - 1), events[i].op), events[i])

\* _read_and_verify of either journal raises on anything else.
Readable(tree, journal) ==
    /\ journal \notin tree.torn
    /\ journal = "operations" => Verifies(tree.operations)

Appended(tree, journal, event) == [tree EXCEPT ![journal] = Append(@, event)]

\* begin, for an operation the journal does not know.
Begun(tree, op, target) ==
    Appended(tree, "operations",
             [op |-> op, target |-> target, attempt |-> 1, status |-> "started"])

\* Mutant: a retry keeps the number of the attempt that failed.
RetriedSameAttempt(tree, op) ==
    Appended(tree, "operations",
             [OperationState(tree.operations, op) EXCEPT !.status = "started"])

\* retry, for an operation that failed.
Retried(tree, op) ==
    LET current == OperationState(tree.operations, op)
    IN Appended(tree, "operations",
                [current EXCEPT !.attempt = @ + 1, !.status = "started"])

\* The calls of succeed and fail that raise.
CannotFinish(tree, op, status) ==
    LET current == OperationState(tree.operations, op)
    IN \/ ~Readable(tree, "operations")
       \/ current = None
       \/ current.status \notin {"started", status}

\* The others: the same outcome twice is one event.
Finished(tree, op, status) ==
    LET current == OperationState(tree.operations, op)
    IN IF current.status = status
       THEN tree
       ELSE Appended(tree, "operations", [current EXCEPT !.status = status])

-----------------------------------------------------------------------------
(* The trusted heads.                                                      *)

Latest(store, journal) ==
    LET records == {i \in DOMAIN store : store[i].journal = journal}
    IN IF records = {} THEN None ELSE store[Max(records)]

Epochs(store) == {Latest(store, j).epoch : j \in {k \in Journal : Latest(store, k) # None}}

\* _validate_checkpoint_records: epochs never move back, an epoch belongs to one
\* recovery, and a recovery wrote both heads, side by side.
ValidStore(store) ==
    /\ \A i, j \in DOMAIN store : i < j => store[i].epoch <= store[j].epoch
    /\ \A i, j \in DOMAIN store :
           /\ store[i].op # None /\ store[j].op # None
           /\ store[i].epoch = store[j].epoch
           => store[i].op = store[j].op
    /\ \A i \in DOMAIN store : store[i].op # None =>
           LET pair == {j \in DOMAIN store : store[j].op = store[i].op}
           IN /\ {store[j].journal : j \in pair} = Journal
              /\ \E k \in pair : pair = {k, k + 1} /\ store[k].epoch = store[k + 1].epoch

\* _current_recovery_epoch; it raises unless both journals are in one epoch.
EpochKnown(store) == ValidStore(store) /\ Cardinality(Epochs(store)) <= 1
Epoch(store) == IF store = <<>> THEN 0 ELSE Max(Epochs(store))

Record(journal, head, epoch, op) ==
    [journal |-> journal, head |-> head, epoch |-> epoch, op |-> op]

\* checkpoint: the head is trusted already, ...
IsAnchored(store, journal, head) ==
    Latest(store, journal) # None /\ Latest(store, journal).head = head

\* ... or it may become the trusted one.
AcceptsHead(store, journal, head, epoch) ==
    LET existing == Latest(store, journal)
    IN /\ EpochKnown(store) /\ Epoch(store) = epoch
       /\ existing # None => existing.head = head \/ Len(head) > Len(existing.head)

Anchored(store, journal, head) ==
    IF IsAnchored(store, journal, head)
    THEN store
    ELSE Append(store, Record(journal, head, Epoch(store), None))

\* recover: an operation that has its pair already only gets the same one back, ...
Recovered(store, op) == \E i \in DOMAIN store : store[i].op = op

\* Mutant: a pair that other checkpoints have followed is still returned.
MatchesAnyRecovery(store, heads, op) == TRUE

MatchesRecovery(store, heads, op) ==
    \A j \in Journal : Latest(store, j).op = op /\ Latest(store, j).head = heads[j]

\* ... any other starts the next epoch with both heads, in one append.
NewRecovery(store, heads, op) ==
    store \o <<Record("audit", heads["audit"], Epoch(store) + 1, op),
               Record("operations", heads["operations"], Epoch(store) + 1, op)>>
================================================================================
