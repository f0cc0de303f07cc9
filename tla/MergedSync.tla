----------------------------- MODULE MergedSync -----------------------------
(***************************************************************************)
(* The merged transfer of pi-sync (sync/merged-sync.ts): every device      *)
(* observes its files, its baseline and the remote head, merges the three  *)
(* path by path, journals the plan, publishes a candidate snapshot with a  *)
(* conditional PUT, applies the remote's changes file by file, and records *)
(* the new baseline.  It may be interrupted between any two steps; what    *)
(* survives is on disk, and the journal decides how the next run resumes.  *)
(*                                                                         *)
(* Snapshots are named by the order they were minted in; the name stands   *)
(* for the snapshot's id and for the revision of a head that points to it. *)
(* One sync of a device runs at a time (state/lock.ts).                    *)
(***************************************************************************)
EXTENDS Integers, Sequences, FiniteSets

CONSTANTS
    Device,             \* the installations that share one remote
    Path,               \* the managed files
    Content,            \* what a file may hold
    Absent,             \* the file does not exist
    None,               \* no journal, no version
    Initial,            \* the snapshot every device starts from
    Together,           \* sets of paths that are only ever merged as a whole
    Protected,          \* paths of open sessions: never replaced
    Partial,            \* devices with config.partialSync
    ExternalWriters,    \* do programs write files outside Pi's file queues?
    MaxAttempts,        \* MAX_ATTEMPTS
    MaxEdit, MaxFault, MaxSnapshot      \* bounds on what the environment does

Version == Content \cup {Absent}
Image == [Path -> Version]
Snapshot == 1 .. MaxSnapshot

ASSUME NoContentAssumption == Absent \notin Content /\ None \notin Version
ASSUME InitialAssumption == Initial \in Image
ASSUME TogetherAssumption ==
    /\ Together \subseteq SUBSET Path
    /\ \A g1, g2 \in Together : g1 = g2 \/ g1 \cap g2 = {}
ASSUME ProtectedAssumption == Protected \subseteq Path
ASSUME ConfigAssumption == Partial \subseteq Device /\ ExternalWriters \in BOOLEAN
ASSUME BoundAssumption ==
    /\ MaxAttempts \in Nat \ {0} /\ MaxSnapshot \in Nat \ {0}
    /\ MaxEdit \in Nat /\ MaxFault \in Nat

VARIABLES
    local,      \* local[d]: the files of d
    state,      \* state[d]: the state file of d, its baseline
    journal,    \* journal[d]: the merge journal of d, or None
    op,         \* op[d]: the sync d is running, lost when it stops
    snaps,      \* snaps[i]: the files of snapshot i
    head,       \* the snapshot the remote pointer names
    puts,       \* conditional PUTs of the pointer that are under way
    edits, faults,      \* how often a user edited, something failed
    mine,       \* history: mine[d][p], what the user of d last made of p
    heads       \* history: every snapshot that ever was the head

disk == <<local, state, journal>>
remote == <<snaps, head, puts>>
counters == <<edits, faults>>
history == <<mine, heads>>
vars == <<disk, op, remote, counters, history>>

-----------------------------------------------------------------------------
(* The merge of one local image with one remote image. *)

BothChanged(b, l, r) == {p \in Path : l[p] # r[p] /\ r[p] # b[p] /\ l[p] # b[p]}

TakesRemote(b, l, r) == {p \in Path : l[p] # r[p] /\ r[p] # b[p] /\ l[p] = b[p]}

Conflicts(b, l, r) == BothChanged(b, l, r) \cup (TakesRemote(b, l, r) \cap Protected)

\* (slip) Only the conflicting paths are withheld, not what goes with them.
WithheldAlone(b, l, r) == Conflicts(b, l, r)

\* A conflict withholds everything it must be merged together with.
Withheld(b, l, r) ==
    LET c == Conflicts(b, l, r)
    IN  c \cup UNION {g \in Together : g \cap c # {}}

\* The files d has after the merge ...
Accepted(b, l, r) ==
    [p \in Path |-> IF p \in TakesRemote(b, l, r) \ Withheld(b, l, r) THEN r[p] ELSE l[p]]

\* ... and those it publishes: both sides keep their withheld versions.
Publication(b, l, r) ==
    [p \in Path |-> IF p \in Withheld(b, l, r) THEN r[p] ELSE Accepted(b, l, r)[p]]

\* The baseline after image was merged with snapshot i.
AcceptedState(previous, image, i, withheld) ==
    IF withheld = {}
    THEN [applied |-> i, base |-> image, unresolved |-> {}, observed |-> 0]
    ELSE [previous EXCEPT
            !.base = [p \in Path |-> IF p \in withheld THEN previous.base[p] ELSE image[p]],
            !.unresolved = withheld,
            !.observed = i]

-----------------------------------------------------------------------------
Phase == {"idle", "observe", "plan",
          "evidence", "inspect", "witness", "accept",               \* nothing to transfer
          "recheck", "rehead", "journal", "precommit", "commit", "publishing",
          "reconcile", "settle", "applying", "replacing", "record", "clear"}

InitState == [applied |-> 1, base |-> Initial, unresolved |-> {}, observed |-> 0]

\* A sync that knows nothing but how often it had to start over.
Blank(phase, n) ==
    [pc |-> phase, local |-> Initial, state |-> InitState, head |-> 0,
     attempt |-> n, todo |-> {}, verified |-> {}]

Idle == Blank("idle", 0)

Init ==
    /\ local = [d \in Device |-> Initial]
    /\ state = [d \in Device |-> InitState]
    /\ journal = [d \in Device |-> None]
    /\ op = [d \in Device |-> Idle]
    /\ snaps = <<Initial>> /\ head = 1 /\ puts = {}
    /\ edits = 0 /\ faults = 0
    /\ mine = [d \in Device |-> [p \in Path |-> None]]
    /\ heads = {1}

At(d, phase) == op[d].pc = phase
Goto(d, phase) == op' = [op EXCEPT ![d].pc = phase]
Stop(d) == op' = [op EXCEPT ![d] = Idle]

\* A check between two steps of a sync: it stops the sync when it fails.
Check(d, from, ok, to) ==
    /\ At(d, from)
    /\ IF ok THEN Goto(d, to) ELSE Stop(d)
    /\ UNCHANGED <<disk, remote, counters, history>>

Fresh(d) == local[d] = op[d].local /\ state[d] = op[d].state
SameHead(d) == head = op[d].head

Fault == faults < MaxFault /\ faults' = faults + 1

\* What d decides from its observation, and from a head it has just read.
Base(d) == op[d].state.base
WithheldBy(d, h) == Withheld(Base(d), op[d].local, snaps[h])
AcceptedBy(d, h) == Accepted(Base(d), op[d].local, snaps[h])
PublicationBy(d, h) == Publication(Base(d), op[d].local, snaps[h])
Publishes(d, h) == PublicationBy(d, h) # snaps[h]
Applies(d, h) == AcceptedBy(d, h) # op[d].local

-----------------------------------------------------------------------------
(* Starting, and planning. *)

BeginSync(d) ==
    /\ At(d, "idle")
    /\ Goto(d, IF journal[d] = None THEN "observe" ELSE "reconcile")
    /\ UNCHANGED <<disk, remote, counters, history>>

Observe(d) ==
    /\ At(d, "observe")
    /\ op' = [op EXCEPT ![d].pc = "plan", ![d].local = local[d], ![d].state = state[d]]
    /\ UNCHANGED <<disk, remote, counters, history>>

\* Conflicts the setup does not withhold need a person.
Review(d) ==
    /\ At(d, "plan")
    /\ d \notin Partial /\ WithheldBy(d, head) # {}
    /\ Stop(d)
    /\ UNCHANGED <<disk, remote, counters, history>>

Plan(d) ==
    /\ At(d, "plan")
    /\ d \in Partial \/ WithheldBy(d, head) = {}
    /\ op' = [op EXCEPT ![d].head = head,
                        ![d].pc = IF Publishes(d, head) \/ Applies(d, head)
                                  THEN "recheck" ELSE "evidence"]
    /\ UNCHANGED <<disk, remote, counters, history>>

-----------------------------------------------------------------------------
(* Nothing to publish, nothing to apply: only the baseline moves. *)

CheckEvidence(d) == Check(d, "evidence", SameHead(d), "inspect")
CheckInspect(d) == Check(d, "inspect", Fresh(d), "witness")
CheckWitness(d) == Check(d, "witness", SameHead(d), "accept")

AcceptBaseline(d) ==
    /\ At(d, "accept")
    /\ LET h == op[d].head
       IN  state' = [state EXCEPT ![d] =
                        AcceptedState(op[d].state, AcceptedBy(d, h), h, WithheldBy(d, h))]
    /\ Stop(d)
    /\ UNCHANGED <<local, journal, remote, counters, history>>

-----------------------------------------------------------------------------
(* A transfer, up to the publication of its candidate. *)

CheckLocal(d) == Check(d, "recheck", Fresh(d), "rehead")
CheckHead(d) == Check(d, "rehead", SameHead(d), "journal")

WriteJournal(d) ==
    LET h == op[d].head
        publish == Publishes(d, h)
        upload == IF publish THEN Len(snaps) + 1 ELSE h
    IN  /\ At(d, "journal")
        /\ upload <= MaxSnapshot
        /\ snaps' = IF publish THEN Append(snaps, PublicationBy(d, h)) ELSE snaps
        /\ journal' = [journal EXCEPT ![d] =
                [before |-> op[d].local, after |-> AcceptedBy(d, h),
                 withheld |-> WithheldBy(d, h), state |-> op[d].state,
                 expected |-> h, upload |-> upload,
                 committed |-> IF publish THEN 0 ELSE h, applyOnly |-> ~publish]]
        /\ Goto(d, "precommit")
        /\ UNCHANGED <<local, state, head, puts, counters, history>>

\* The bound of the model: the sync ends where it would mint one more.
NoMoreSnapshots(d) ==
    /\ At(d, "journal")
    /\ Len(snaps) = MaxSnapshot /\ Publishes(d, op[d].head)
    /\ Stop(d)
    /\ UNCHANGED <<disk, remote, counters, history>>

ClearJournal(d) == journal' = [journal EXCEPT ![d] = None]

PreCommit(d) ==
    /\ At(d, "precommit")
    /\ Fresh(d)
    /\ Goto(d, "commit")
    /\ UNCHANGED <<disk, remote, counters, history>>

\* No backend call has begun: the candidate is retired.
StaleBeforeCommit(d) ==
    /\ At(d, "precommit")
    /\ ~Fresh(d)
    /\ ClearJournal(d) /\ Stop(d)
    /\ UNCHANGED <<local, state, remote, counters, history>>

\* A target became a link, a directory, another file.
PreflightFails(d) ==
    /\ At(d, "precommit")
    /\ Fault
    /\ ClearJournal(d) /\ Stop(d)
    /\ UNCHANGED <<local, state, remote, edits, history>>

CommitApplyOnly(d) ==
    /\ At(d, "commit")
    /\ journal[d].applyOnly
    /\ op' = [op EXCEPT ![d] = Blank("reconcile", 0)]
    /\ UNCHANGED <<disk, remote, counters, history>>

\* A conflict before the commit: plan afresh, MaxAttempts times at most.
Retry(d) ==
    /\ ClearJournal(d)
    /\ op' = [op EXCEPT ![d] = IF op[d].attempt + 1 < MaxAttempts
                               THEN Blank("observe", op[d].attempt + 1)
                               ELSE Idle]

\* The backend finds another head than the expected one ...
PublishConflict(d) ==
    /\ At(d, "commit")
    /\ ~journal[d].applyOnly
    /\ head # journal[d].expected
    /\ Retry(d)
    /\ UNCHANGED <<local, state, remote, counters, history>>

\* ... or sends the PUT that only succeeds on the expected head.
Publish(d) ==
    /\ At(d, "commit")
    /\ ~journal[d].applyOnly
    /\ head = journal[d].expected
    /\ puts' = puts \cup {[dev |-> d, expected |-> head, cand |-> journal[d].upload]}
    /\ Goto(d, "publishing")
    /\ UNCHANGED <<disk, snaps, head, counters, history>>

-----------------------------------------------------------------------------
(* The PUT at the service, which may serve it after its sender gave up. *)

Awaits(d, q) == At(d, "publishing") /\ journal[d].upload = q.cand

\* (slip) The PUT is not conditional.
UnconditionalPut(q) ==
    /\ head' = q.cand
    /\ heads' = heads \cup {q.cand}
    /\ puts' = puts \ {q}
    /\ UNCHANGED <<disk, op, snaps, counters, mine>>

LandPut(q) ==
    /\ head = q.expected
    /\ head' = q.cand
    /\ heads' = heads \cup {q.cand}
    /\ puts' = puts \ {q}
    /\ UNCHANGED <<disk, op, snaps, counters, mine>>

RefusePut(q) ==
    /\ head # q.expected
    /\ puts' = puts \ {q}
    /\ IF Awaits(q.dev, q) THEN Retry(q.dev) ELSE UNCHANGED <<journal, op>>
    /\ UNCHANGED <<local, state, snaps, head, counters, history>>

LosePut(q) ==
    /\ Fault
    /\ puts' = puts \ {q}
    /\ UNCHANGED <<disk, op, snaps, head, edits, history>>

\* The answer arrived and the pointer, read back, names the candidate.
ConfirmPut(d) ==
    /\ At(d, "publishing")
    /\ head = journal[d].upload
    /\ journal' = [journal EXCEPT ![d].committed = head]
    /\ op' = [op EXCEPT ![d] = Blank("reconcile", 0)]
    /\ UNCHANGED <<local, state, remote, counters, history>>

\* The request failed, or another candidate replaced ours: the journal stays.
UncertainPut(d) ==
    /\ At(d, "publishing")
    /\ head # journal[d].upload
    /\ \A q \in puts : q.cand # journal[d].upload
    /\ Stop(d)
    /\ UNCHANGED <<disk, remote, counters, history>>

-----------------------------------------------------------------------------
(* completeJournal: resume whatever the journal records. *)

ReadHead(d) ==
    /\ At(d, "reconcile")
    /\ op' = [op EXCEPT ![d].pc = "settle", ![d].head = head]
    /\ UNCHANGED <<disk, remote, counters, history>>

Uncommitted(j, h) == j.committed = 0 /\ h = j.expected
Overtaken(j, h) == j.committed # 0 /\ h # j.committed
Active(j, h) == h = j.upload /\ j.committed \in {0, h}

Untouched(d) == local[d] = journal[d].before /\ state[d] = journal[d].state

StateAccepts(d, i) ==
    state[d] = AcceptedState(journal[d].state, journal[d].after, i, journal[d].withheld)

Changed(j) == {p \in Path : j.before[p] # j.after[p]}
\* (slip) Targets are not compared with the images of the journal.
UncheckedTarget(d, p) == TRUE

Recognised(d, p) == local[d][p] \in {journal[d].before[p], journal[d].after[p]}

\* (slip) The journal is dropped without a look at the files.
CancelsWithoutLook(d, h) ==
    Uncommitted(journal[d], h) \/ (journal[d].applyOnly /\ Overtaken(journal[d], h))

\* The candidate is not active and nothing moved here.
Cancels(d, h) ==
    /\ Uncommitted(journal[d], h) \/ (journal[d].applyOnly /\ Overtaken(journal[d], h))
    /\ Untouched(d)

\* (slip) An accepted baseline is only recognised under a later head.
RetiresOnlyOvertaken(d, h) ==
    Overtaken(journal[d], h) /\ StateAccepts(d, journal[d].committed)

\* The baseline was written before the sync stopped.
Retires(d, h) ==
    \/ Overtaken(journal[d], h) /\ StateAccepts(d, journal[d].committed)
    \/ Active(journal[d], h) /\ StateAccepts(d, h)

Resumes(d, h) ==
    /\ Active(journal[d], h)
    /\ ~StateAccepts(d, h)
    /\ state[d] = journal[d].state
    /\ \A p \in Changed(journal[d]) : Recognised(d, p)

DropJournal(d) ==
    /\ At(d, "settle")
    /\ Cancels(d, op[d].head) \/ Retires(d, op[d].head)
    /\ ClearJournal(d) /\ Stop(d)
    /\ UNCHANGED <<local, state, remote, counters, history>>

StartApply(d) ==
    /\ At(d, "settle")
    /\ Resumes(d, op[d].head)
    /\ LET j == journal[d]
       IN  op' = [op EXCEPT ![d].pc = "applying",
                            ![d].todo = {p \in Changed(j) : j.after[p] # Absent
                                                              \/ local[d][p] # Absent}]
    /\ UNCHANGED <<disk, remote, counters, history>>

\* Evidence no rule can read is kept for a person.
KeepJournal(d) ==
    /\ At(d, "settle")
    /\ ~(Cancels(d, op[d].head) \/ Retires(d, op[d].head) \/ Resumes(d, op[d].head))
    /\ Stop(d)
    /\ UNCHANGED <<disk, remote, counters, history>>

-----------------------------------------------------------------------------
(* applyMergedSnapshot, with the file queues of the changed paths held. *)

Deletes(d) == {p \in op[d].todo : journal[d].after[p] = Absent}

VerifyTarget(d, p) ==
    /\ At(d, "applying")
    /\ p \in op[d].todo
    /\ Deletes(d) = {} \/ p \in Deletes(d)
    /\ IF Recognised(d, p)
       THEN op' = [op EXCEPT ![d].pc = "replacing", ![d].verified = {p}]
       ELSE Stop(d)
    /\ UNCHANGED <<disk, remote, counters, history>>

ReplaceTarget(d, p) ==
    /\ At(d, "replacing")
    /\ p \in op[d].verified
    /\ local' = [local EXCEPT ![d][p] = journal[d].after[p]]
    /\ op' = [op EXCEPT ![d].pc = "applying", ![d].todo = @ \ {p}, ![d].verified = {}]
    /\ UNCHANGED <<state, journal, remote, counters, history>>

CheckAcceptance(d) ==
    /\ op[d].todo = {}
    /\ Check(d, "applying", SameHead(d), "record")

RecordState(d) ==
    /\ At(d, "record")
    /\ state' = [state EXCEPT ![d] = AcceptedState(journal[d].state, journal[d].after,
                                                   op[d].head, journal[d].withheld)]
    /\ Goto(d, "clear")
    /\ UNCHANGED <<local, journal, remote, counters, history>>

FinishSync(d) ==
    /\ At(d, "clear")
    /\ ClearJournal(d) /\ Stop(d)
    /\ UNCHANGED <<local, state, remote, counters, history>>

-----------------------------------------------------------------------------
(* The environment: users, and whatever ends a sync before its time. *)

QueueHeld(d, p) == op[d].pc \in {"applying", "replacing"} /\ p \in Changed(journal[d])

\* Files that belong together may be written at once.
SavedAtOnce == {{p} : p \in Path} \cup Together

Edit(d, ps, v) ==
    /\ edits < MaxEdit
    /\ \A p \in ps : local[d][p] # v /\ (ExternalWriters \/ ~QueueHeld(d, p))
    /\ local' = [local EXCEPT ![d] = [p \in Path |-> IF p \in ps THEN v ELSE local[d][p]]]
    /\ mine' = [mine EXCEPT ![d] = [p \in Path |-> IF p \in ps THEN v ELSE mine[d][p]]]
    /\ edits' = edits + 1
    /\ UNCHANGED <<state, journal, op, remote, faults, heads>>

\* A crash, a cancellation, a timeout, an I/O error, a failed authorization.
Interrupt(d) ==
    /\ ~At(d, "idle")
    /\ Fault
    /\ Stop(d)
    /\ UNCHANGED <<disk, remote, edits, history>>

-----------------------------------------------------------------------------
PlanStep(d) ==
    BeginSync(d) \/ Observe(d) \/ Review(d) \/ Plan(d)

BaselineStep(d) ==
    CheckEvidence(d) \/ CheckInspect(d) \/ CheckWitness(d) \/ AcceptBaseline(d)

CommitStep(d) ==
    \/ CheckLocal(d) \/ CheckHead(d) \/ WriteJournal(d) \/ NoMoreSnapshots(d)
    \/ PreCommit(d) \/ StaleBeforeCommit(d)
    \/ CommitApplyOnly(d) \/ PublishConflict(d) \/ Publish(d)
    \/ ConfirmPut(d) \/ UncertainPut(d)

RecoveryStep(d) ==
    \/ ReadHead(d) \/ DropJournal(d) \/ StartApply(d) \/ KeepJournal(d)
    \/ \E p \in Path : VerifyTarget(d, p) \/ ReplaceTarget(d, p)
    \/ CheckAcceptance(d) \/ RecordState(d) \/ FinishSync(d)

SyncStep(d) == PlanStep(d) \/ BaselineStep(d) \/ CommitStep(d) \/ RecoveryStep(d)

ServiceStep == \E q \in puts : LandPut(q) \/ RefusePut(q)

Failure ==
    \/ \E d \in Device : PreflightFails(d) \/ Interrupt(d)
    \/ \E q \in puts : LosePut(q)

Next ==
    \/ \E d \in Device : SyncStep(d)
    \/ ServiceStep
    \/ Failure
    \/ \E d \in Device, ps \in SavedAtOnce, v \in Version : Edit(d, ps, v)

Spec == Init /\ [][Next]_vars

\* Every device syncs again and again, and the service serves what it is sent.
LiveSpec ==
    /\ Spec
    /\ \A d \in Device : WF_vars(SyncStep(d))
    /\ WF_vars(ServiceStep)

-----------------------------------------------------------------------------
State == [applied : Snapshot, base : Image, unresolved : SUBSET Path, observed : {0} \cup Snapshot]

Journal == [before : Image, after : Image, withheld : SUBSET Path, state : State,
            expected : Snapshot, upload : Snapshot, committed : {0} \cup Snapshot,
            applyOnly : BOOLEAN]

Operation == [pc : Phase, local : Image, state : State, head : {0} \cup Snapshot,
              attempt : 0 .. MaxAttempts - 1, todo : SUBSET Path, verified : SUBSET Path]

Put == [dev : Device, expected : Snapshot, cand : Snapshot]

ASSUME NoneAssumption == None \notin Journal

\* Every variable keeps its type; the snapshots minted, the head and the
\* snapshots once active stay within the bounds of the model.
TypeOK ==
    /\ local \in [Device -> Image]
    /\ state \in [Device -> State]
    /\ journal \in [Device -> Journal \cup {None}]
    /\ op \in [Device -> Operation]
    /\ snaps \in Seq(Image) /\ Len(snaps) \in Snapshot
    /\ head \in 1 .. Len(snaps)
    /\ puts \subseteq Put
    /\ edits \in 0 .. MaxEdit /\ faults \in 0 .. MaxFault
    /\ mine \in [Device -> [Path -> Version \cup {None}]]
    /\ heads \subseteq 1 .. Len(snaps)

\* What a user wrote is never lost: it is still the file, or a snapshot that
\* was active once holds it.
NoVersionLost ==
    \A d \in Device, p \in Path :
        mine[d][p] \in Content =>
            \/ local[d][p] = mine[d][p]
            \/ \E i \in heads : snaps[i][p] = mine[d][p]

\* Bytes on disk that are neither accepted nor the user's own are recorded:
\* a sync that stopped halfway left the journal that explains them.
UnacceptedBytesAreJournaled ==
    \A d \in Device, p \in Path :
        local[d][p] \notin {state[d].base[p], mine[d][p]} =>
            journal[d] # None /\ Recognised(d, p)

\* A publication replaces only versions its publisher had accepted, even one
\* that lands after its sender gave up or started over.
PublicationOverwritesOnlyAccepted ==
    [][\A q \in puts \ puts' :
          head' = q.cand =>
              \A p \in Path : snaps[head'][p] # snaps[head][p] =>
                                  state[q.dev].base[p] = snaps[head][p]]_vars

\* A baseline only holds versions that were active remotely, and those of
\* paths that merge together come from one snapshot; without withheld paths
\* it is the snapshot the state names.
BaselineWasActive ==
    \A d \in Device :
        /\ state[d].applied \in heads
        /\ \A g \in Together \cup {{p} : p \in Path} :
               \E i \in heads : \A p \in g : state[d].base[p] = snaps[i][p]
        /\ state[d].unresolved = {} => state[d].base = snaps[state[d].applied]

-----------------------------------------------------------------------------
(* What all this is for. *)

Abstract == INSTANCE ThreeWaySync
    WITH base <- [d \in Device |-> state[d].base],
         remote <- snaps[head],
         shared <- {snaps[i] : i \in heads}

\* The merged transfer is a three-way synchronisation: publication replaces
\* only what the publisher had accepted, a file is replaced only while it is
\* the accepted one.
ImplementsThreeWaySync == Abstract!Spec

-----------------------------------------------------------------------------
Settled(d) ==
    /\ journal[d] = None
    /\ local[d] = snaps[head]
    /\ state[d].base = snaps[head]

\* d waits for a person: the merge conflicts, another candidate replaced the
\* one of its journal, or the files were edited since the journal was written.
NeedsReview(d) ==
    LET j == journal[d]
    IN  IF j = None
        THEN Withheld(state[d].base, local[d], snaps[head]) # {}
        ELSE \/ head \notin {j.expected, j.upload}
             \/ head = j.expected /\ head # j.upload /\ local[d] # j.before
             \/ \E p \in Changed(j) : ~Recognised(d, p)

\* When users and failures pause, every device ends up with the files of the
\* head, or waits for a review.
EventuallySettled ==
    \A d \in Device : <>[](Settled(d) \/ NeedsReview(d))

=============================================================================
