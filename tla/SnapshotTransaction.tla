------------------------ MODULE SnapshotTransaction ------------------------
(***************************************************************************)
(* The transaction that installs a snapshot in the agent directory         *)
(* (snapshot/snapshot-transaction.ts).  It backs up every target, writes a *)
(* journal, removes what the snapshot does not hold, installs what it      *)
(* holds, and drops the journal.  After a failure, in the same run or at   *)
(* the next start of Pi, the journal and the backup restore the targets:   *)
(* all of them, and only where the bytes found are recognised as those of  *)
(* the backup or of the snapshot.                                          *)
(*                                                                         *)
(* The files form a tree of two levels.  A check and the replacement it    *)
(* permits are one step: pi-sync has no compare-and-swap on files.  The    *)
(* operation lock (SyncLock) admits one transaction at a time.             *)
(***************************************************************************)
EXTENDS Integers, FiniteSets

CONSTANTS
    Target,             \* the paths
    Inside,             \* the paths directly inside a path
    Managed,            \* the paths a snapshot may hold
    Content,            \* what a file may hold
    AtFirst,            \* bound: what files hold before anything happens
    Missing, Dir,       \* nothing, a directory
    None,
    ExternalWriters,    \* do programs write files while a transaction runs?
    MaxApply, MaxEdit, MaxFault     \* bounds

Node == Content \cup {Missing, Dir}
Below(t) == {t} \cup Inside[t]
Parent(t) == {p \in Target : t \in Inside[p]}

\* A state of the file system: what is inside a path needs a directory there.
Trees ==
    {fs \in [Target -> Node] :
        \A t \in Target : fs[t] # Dir => \A x \in Inside[t] : fs[x] = Missing}

ASSUME TreeAssumption ==
    /\ Inside \in [Target -> SUBSET Target]
    /\ \A t \in Target : t \notin Inside[t]
    /\ \A t \in Target : Parent(t) # {} => Inside[t] = {}
    /\ \A t \in Target : \A p, q \in Parent(t) : p = q
ASSUME NodeAssumption == Missing # Dir /\ {Missing, Dir} \cap Content = {}
ASSUME AtFirstAssumption == AtFirst \subseteq Content
ASSUME ManagedAssumption == Managed \subseteq Target
ASSUME WritersAssumption == ExternalWriters \in BOOLEAN
ASSUME BoundAssumption == MaxApply \in Nat /\ MaxEdit \in Nat /\ MaxFault \in Nat

VARIABLES
    live,       \* the agent directory
    tx,         \* the transaction directory: journal and backup, or None
    stages,     \* targets with a recovery staging file beside them
    op,         \* what the running process does, lost when it stops
    applies, edits, faults,
    touched,    \* history: targets edited since the backup was taken
    installed,  \* history: targets whose content the transaction put there
    gone,       \* history: those of them that a user deleted since
    unclear     \* history: ... while the journal said they were to be removed

vars == <<live, tx, stages, op, applies, edits, faults, touched, installed, gone, unclear>>

Idle == [pc |-> "idle", todo |-> {}, fresh |-> {}, target |-> None, restoring |-> FALSE]

Init ==
    /\ live \in {fs \in Trees : \A t \in Target :
            /\ fs[t] \in {Missing, Dir} \cup AtFirst
            /\ fs[t] = Dir => \E x \in Inside[t] : fs[x] # Missing}
    /\ tx = None /\ stages = {} /\ op = Idle
    /\ applies = 0 /\ edits = 0 /\ faults = 0
    /\ touched = {} /\ installed = {} /\ gone = {} /\ unclear = {}

-----------------------------------------------------------------------------
(* The plan: what a snapshot makes of the files found. *)

IsFile(n) == n \in Content
Image(fs, t) == [x \in Below(t) |-> fs[x]]

\* The files a snapshot holds, in the directories they need.
Snapshots ==
    {fs \in Trees : \A t \in Target :
        /\ IsFile(fs[t]) => t \in Managed
        /\ fs[t] = Dir => \E x \in Inside[t] : IsFile(fs[x])}

Writes(after) == {t \in Target : IsFile(after[t])}

\* Files the snapshot does not hold, and directories where it holds a file.
Deletes(before, after) ==
    {t \in Managed : IsFile(before[t]) /\ ~IsFile(after[t])}
        \cup {t \in Writes(after) : \E x \in Inside[t] \cap Managed : IsFile(before[x])}

Outermost(ts) == {t \in ts : Parent(t) \cap ts = {}}

DeletedWrites ==
    {t \in Writes(tx.after) : ({t} \cup Parent(t)) \cap tx.deletes # {}}

PostFiles(t) == {x \in Inside[t] : IsFile(tx.after[x])}

-----------------------------------------------------------------------------
(* verifyTarget: whose bytes are these? *)

IsBefore(t) == Image(live, t) = Image(tx.before, t)

OwnedPostTree(t, complete) ==
    /\ live[t] = Dir /\ PostFiles(t) # {}
    /\ \A x \in Inside[t] : live[x] # Missing => x \in PostFiles(t) /\ live[x] = tx.after[x]
    /\ complete => \A x \in PostFiles(t) : live[x] = tx.after[x]

IsAfter(t) ==
    \/ IsFile(live[t]) /\ live[t] = tx.after[t]
    \/ OwnedPostTree(t, t \in tx.started \/ t \notin tx.pending)

\* (slip) A missing target counts as an unfinished removal, armed or not.
AbsentForWhateverReason(t, mine) == live[t] = Missing

\* (slip) An intent lasts as long as the run that declared it.
RemovedInThisRun(t, mine) == live[t] = Missing /\ mine

\* (slip) What was to be removed counts as ours, whatever is there now.
ToBeRemoved(t, mine) == mine \/ t \in tx.pending \ tx.started

\* Missing because of this transaction, whose replacement has not begun.
Removed(t, mine) == live[t] = Missing /\ (mine \/ t \in tx.pending \ tx.started)

Verified(t, mine) ==
    /\ tx.before[t] # Missing => tx.backup
    /\ IsBefore(t) \/ Removed(t, mine) \/ IsAfter(t)

-----------------------------------------------------------------------------
At(pc) == op.pc = pc
Stop == op' = Idle
Files == UNCHANGED <<live, installed>>
Bounds == UNCHANGED <<applies, edits, faults, touched, gone, unclear>>

\* (slip) A target that cannot be restored does not keep the others from it.
FailAndGoOn ==
    /\ op' = IF op.restoring /\ op.target # None
             THEN [op EXCEPT !.pc = "restore", !.todo = @ \ {op.target}, !.target = None]
             ELSE [Idle EXCEPT !.pc = "verify", !.restoring = TRUE]
    /\ stages' = stages \ {op.target}
    /\ UNCHANGED <<live, tx, installed>>

\* An error: the same run restores, and an error in that keeps the evidence.
Fail ==
    /\ op' = IF op.restoring THEN Idle
             ELSE [Idle EXCEPT !.pc = "verify", !.restoring = TRUE]
    /\ stages' = stages \ {op.target}
    /\ UNCHANGED <<live, tx, installed>>

\* What becomes of the intents when t and what is inside it are about to go.
Intended(t) ==
    LET affected == Below(t) \cap tx.entries
    IN  [tx EXCEPT !.pending = @ \cup affected, !.started = @ \ affected]

Armed(ts, within) ==
    [tx EXCEPT !.pending = (@ \ within) \ ts, !.started = (@ \ within) \cup ts]

-----------------------------------------------------------------------------
(* applySnapshotTransaction. *)

\* What the snapshot changes is planned from the files as they are read, and
\* the directories it needs are made.
Plan(after) ==
    LET deletes == Deletes(live, after)
        needed == UNION {Parent(t) : t \in Writes(after)}
    IN  /\ At("idle") /\ tx = None
        /\ applies < MaxApply
        /\ \A t \in Writes(after) : live[t] = Dir => t \in deletes
        /\ \A p \in needed : IsFile(live[p]) => p \in deletes
        /\ live' = [t \in Target |-> IF t \in needed /\ live[t] = Missing THEN Dir ELSE live[t]]
        /\ tx' = [phase |-> "planned", backup |-> TRUE, before |-> live, after |-> after,
                  deletes |-> deletes, entries |-> Writes(after) \cup deletes,
                  pending |-> {}, started |-> {}, staged |-> {}]
        /\ op' = [Idle EXCEPT !.pc = "prepare"]
        /\ applies' = applies + 1
        /\ touched' = {} /\ installed' = {} /\ gone' = {} /\ unclear' = {}
        /\ UNCHANGED <<stages, edits, faults>>

\* With the file queues held, the targets are backed up as they are by now.
Prepare ==
    /\ At("prepare")
    /\ tx' = [tx EXCEPT !.before = live]
    /\ op' = [op EXCEPT !.pc = "publish"]
    /\ touched' = {}
    /\ UNCHANGED <<live, stages, applies, edits, faults, installed, gone, unclear>>

PublishJournal ==
    /\ At("publish")
    /\ tx' = [tx EXCEPT !.phase = "open"]
    /\ op' = [op EXCEPT !.pc = "delete", !.todo = Outermost(tx.deletes)]
    /\ UNCHANGED stages /\ Files /\ Bounds

\* The intent to remove t is durable before t is.
IntendDelete(t) ==
    /\ At("delete") /\ t \in op.todo
    /\ IF Verified(t, FALSE)
       THEN /\ tx' = Intended(t)
            /\ op' = [op EXCEPT !.pc = "remove", !.target = t]
            /\ UNCHANGED stages /\ Files
       ELSE Fail
    /\ Bounds

\* What has gone may be replaced now: from here on, absence proves nothing.
RetireIntents ==
    /\ At("delete") /\ op.todo = {}
    /\ IF \A t \in tx.pending : live[t] = Missing
       THEN /\ tx' = Armed({t \in tx.pending : IsFile(tx.after[t]) \/ PostFiles(t) # {}}, {})
            /\ op' = [op EXCEPT !.pc = "write", !.todo = Writes(tx.after),
                                !.fresh = DeletedWrites]
            /\ UNCHANGED stages /\ Files
       ELSE Fail
    /\ Bounds

MakeParent(t) ==
    /\ At("write") /\ t \in op.todo
    /\ \E p \in Parent(t) :
        /\ live[p] # Dir
        /\ IF live[p] = Missing /\ Verified(t, t \in op.fresh)
           THEN /\ live' = [live EXCEPT ![p] = Dir]
                /\ UNCHANGED <<tx, stages, op, installed>>
           ELSE Fail
    /\ Bounds

Install(t) ==
    /\ At("write") /\ t \in op.todo
    /\ \A p \in Parent(t) : live[p] = Dir
    /\ IF Verified(t, t \in op.fresh) /\ live[t] # Dir
       THEN /\ live' = [live EXCEPT ![t] = tx.after[t]]
            /\ installed' = installed \cup {t}
            /\ op' = [op EXCEPT !.todo = @ \ {t}, !.fresh = @ \ {t}]
            /\ UNCHANGED <<tx, stages>>
       ELSE Fail
    /\ Bounds

\* (slip) Cleanup starts without the completion being published.
CompleteInMemory ==
    /\ At("write") \/ At("restore")
    /\ op.todo = {}
    /\ op' = [op EXCEPT !.pc = "clean"]
    /\ UNCHANGED <<tx, stages>> /\ Files /\ Bounds

\* The files are accepted; what remains of the evidence permits cleanup only.
Complete ==
    /\ At("write") \/ At("restore")
    /\ op.todo = {}
    /\ tx' = [tx EXCEPT !.phase = "completed"]
    /\ op' = [op EXCEPT !.pc = "clean"]
    /\ UNCHANGED stages /\ Files /\ Bounds

\* The directory goes file by file; without its journal it is ignored.
RemoveBackup ==
    /\ At("clean") /\ tx.backup
    /\ tx' = [tx EXCEPT !.backup = FALSE]
    /\ UNCHANGED <<op, stages>> /\ Files /\ Bounds

RemoveTransaction ==
    /\ At("clean")
    /\ tx' = None
    /\ Stop
    /\ UNCHANGED stages /\ Files /\ Bounds

-----------------------------------------------------------------------------
(* removeOwnedTarget, for both: a directory goes file by file. *)

\* Nothing is left to do for t.
Done(t) ==
    /\ op' = [op EXCEPT !.pc = "restore", !.todo = @ \ {t}, !.fresh = {}, !.target = None]
    /\ stages' = stages \ {t}

AfterRemoval(t) == IF ~op.restoring THEN "delete" ELSE IF tx.before[t] = Missing THEN "restore" ELSE "arm"

Remove(t) ==
    /\ At("remove") /\ op.target = t
    /\ IF ~Verified(t, FALSE) THEN Fail
       ELSE IF op.restoring /\ IsBefore(t)
       THEN Done(t) /\ UNCHANGED tx /\ Files
       ELSE /\ op' = [op EXCEPT !.pc = "removing"]
            /\ UNCHANGED <<tx, stages>> /\ Files
    /\ Bounds

RemoveInside(t, x) ==
    /\ At("removing") /\ op.target = t
    /\ x \in Inside[t] /\ live[x] # Missing
    /\ live' = [live EXCEPT ![x] = Missing]
    /\ installed' = installed \ {x}
    /\ UNCHANGED <<tx, stages, op>> /\ Bounds

RemoveTop(t) ==
    /\ At("removing") /\ op.target = t
    /\ \A x \in Inside[t] : live[x] = Missing
    /\ live' = [live EXCEPT ![t] = Missing]
    /\ installed' = installed \ {t}
    /\ op' = [op EXCEPT !.pc = AfterRemoval(t),
                        !.todo = IF AfterRemoval(t) = "arm" THEN @ ELSE @ \ {t},
                        !.target = IF AfterRemoval(t) = "arm" THEN t ELSE None]
    /\ UNCHANGED <<tx, stages>> /\ Bounds

-----------------------------------------------------------------------------
(* restoreTransaction, and the recovery at the start of Pi or of a transfer. *)

BeginRecovery ==
    /\ At("idle") /\ tx # None
    /\ op' = IF tx.phase = "completed" THEN [Idle EXCEPT !.pc = "clean"]
             ELSE [Idle EXCEPT !.pc = "verify", !.restoring = TRUE]
    /\ UNCHANGED <<tx, stages>> /\ Files /\ Bounds

\* The whole group is recognised before any of it is touched.
VerifyGroup ==
    /\ At("verify")
    /\ IF \A t \in tx.entries : Verified(t, FALSE)
       THEN op' = [op EXCEPT !.pc = "unstage"] ELSE Stop
    /\ UNCHANGED <<tx, stages>> /\ Files /\ Bounds

\* (slip) Staging files of an earlier recovery stay.
KeepStages ==
    /\ At("unstage")
    /\ op' = [op EXCEPT !.pc = "restore", !.todo = tx.entries]
    /\ UNCHANGED <<tx, stages>> /\ Files /\ Bounds

RemoveStages ==
    /\ At("unstage")
    /\ stages' = stages \ tx.staged
    /\ op' = [op EXCEPT !.pc = "restore", !.todo = tx.entries]
    /\ UNCHANGED tx /\ Files /\ Bounds

\* Outer targets first; what has its old image needs nothing.
SkipRestored(t) ==
    /\ At("restore") /\ t \in Outermost(op.todo)
    /\ IsBefore(t)
    /\ op' = [op EXCEPT !.todo = @ \ {t}]
    /\ UNCHANGED <<tx, stages>> /\ Files /\ Bounds

\* A target that was not there is removed again.
IntendUndo(t) ==
    /\ At("restore") /\ t \in Outermost(op.todo)
    /\ ~IsBefore(t) /\ tx.before[t] = Missing
    /\ IF Verified(t, FALSE)
       THEN /\ tx' = Intended(t)
            /\ op' = [op EXCEPT !.pc = "remove", !.target = t]
            /\ UNCHANGED stages /\ Files
       ELSE Fail
    /\ Bounds

\* The right to the staging path is durable before anything is put there.
ClaimStage(t) ==
    /\ At("restore") /\ t \in Outermost(op.todo)
    /\ ~IsBefore(t) /\ tx.before[t] # Missing
    /\ IF Verified(t, FALSE) /\ (t \in stages => t \in tx.staged)
       THEN /\ tx' = [tx EXCEPT !.staged = @ \cup {t}]
            /\ op' = [op EXCEPT !.pc = "stage", !.target = t]
            /\ UNCHANGED stages /\ Files
       ELSE Fail
    /\ Bounds

Stage(t) ==
    /\ At("stage") /\ op.target = t
    /\ IF \E p \in Parent(t) : IsFile(live[p]) THEN Fail
       ELSE /\ stages' = stages \cup {t}
            /\ live' = [x \in Target |-> IF x \in Parent(t) THEN Dir ELSE live[x]]
            /\ op' = [op EXCEPT !.pc = "staged"]
            /\ UNCHANGED <<tx, installed>>
    /\ Bounds

\* A directory, before or now, is removed before the old image is installed.
IntendRestore(t) ==
    /\ At("staged") /\ op.target = t
    /\ IF ~Verified(t, FALSE) THEN Fail
       ELSE /\ IF IsBefore(t)
               THEN Done(t) /\ UNCHANGED tx
               ELSE IF Dir \in {tx.before[t], live[t]}
               THEN /\ tx' = Intended(t)
                    /\ op' = [op EXCEPT !.pc = "remove"]
                    /\ UNCHANGED stages
               ELSE /\ op' = [op EXCEPT !.pc = "arm"]
                    /\ UNCHANGED <<tx, stages>>
            /\ Files
    /\ Bounds

\* A directory comes back to an empty place only.
ArmRestore(t) ==
    /\ At("arm") /\ op.target = t
    /\ IF ~Verified(t, FALSE) \/ (tx.before[t] = Dir /\ live[t] # Missing) THEN Fail
       ELSE /\ IF IsBefore(t)
               THEN Done(t) /\ UNCHANGED tx
               ELSE /\ tx' = Armed({t}, Inside[t])
                    /\ op' = [op EXCEPT !.pc = "install",
                                       !.fresh = IF live[t] = Missing THEN {t} ELSE {}]
                    /\ UNCHANGED stages
            /\ Files
    /\ Bounds

InstallBefore(t) ==
    /\ At("install") /\ op.target = t
    /\ IF Verified(t, t \in op.fresh) /\ (live[t] = Dir => IsBefore(t))
          /\ \A p \in Parent(t) : live[p] = Dir
       THEN /\ live' = [x \in Target |-> IF x \in Below(t) THEN tx.before[x] ELSE live[x]]
            /\ installed' = (installed \ Inside[t]) \cup {t}
            /\ Done(t)
            /\ UNCHANGED tx
       ELSE Fail
    /\ Bounds

-----------------------------------------------------------------------------
(* The environment. *)

\* Pi's own tools wait for the file queues of a transaction; other programs
\* do not.
MayEdit(t) ==
    /\ edits < MaxEdit
    /\ At("idle") \/ At("prepare")
          \/ (ExternalWriters /\ ~(At("removing") /\ t \in Below(op.target)))

Edited(t) ==
    /\ edits' = edits + 1 /\ touched' = touched \cup Below(t) \cup Parent(t)
    /\ installed' = installed \ Below(t)
    /\ UNCHANGED <<tx, stages, op, applies, faults>>

WriteFile(t, v) ==
    /\ MayEdit(t)
    /\ live[t] \notin {v, Dir} /\ \A p \in Parent(t) : live[p] = Dir
    /\ live' = [live EXCEPT ![t] = v]
    /\ gone' = gone \ Below(t) /\ unclear' = unclear \ Below(t)
    /\ Edited(t)

DeleteFile(t) ==
    /\ MayEdit(t)
    /\ live[t] # Missing
    /\ live' = [x \in Target |-> IF x \in Below(t) THEN Missing ELSE live[x]]
    /\ gone' = gone \cup (Below(t) \cap installed)
    /\ unclear' = unclear \cup
           {x \in Below(t) \cap gone' : tx # None /\ tx.pending \cap {t, x} # {}}
    /\ Edited(t)

Fault == faults < MaxFault /\ faults' = faults + 1

\* A full disk, a file in use: the step fails, the run goes on.
IOError ==
    /\ op.pc \notin {"idle", "prepare", "publish", "clean"}
    /\ Fault /\ Fail
    /\ UNCHANGED <<applies, edits, touched, gone, unclear>>

\* A crash, or the session closes.  A backup without a journal is ignored.
Crash ==
    /\ ~At("idle")
    /\ Fault /\ Stop
    /\ tx' = IF tx.phase = "planned" THEN None ELSE tx
    /\ UNCHANGED <<live, stages, installed, applies, edits, touched, gone, unclear>>

-----------------------------------------------------------------------------
ApplyStep ==
    \/ Prepare \/ PublishJournal \/ RetireIntents
    \/ \E t \in Target : IntendDelete(t) \/ MakeParent(t) \/ Install(t)
    \/ Complete \/ RemoveBackup \/ RemoveTransaction

RemoveStep ==
    \E t \in Target : Remove(t) \/ RemoveTop(t) \/ \E x \in Inside[t] : RemoveInside(t, x)

RestoreStep ==
    \/ BeginRecovery \/ VerifyGroup \/ RemoveStages
    \/ \E t \in Target :
        \/ SkipRestored(t) \/ IntendUndo(t) \/ ClaimStage(t) \/ Stage(t)
        \/ IntendRestore(t) \/ ArmRestore(t) \/ InstallBefore(t)

TransactionStep == ApplyStep \/ RemoveStep \/ RestoreStep

UserStep == \E t \in Target : DeleteFile(t) \/ \E v \in Content : WriteFile(t, v)

Next ==
    \/ \E after \in Snapshots : Plan(after)
    \/ TransactionStep
    \/ UserStep
    \/ IOError \/ Crash

Spec == Init /\ [][Next]_vars

\* A transaction that runs goes on, and Pi is started again after a crash.
LiveSpec == Spec /\ WF_vars(TransactionStep)

-----------------------------------------------------------------------------
Phase == {"idle", "prepare", "publish", "delete", "remove", "removing", "write", "clean", "verify",
          "unstage", "restore", "stage", "staged", "arm", "install"}

Transaction ==
    [phase : {"planned", "open", "completed"}, backup : BOOLEAN, before : [Target -> Node],
     after : [Target -> Node], deletes : SUBSET Target, entries : SUBSET Target, pending : SUBSET Target,
     started : SUBSET Target, staged : SUBSET Target]

\* The absence of a transaction is none of them.
ASSUME NoneAssumption == None \notin Transaction

\* Every variable keeps its type, the files stay a tree, and no target is both
\* about to be removed and being replaced (validateJournal refuses such a
\* journal).
TypeOK ==
    /\ live \in Trees
    /\ tx \in Transaction \cup {None}
    /\ tx # None => tx.pending \cap tx.started = {} /\ tx.pending \cup tx.started \subseteq tx.entries
    /\ stages \subseteq Target
    /\ op.pc \in Phase /\ op.todo \subseteq Target /\ op.fresh \subseteq Target
    /\ op.target \in Target \cup {None} /\ op.restoring \in BOOLEAN
    /\ applies \in 0 .. MaxApply /\ edits \in 0 .. MaxEdit /\ faults \in 0 .. MaxFault
    /\ touched \subseteq Target /\ installed \subseteq Target
    /\ gone \subseteq Target /\ unclear \subseteq gone

\* A transaction that ends leaves all its targets as the snapshot has them, or
\* all as they were, the ones edited meanwhile apart.
EndsWhole ==
    [][tx # None /\ tx' = None /\ tx.phase # "planned" =>
           LET untouched == tx.entries \ touched
           IN  \/ \A t \in untouched : live[t] = tx.after[t]
               \/ \A t \in untouched : live[t] = tx.before[t]]_vars

\* What a path holds for whoever counts on the transaction: in the group what a
\* recovery would bring back, elsewhere what is there.
Text(n) == IF IsFile(n) THEN n ELSE Missing
Texts(fs) == [t \in Target |-> Text(fs[t])]
Replacing == tx # None /\ tx.phase = "open"
Group == IF Replacing THEN UNION {Below(t) : t \in tx.entries \ touched} ELSE {}
Promised == [t \in Target |-> Text(IF t \in Group THEN tx.before[t] ELSE live[t])]

Replacement ==
    IF Replacing
    THEN [old |-> Texts(tx.before), new |-> Texts(tx.after),
          scope |-> UNION {Below(t) : t \in tx.entries}, group |-> Group]
    ELSE None

Promise == INSTANCE GroupReplacement
               WITH Path <- Target, Absent <- Missing, files <- Promised, job <- Replacement

\* The absence of a replacement is none of them either.
ASSUME NoReplacementAssumption == None \notin Promise!Jobs

\* A transaction replaces its group in one step, as a recovery would find it,
\* or leaves it as it was, and changes nothing outside its scope: through
\* errors, crashes, rollbacks and the writes of other programs.
ImplementsGroupReplacement == Promise!Spec

\* Bytes that are neither those of the backup nor those of the snapshot are
\* never replaced or removed (verifyTarget).
UnrecognisedBytesStand ==
    [][edits' = edits =>
           \A t \in Target : IsFile(live[t]) /\ live'[t] # live[t] =>
               live[t] \in {tx.before[t], tx.after[t]}]_vars

\* README.md:336 of pi-sync: "a later deletion of installed content is not
\* treated as an unfinished remove".
InstalledDeletionStands ==
    [][edits' = edits => \A t \in gone : live'[t] = live[t]]_vars

\* What the transaction installed and a user then deleted stays deleted, unless
\* a rollback had already declared that it would remove it (replacementStarted).
ArmedDeletionStands ==
    [][tx # None /\ edits' = edits => \A t \in gone \ unclear : live'[t] = live[t]]_vars

\* A staging file is claimed by the journal of a transaction that still exists.
NoStrayStage == stages \subseteq (IF tx = None THEN {} ELSE tx.staged)

-----------------------------------------------------------------------------
\* What no rule can read: a target somebody edited, one that is missing since
\* its replacement was armed, a directory neither as it was nor as it will be.
NeedsReview ==
    \E t \in tx.entries :
        /\ ~IsBefore(t)
        /\ \/ t \in touched
           \/ live[t] = Missing /\ t \in tx.started
           \/ live[t] = Dir /\ Image(live, t) # Image(tx.after, t)

\* Every transaction ends, at the latest after Pi has been started again, or
\* keeps its evidence for one of these reasons.
EventuallyEnds == <>[](tx = None \/ NeedsReview)

=============================================================================
