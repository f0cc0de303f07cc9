-------------------- MODULE SnapshotTransaction_proofs --------------------
(***************************************************************************)
(* What the transaction of a snapshot guarantees for every tree of files,  *)
(* and for any number of edits, failures and crashes: a group ends whole,  *)
(* no staging file is left without its claim, bytes that belong to neither *)
(* image are left alone, what a user deletes stays deleted; and the whole  *)
(* is the replacement of a group in one step (GroupReplacement).           *)
(***************************************************************************)
EXTENDS SnapshotTransaction, TLAPS

-----------------------------------------------------------------------------
(* The invariant.  It follows one run through its phases. *)

Operation ==
    [pc : Phase, todo : SUBSET Target, fresh : SUBSET Target, target : Target \cup {None},
     restoring : BOOLEAN]

\* The phases with a journal that neither accepts nor ignores the files, and
\* those in which a target has been chosen.
Applying == {"prepare", "publish", "delete", "write"}
Undoing == {"verify", "unstage", "restore", "stage", "staged", "arm", "install"}
Aiming == {"remove", "removing", "stage", "staged", "arm", "install"}
Open == {"delete", "write", "remove", "removing"} \cup Undoing

\* The journal is as validateJournal wants it, and the run is where the phase
\* of the journal admits it.
Shape ==
    /\ op \in Operation
    /\ tx # None => /\ tx.before \in Trees /\ tx.after \in Snapshots
                    /\ tx.entries = Writes(tx.after) \cup tx.deletes
                    /\ op.todo \subseteq tx.entries
    /\ ~At("idle") => tx # None
    /\ At("idle") /\ tx # None => tx.phase # "planned"
    /\ At("prepare") \/ At("publish") => tx.phase = "planned"
    /\ At("clean") => tx.phase = "completed"
    /\ op.pc \in Open => tx.phase = "open"
    /\ op.pc \in Aiming => op.target \in op.todo
    /\ op.pc \in Applying => ~op.restoring
    /\ op.pc \in Undoing => op.restoring

\* Staging files exist only while their target is restored, or since a
\* recovery was interrupted.
Staging ==
    /\ NoStrayStage
    /\ tx # None /\ (tx.phase # "open" \/ op.pc \in {"restore", "stage"}) => stages = {}
    /\ ~At("idle") /\ ~op.restoring => stages = {}
    /\ op.pc \in Aiming => /\ stages \subseteq {op.target}
                           /\ tx.before[op.target] = Missing => stages = {}

Untouched == tx.entries \ touched

\* Outer targets are restored first; what is no longer to be done is done.
Restored ==
    op.restoring /\ op.pc \in Aiming \cup {"restore"} =>
        /\ \A t \in Untouched \ op.todo : live[t] = tx.before[t]
        /\ \A t \in op.todo : Inside[t] \cap tx.entries \subseteq op.todo
        /\ op.pc \in Aiming => Parent(op.target) \cap op.todo = {}
        /\ At("stage") => tx.before[op.target] # Missing /\ op.target \in tx.staged

\* What is to be removed has been declared, or will be, by itself or with the
\* directory around it.
Declared(t, todo) == t \in tx.pending \/ ({t} \cup Parent(t)) \cap todo # {}

Deleted ==
    /\ At("delete") => \A t \in tx.deletes : Declared(t, op.todo)
    /\ op.pc \in {"remove", "removing"} /\ ~op.restoring =>
           \A t \in tx.deletes : Declared(t, op.todo \ {op.target})

\* What is no longer to be written holds its new content, and what was removed
\* is a directory again only where the snapshot has one.
Written ==
    At("write") =>
        /\ op.todo \subseteq Writes(tx.after)
        /\ \A t \in Writes(tx.after) \ (op.todo \cup touched) : live[t] = tx.after[t]
        /\ \A t \in Untouched \ Writes(tx.after) :
               live[t] = Missing \/ (live[t] = Dir /\ tx.after[t] = Dir)

\* Who edits a file touches the directory around it.
Touched == \A t \in touched : Parent(t) \subseteq touched

Whole ==
    \/ \A t \in Untouched : live[t] = tx.after[t]
    \/ \A t \in Untouched : live[t] = tx.before[t]

Accepted == tx # None /\ tx.phase = "completed" => Whole

\* A directory is emptied only after all that is in it was recognised.
Seen ==
    At("removing") =>
        \A x \in Below(op.target) :
            IsFile(live[x]) => live[x] \in {tx.before[x], tx.after[x]}

IInv ==
    /\ TypeOK /\ Shape /\ Staging /\ Restored /\ Deleted /\ Written /\ Touched
    /\ Accepted /\ Seen

USE NodeAssumption, NoneAssumption

-----------------------------------------------------------------------------
(* Trees. *)

LEMMA OneParent ==
    ASSUME NEW t \in Target, NEW p \in Parent(t)
    PROVE  p \in Target /\ t \in Inside[p] /\ Parent(p) = {} /\ Parent(t) = {p} /\ Inside[t] = {}
           /\ p # t
  BY TreeAssumption DEF Parent

\* One path changes, where it may.
LEMMA TreeSet ==
    ASSUME NEW fs \in Trees, NEW t \in Target, NEW v \in Node,
           v # Missing => \A p \in Parent(t) : fs[p] = Dir,
           v # Dir => \A x \in Inside[t] : fs[x] = Missing
    PROVE  [fs EXCEPT ![t] = v] \in Trees
<1> DEFINE g == [fs EXCEPT ![t] = v]
<1>1. fs \in [Target -> Node] BY DEF Trees
<1>2. g \in [Target -> Node] BY <1>1
<1>3. ASSUME NEW s \in Target, g[s] # Dir, NEW x \in Inside[s] PROVE g[x] = Missing
  <2>1. x \in Target /\ x # s BY TreeAssumption
  <2>2. CASE x = t
    <3>1. s \in Parent(t) BY <2>2 DEF Parent
    <3>2. fs[s] # Dir BY <1>1, <1>3, <2>1, <2>2
    <3> QED BY <1>1, <2>2, <3>1, <3>2
  <2>3. CASE s = t
    BY <1>1, <1>3, <2>1, <2>3
  <2>4. CASE x # t /\ s # t
    BY <1>1, <1>3, <2>1, <2>4 DEF Trees
  <2> QED BY <2>2, <2>3, <2>4
<1> QED BY <1>2, <1>3 DEF Trees

\* A path and what is inside it come from another tree, where they may.
LEMMA TreeGraft ==
    ASSUME NEW fs \in Trees, NEW gs \in Trees, NEW t \in Target,
           gs[t] # Missing => \A p \in Parent(t) : fs[p] = Dir
    PROVE  [x \in Target |-> IF x \in Below(t) THEN gs[x] ELSE fs[x]] \in Trees
<1> DEFINE g == [x \in Target |-> IF x \in Below(t) THEN gs[x] ELSE fs[x]]
<1>1. fs \in [Target -> Node] /\ gs \in [Target -> Node] BY DEF Trees
<1>2. g \in [Target -> Node] BY <1>1
<1>3. ASSUME NEW s \in Target, g[s] # Dir, NEW x \in Inside[s] PROVE g[x] = Missing
  <2>1. x \in Target /\ s \in Parent(x) BY TreeAssumption DEF Parent
  <2>2. Inside[x] = {} /\ Parent(s) = {} /\ Parent(x) = {s} /\ x # s BY <2>1, OneParent
  <2>3. CASE s = t
    <3>1. x \in Below(t) /\ t \in Below(t) BY <2>3 DEF Below
    <3> QED BY <1>3, <2>1, <2>3, <3>1 DEF Trees
  <2>4. CASE s # t /\ x = t
    <3>1. s \notin Below(t) /\ x \in Below(t) BY <2>2, <2>4 DEF Below
    <3>2. fs[s] # Dir BY <1>3, <3>1
    <3> QED BY <2>1, <2>4, <3>1, <3>2
  <2>5. CASE s # t /\ x # t
    <3>1. s \notin Inside[t]
      BY <2>2 DEF Parent
    <3>2. x \notin Inside[t]
      BY <2>2, <2>5 DEF Parent
    <3>3. s \notin Below(t) /\ x \notin Below(t) BY <2>5, <3>1, <3>2 DEF Below
    <3> QED BY <1>3, <2>1, <3>3 DEF Trees
  <2> QED BY <2>3, <2>4, <2>5
<1> QED BY <1>2, <1>3 DEF Trees

\* Directories are made for what will be inside them.
LEMMA TreeGrow ==
    ASSUME NEW fs \in Trees, NEW ts \in SUBSET Target,
           \A p \in ts : Parent(p) = {} \/ fs[p] = Dir
    PROVE  [x \in Target |-> IF x \in ts THEN Dir ELSE fs[x]] \in Trees
<1> DEFINE g == [x \in Target |-> IF x \in ts THEN Dir ELSE fs[x]]
<1>1. fs \in [Target -> Node] /\ Dir \in Node BY DEF Trees, Node
<1>2. g \in [Target -> Node] BY <1>1
<1>3. ASSUME NEW s \in Target, g[s] # Dir, NEW x \in Inside[s] PROVE g[x] = Missing
  <2>1. x \in Target /\ s \in Parent(x) BY TreeAssumption DEF Parent
  <2>2. fs[s] # Dir /\ s \notin ts BY <1>3
  <2>3. fs[x] = Missing BY <2>1, <2>2, <1>3 DEF Trees
  <2>4. x \notin ts BY <2>1, <2>3
  <2> QED BY <2>1, <2>3, <2>4
<1> QED BY <1>2, <1>3 DEF Trees

LEMMA NothingIsATree == [x \in Target |-> Missing] \in Trees
<1>1. Missing \in Node BY DEF Node
<1>2. \A t \in Target : Inside[t] \subseteq Target BY TreeAssumption
<1> QED BY <1>1, <1>2 DEF Trees

-----------------------------------------------------------------------------
(* The journal. *)

GoodJournal(j) ==
    /\ j \in Transaction /\ j # None
    /\ j.pending \cap j.started = {} /\ j.pending \cup j.started \subseteq j.entries
    /\ j.before \in Trees /\ j.after \in Snapshots
    /\ j.entries = Writes(j.after) \cup j.deletes

\* All but what is intended and claimed.
SamePlan(j, k) ==
    /\ j.phase = k.phase /\ j.backup = k.backup
    /\ j.before = k.before /\ j.after = k.after
    /\ j.deletes = k.deletes /\ j.entries = k.entries

LEMMA JournalIsGood == ASSUME IInv, tx # None PROVE GoodJournal(tx)
  BY DEF IInv, TypeOK, Shape, GoodJournal

LEMMA IntendedIsGood ==
    ASSUME GoodJournal(tx), NEW t \in Target
    PROVE  /\ GoodJournal(Intended(t)) /\ SamePlan(Intended(t), tx)
           /\ Intended(t).staged = tx.staged
           /\ Intended(t).pending = tx.pending \cup (Below(t) \cap tx.entries)
           /\ Intended(t).started = tx.started \ (Below(t) \cap tx.entries)
<1> DEFINE a == Below(t) \cap tx.entries
           j == Intended(t)
<1>1. a \subseteq tx.entries OBVIOUS
<1>2. tx \in Transaction BY DEF GoodJournal
<1>3. /\ j.pending = tx.pending \cup a /\ j.started = tx.started \ a
      /\ j.staged = tx.staged /\ SamePlan(j, tx)
  BY <1>2 DEF Intended, Transaction, SamePlan
<1>4. j \in Transaction BY <1>1, <1>2 DEF Intended, Transaction
<1> QED
  <2> HIDE DEF j
  <2>1. j # None BY <1>4
  <2>2. GoodJournal(j) BY <1>1, <1>3, <1>4, <2>1 DEF GoodJournal, SamePlan
  <2> QED BY <1>3, <2>2 DEF j

LEMMA ArmedIsGood ==
    ASSUME GoodJournal(tx), NEW ts \in SUBSET tx.entries, NEW within
    PROVE  /\ GoodJournal(Armed(ts, within)) /\ SamePlan(Armed(ts, within), tx)
           /\ Armed(ts, within).staged = tx.staged
           /\ Armed(ts, within).pending = (tx.pending \ within) \ ts
           /\ Armed(ts, within).started = (tx.started \ within) \cup ts
<1> DEFINE j == Armed(ts, within)
<1>1. tx \in Transaction BY DEF GoodJournal
<1>2. /\ j.pending = (tx.pending \ within) \ ts /\ j.started = (tx.started \ within) \cup ts
      /\ j.staged = tx.staged /\ SamePlan(j, tx)
  BY <1>1 DEF Armed, Transaction, SamePlan
<1>3. ts \subseteq Target BY <1>1 DEF Transaction
<1>4. j \in Transaction BY <1>1, <1>3 DEF Armed, Transaction
<1> QED
  <2> HIDE DEF j
  <2>1. j # None BY <1>4
  <2>2. GoodJournal(j) BY <1>2, <1>4, <2>1 DEF GoodJournal, SamePlan
  <2> QED BY <1>2, <2>2 DEF j

\* The trees of the invariant are functions, and one of a file and what is
\* inside it exists.
LEMMA TreeFacts ==
    ASSUME NEW fs \in Trees, NEW t \in Target
    PROVE  /\ fs \in [Target -> Node] /\ fs[t] \in Node
           /\ fs[t] # Dir => \A x \in Inside[t] : fs[x] = Missing
           /\ \A p \in Parent(t) : fs[t] # Missing => fs[p] = Dir
  BY DEF Trees, Parent

-----------------------------------------------------------------------------
(* An error ends a run that restores, and makes any other one restore. *)

LEMMA FailGood ==
    ASSUME IInv, op.pc \in Open, Fail, faults' \in 0 .. MaxFault,
           UNCHANGED <<applies, edits, touched, gone, unclear>>
    PROVE  IInv'
<1>1. tx # None /\ tx.phase = "open" BY DEF IInv, Shape, Open, Undoing, At
<1>2. /\ (op'.pc = "idle" /\ op'.restoring = FALSE) \/ (op'.pc = "verify" /\ op'.restoring = TRUE)
      /\ op' \in Operation /\ op'.todo = {} /\ op'.fresh = {} /\ op'.target = None
  BY DEF Fail, Idle, Operation, Phase
<1>3. UNCHANGED <<live, tx, installed>> /\ stages' \subseteq stages BY DEF Fail
<1>4. TypeOK' BY <1>2, <1>3 DEF IInv, TypeOK, Phase
<1>5. Shape' BY <1>1, <1>2, <1>3 DEF IInv, Shape, Applying, Undoing, Aiming, Open, At
<1>6. Staging'
  BY <1>1, <1>2, <1>3 DEF Fail, IInv, Shape, Staging, NoStrayStage, Aiming, Undoing, Applying,
     Open, At
<1>7. Restored' /\ Deleted' /\ Written' /\ Seen'
  BY <1>2 DEF Restored, Deleted, Written, Seen, Aiming, At
<1>8. Touched' /\ Accepted' BY <1>1, <1>3 DEF IInv, Touched, Accepted
<1> QED BY <1>4, <1>5, <1>6, <1>7, <1>8 DEF IInv

LEMMA FailStays == ASSUME IInv, op.pc \in Open, Fail, Bounds PROVE IInv'
<1>1. faults \in 0 .. MaxFault BY DEF IInv, TypeOK
<1> QED BY <1>1, FailGood DEF Bounds

-----------------------------------------------------------------------------
(* What the steps of a run have in common. *)

LEMMA OpenGood ==
    ASSUME IInv, live' \in Trees, GoodJournal(tx'), tx'.phase = "open",
           op' \in Operation, op'.pc \in Open, op'.todo \subseteq tx'.entries,
           op'.pc \in Aiming => op'.target \in op'.todo,
           op'.pc \in {"delete", "write"} => ~op'.restoring,
           op'.pc \in Undoing => op'.restoring,
           stages' \subseteq Target, installed' \subseteq Target, Bounds
    PROVE  TypeOK' /\ Shape' /\ Accepted' /\ Touched'
<1>1. UNCHANGED <<applies, edits, faults, touched, gone, unclear>> BY DEF Bounds
<1>2. TypeOK' BY <1>1 DEF IInv, TypeOK, GoodJournal, Operation
<1>3. Shape' BY DEF Shape, GoodJournal, Open, Undoing, Applying, At
<1>4. Accepted' /\ Touched' BY <1>1 DEF IInv, Accepted, Touched
<1> QED BY <1>2, <1>3, <1>4

\* The bytes of a recognised target are those of the one image or the other.
LEMMA VerifiedIsSeen ==
    ASSUME IInv, tx # None, NEW t \in Target, NEW mine, Verified(t, mine)
    PROVE  \A x \in Below(t) : IsFile(live[x]) => live[x] \in {tx.before[x], tx.after[x]}
<1> SUFFICES ASSUME NEW x \in Below(t), IsFile(live[x])
             PROVE  live[x] \in {tx.before[x], tx.after[x]}
  OBVIOUS
<1>1. live \in Trees BY DEF IInv, TypeOK
<1>2. live[x] # Missing /\ live[x] # Dir BY DEF IsFile
<1>3. CASE IsBefore(t)
  BY <1>3 DEF IsBefore, Image
<1>4. CASE Removed(t, mine)
  BY <1>1, <1>2, <1>4, TreeFacts DEF Removed, Below
<1>5. CASE IsAfter(t) /\ live[t] = Dir
  <2>1. OwnedPostTree(t, t \in tx.started \/ t \notin tx.pending) BY <1>5 DEF IsAfter, IsFile
  <2>2. x \in Inside[t] BY <1>2, <1>5 DEF Below
  <2> QED BY <1>2, <2>1, <2>2 DEF OwnedPostTree
<1>6. CASE IsAfter(t) /\ live[t] # Dir
  <2>1. x = t BY <1>1, <1>2, <1>6, TreeFacts DEF Below
  <2>2. live[t] = tx.after[t] BY <1>6 DEF IsAfter, OwnedPostTree
  <2> QED BY <2>1, <2>2
<1> QED BY <1>3, <1>4, <1>5, <1>6 DEF Verified

LEMMA AimFacts ==
    ASSUME IInv, op.pc \in Open
    PROVE  /\ GoodJournal(tx) /\ tx # None /\ tx.phase = "open" /\ op \in Operation /\ live \in Trees
           /\ live \in [Target -> Node] /\ tx.entries \subseteq Target /\ op.todo \subseteq tx.entries
           /\ op.pc \in Aiming => /\ op.target \in op.todo /\ op.target \in Target
                                  /\ stages \subseteq {op.target}
<1>1. tx # None /\ tx.phase = "open" /\ op \in Operation BY DEF IInv, Shape, Open, Undoing, At
<1>2. GoodJournal(tx) BY <1>1, JournalIsGood
<1>3. live \in Trees /\ live \in [Target -> Node] BY DEF IInv, TypeOK, Trees
<1>4. tx.entries \subseteq Target BY <1>2 DEF GoodJournal, Transaction
<1>5. op.todo \subseteq tx.entries BY <1>1 DEF IInv, Shape
<1>6. op.pc \in Aiming => op.target \in op.todo /\ stages \subseteq {op.target}
  BY DEF IInv, Shape, Staging
<1> QED BY <1>1, <1>2, <1>3, <1>4, <1>5, <1>6

LEMMA BeforeIsBefore == ASSUME NEW t \in Target, IsBefore(t) PROVE live[t] = tx.before[t]
  BY DEF IsBefore, Image, Below

\* A target that has its old image again leaves the work to the others.
LEMMA DoneGood ==
    ASSUME IInv, op.pc \in Aiming, op.restoring, NEW t \in Target, op.target = t, Done(t),
           tx' = tx, live' \in Trees, live'[t] = tx.before[t],
           \A s \in Untouched \ op.todo : live'[s] = tx.before[s],
           installed' \subseteq Target, Bounds
    PROVE  IInv'
<1>0. op.pc \in Open BY DEF Aiming, Open, Undoing
<1>1. op' = [op EXCEPT !.pc = "restore", !.todo = @ \ {t}, !.fresh = {}, !.target = None]
  BY DEF Done
<1>2. /\ op'.pc = "restore" /\ op'.todo = op.todo \ {t} /\ op'.restoring = op.restoring
      /\ op' \in Operation
  BY <1>0, <1>1, AimFacts DEF Operation, Phase
<1>3. stages' = {} BY <1>0, AimFacts DEF Done
<1>4. TypeOK' /\ Shape' /\ Accepted' /\ Touched'
  BY <1>0, <1>2, <1>3, AimFacts, OpenGood DEF Open, Undoing, Aiming
<1>5. Staging' BY <1>3 DEF Staging, NoStrayStage
<1>6. Restored'
  <2>1. Parent(t) \cap op.todo = {} BY DEF IInv, Restored
  <2>2. \A s \in Target : t \in Inside[s] => s \in Parent(t) BY DEF Parent
  <2>3. touched' = touched BY DEF Bounds
  <2> QED BY <1>0, <1>2, <2>1, <2>2, <2>3, AimFacts DEF IInv, Restored, Untouched, Aiming, At
<1>7. Deleted' /\ Written' /\ Seen' BY <1>2 DEF Deleted, Written, Seen, At
<1> QED BY <1>4, <1>5, <1>6, <1>7 DEF IInv

\* Who edits files between two steps of a run changes what is his own from
\* then on.
LEMMA EditGood ==
    ASSUME IInv, NEW t \in Target, Edited(t), edits < MaxEdit, live' \in Trees,
           \A s \in Target \ Below(t) : live'[s] = live[s],
           tx' = tx, gone' \subseteq Target, unclear' \subseteq gone',
           At("removing") => \A x \in Below(op.target) : live'[x] \in {live[x], Missing}
    PROVE  IInv'
<1>1. /\ edits' = edits + 1 /\ touched' = touched \cup Below(t) \cup Parent(t)
      /\ installed' = installed \ Below(t)
      /\ UNCHANGED <<stages, op, applies, faults>>
  BY DEF Edited
<1>2. Below(t) \subseteq Target /\ Parent(t) \subseteq Target BY TreeAssumption DEF Below, Parent
<1>3. edits' \in 0 .. MaxEdit BY <1>1, BoundAssumption DEF IInv, TypeOK
<1>4. TypeOK' BY <1>1, <1>2, <1>3 DEF IInv, TypeOK
<1>5. Shape' BY <1>1 DEF IInv, Shape, At
<1>6. Staging' BY <1>1 DEF IInv, Staging, NoStrayStage, At
<1>7. \A s \in Untouched' : s \in Untouched /\ s \notin Below(t)
  BY <1>1 DEF Untouched
<1>8. ASSUME tx # None, NEW s \in Untouched' PROVE s \in Untouched /\ live'[s] = live[s]
  <2>1. s \in Target BY <1>8, <1>7, JournalIsGood DEF GoodJournal, Transaction, Untouched
  <2> QED BY <1>7, <1>8, <2>1
<1>9. Restored'
  <2>1. SUFFICES ASSUME op.restoring, op.pc \in Aiming \cup {"restore"} PROVE Restored'
    BY <1>1 DEF Restored
  <2>2. tx # None BY <2>1 DEF IInv, Shape, Aiming, At
  <2> QED BY <1>1, <1>8, <2>1, <2>2 DEF IInv, Restored, At
<1>10. Deleted' BY <1>1 DEF IInv, Deleted, Declared, At
<1>11. Written'
  <2>1. SUFFICES ASSUME At("write") PROVE Written' BY <1>1 DEF Written, At
  <2>2. tx # None BY <2>1 DEF IInv, Shape, At
  <2>3. Writes(tx.after) \subseteq tx.entries BY <2>2 DEF IInv, Shape
  <2>4. ASSUME NEW s \in Writes(tx.after) \ (op.todo \cup touched') PROVE live'[s] = tx.after[s]
    <3>1. s \in Untouched' BY <1>1, <2>3, <2>4 DEF Untouched
    <3>2. live'[s] = live[s] /\ s \notin touched BY <1>8, <2>2, <3>1 DEF Untouched
    <3> QED BY <2>1, <2>4, <3>2 DEF IInv, Written
  <2> QED BY <1>1, <1>8, <2>1, <2>2, <2>4 DEF IInv, Written, At
<1>12. Touched'
  <2>1. ASSUME NEW x \in Below(t) \cup Parent(t) PROVE Parent(x) \subseteq Below(t) \cup Parent(t)
    <3>1. CASE x = t BY <3>1
    <3>2. CASE x \in Inside[t]
      <4>1. x \in Target /\ t \in Parent(x) BY <3>2, <1>2 DEF Below, Parent
      <4> QED BY <4>1, OneParent DEF Below
    <3>3. CASE x \in Parent(t) BY <3>3, OneParent
    <3> QED BY <3>1, <3>2, <3>3 DEF Below
  <2> QED BY <1>1, <2>1 DEF IInv, Touched
<1>13. Accepted'
  <2>1. SUFFICES ASSUME tx # None, tx.phase = "completed" PROVE Whole' BY DEF Accepted
  <2>2. Whole BY <2>1 DEF IInv, Accepted
  <2> QED BY <1>8, <2>1, <2>2 DEF Whole
<1>14. Seen'
  BY <1>1 DEF IInv, Seen, At, IsFile
<1> QED BY <1>4, <1>5, <1>6, <1>9, <1>10, <1>11, <1>12, <1>13, <1>14 DEF IInv

LEMMA PlanGood == ASSUME IInv, NEW after \in Snapshots, Plan(after) PROVE IInv'
<1> DEFINE ts == {p \in UNION {Parent(t) : t \in Writes(after)} : live[p] = Missing}
           deletes == Deletes(live, after)
<1>1. /\ live \in Trees /\ live \in [Target -> Node] /\ tx = None
      /\ after \in Trees /\ stages = {}
  BY DEF Plan, IInv, TypeOK, Staging, NoStrayStage, Trees, Snapshots
<1>2. /\ ts \subseteq Target /\ \A p \in ts : Parent(p) = {}
      /\ Writes(after) \subseteq Target /\ deletes \subseteq Target
  BY OneParent, ManagedAssumption DEF Writes, Deletes, Parent
<1>3. live' = [x \in Target |-> IF x \in ts THEN Dir ELSE live[x]]
  BY <1>1, <1>2 DEF Plan
<1>4. live' \in Trees BY <1>1, <1>2, <1>3, TreeGrow
<1>5. /\ tx' = [phase |-> "planned", backup |-> TRUE, before |-> live, after |-> after,
                deletes |-> deletes, entries |-> Writes(after) \cup deletes,
                pending |-> {}, started |-> {}, staged |-> {}]
      /\ op' = [Idle EXCEPT !.pc = "prepare"]
      /\ applies' = applies + 1 /\ applies < MaxApply
      /\ touched' = {} /\ installed' = {} /\ gone' = {} /\ unclear' = {}
      /\ UNCHANGED <<stages, edits, faults>>
  BY DEF Plan
<1> HIDE DEF ts, deletes
<1>6. after \in [Target -> Node] BY <1>1 DEF Trees
<1>7. tx' \in Transaction /\ tx'.phase = "planned" /\ tx'.before = live /\ tx'.after = after
      /\ tx'.entries = Writes(after) \cup tx'.deletes /\ tx'.pending = {} /\ tx'.started = {}
  BY <1>1, <1>2, <1>5, <1>6 DEF Transaction
<1>8. tx' # None BY <1>7
<1>9. /\ op'.pc = "prepare" /\ op'.restoring = FALSE
      /\ op' \in Operation /\ op'.todo = {} /\ op'.fresh = {} /\ op'.target = None
  BY <1>5 DEF Idle, Operation, Phase
<1>10. TypeOK'
  <2>1. applies' \in 0 .. MaxApply BY <1>5, BoundAssumption DEF IInv, TypeOK
  <2>2. UNCHANGED <<stages, edits, faults>> /\ touched' = {} /\ installed' = {} /\ gone' = {} /\ unclear' = {}
    BY <1>5
  <2> QED BY <1>4, <1>7, <1>9, <2>1, <2>2 DEF IInv, TypeOK, Phase
<1>11. Shape'
  BY <1>1, <1>7, <1>8, <1>9 DEF Shape, At, Applying, Undoing, Aiming, Open
<1>12. Staging' /\ Restored' /\ Deleted' /\ Written' /\ Seen' /\ Accepted' /\ Touched'
  BY <1>1, <1>5, <1>7, <1>9
     DEF Staging, NoStrayStage, Restored, Deleted, Written, Seen, Accepted, Touched, At, Aiming
<1> QED BY <1>10, <1>11, <1>12 DEF IInv

LEMMA PrepareGood == ASSUME IInv, Prepare PROVE IInv'
<1>1. GoodJournal(tx) /\ At("prepare") /\ tx.phase = "planned" /\ live \in Trees /\ stages = {}
  BY DEF Prepare, IInv, Shape, Staging, TypeOK, GoodJournal, At, Applying
<1>2. /\ GoodJournal(tx') /\ tx'.phase = "planned" /\ tx'.before = live /\ tx'.entries = tx.entries
  <2>1. tx' = [tx EXCEPT !.before = live] BY DEF Prepare
  <2>2. live \in [Target -> Node] BY <1>1 DEF Trees
  <2>3. /\ tx' \in Transaction /\ tx'.before = live /\ tx'.phase = tx.phase /\ tx'.after = tx.after
        /\ tx'.entries = tx.entries /\ tx'.deletes = tx.deletes
        /\ tx'.pending = tx.pending /\ tx'.started = tx.started
    BY <1>1, <2>1, <2>2 DEF GoodJournal, Transaction
  <2>4. tx' # None BY <2>3
  <2> QED BY <1>1, <2>3, <2>4 DEF GoodJournal
<1>3. /\ op'.pc = "publish" /\ op' = [op EXCEPT !.pc = "publish"] /\ op'.restoring = FALSE
      /\ op' \in Operation /\ op'.todo = op.todo
  BY <1>1 DEF Prepare, IInv, Shape, Operation, Phase, At, Applying
<1>4. /\ touched' = {} /\ UNCHANGED <<live, stages, applies, edits, faults, installed, gone, unclear>>
  BY DEF Prepare
<1>5. TypeOK' BY <1>1, <1>2, <1>3, <1>4 DEF IInv, TypeOK, GoodJournal, Operation
<1>6. Shape'
  BY <1>1, <1>2, <1>3 DEF IInv, Shape, GoodJournal, At, Applying, Undoing, Aiming, Open
<1>7. Staging' /\ Restored' /\ Deleted' /\ Written' /\ Seen' /\ Accepted' /\ Touched'
  BY <1>1, <1>2, <1>3, <1>4
     DEF Staging, NoStrayStage, Restored, Deleted, Written, Seen, Accepted, Touched, At, Aiming
<1> QED BY <1>5, <1>6, <1>7 DEF IInv

LEMMA PublishJournalGood == ASSUME IInv, PublishJournal PROVE IInv'
<1> DEFINE ts == Outermost(tx.deletes)
<1>1. At("publish") /\ tx' = [tx EXCEPT !.phase = "open"] /\ stages' = stages /\ live' = live
      /\ op' = [op EXCEPT !.pc = "delete", !.todo = ts] /\ installed' = installed /\ Bounds
  BY DEF PublishJournal, Files
<1>2. GoodJournal(tx) /\ stages = {} /\ installed \subseteq Target /\ live \in Trees
      /\ op \in Operation /\ op.restoring = FALSE
  BY <1>1, JournalIsGood DEF IInv, TypeOK, Shape, Staging, Operation, Applying, At
<1>3. GoodJournal(tx') /\ tx'.phase = "open" /\ tx'.deletes = tx.deletes /\ tx'.entries = tx.entries
  <2>1. tx' \in Transaction /\ tx'.phase = "open" /\ tx'.deletes = tx.deletes /\ tx'.entries = tx.entries
        /\ tx'.before = tx.before /\ tx'.after = tx.after /\ tx'.pending = tx.pending
        /\ tx'.started = tx.started
    BY <1>1, <1>2 DEF GoodJournal, Transaction
  <2>2. tx' # None BY <2>1
  <2> QED BY <1>2, <2>1, <2>2 DEF GoodJournal
<1>4. ts \subseteq tx.deletes /\ ts \subseteq Target BY <1>2 DEF Outermost, GoodJournal, Transaction
<1> HIDE DEF ts
<1>5. op'.pc = "delete" /\ op'.todo = ts /\ op'.restoring = FALSE /\ op' \in Operation
  BY <1>1, <1>2, <1>4 DEF Operation, Phase
<1>6. TypeOK' /\ Shape' /\ Accepted' /\ Touched'
  <2>1. ts \subseteq tx'.entries BY <1>2, <1>3, <1>4 DEF GoodJournal
  <2>2. stages' \subseteq Target /\ installed' \subseteq Target /\ live' \in Trees BY <1>1, <1>2
  <2> QED BY <1>1, <1>3, <1>5, <2>1, <2>2, OpenGood DEF Open, Undoing, Aiming
<1>7. Staging' BY <1>1, <1>2 DEF Staging, NoStrayStage
<1>8. Deleted'
  <2>1. SUFFICES ASSUME NEW t \in tx.deletes PROVE ({t} \cup Parent(t)) \cap ts # {}
    BY <1>3, <1>5 DEF Deleted, Declared, At
  <2>2. t \in Target BY <1>2 DEF GoodJournal, Transaction
  <2>3. CASE Parent(t) \cap tx.deletes = {} BY <2>3 DEF ts, Outermost
  <2>4. ASSUME NEW p \in Parent(t) \cap tx.deletes PROVE p \in ts
    BY <2>2, <2>4, OneParent DEF ts, Outermost
  <2> QED BY <2>3, <2>4
<1>9. Restored' /\ Written' /\ Seen' BY <1>5 DEF Restored, Written, Seen, At, Aiming
<1> QED BY <1>6, <1>7, <1>8, <1>9 DEF IInv

LEMMA RetireIntentsGood == ASSUME IInv, RetireIntents PROVE IInv'
<1>0. At("delete") /\ op.todo = {} /\ Bounds /\ op.pc \in Open BY DEF RetireIntents, At, Open
<1>1. CASE ~ \A t \in tx.pending : live[t] = Missing
  BY <1>0, <1>1, FailStays DEF RetireIntents
<1>2. CASE \A t \in tx.pending : live[t] = Missing
  <2> DEFINE ts == {t \in tx.pending : IsFile(tx.after[t]) \/ PostFiles(t) # {}}
  <2>1. /\ tx' = Armed(ts, {}) /\ stages' = stages /\ live' = live /\ installed' = installed
        /\ op' = [op EXCEPT !.pc = "write", !.todo = Writes(tx.after), !.fresh = DeletedWrites]
    BY <1>2 DEF RetireIntents, Files
  <2>2. GoodJournal(tx) /\ tx.phase = "open" /\ op \in Operation /\ live \in Trees BY <1>0, AimFacts
  <2>3. ts \subseteq tx.entries /\ installed \subseteq Target /\ stages \subseteq Target
    BY <2>2 DEF GoodJournal, IInv, TypeOK
  <2>4. GoodJournal(tx') /\ SamePlan(tx', tx)
    <3> HIDE DEF ts
    <3> QED BY <2>1, <2>2, <2>3, ArmedIsGood
  <2> HIDE DEF ts
  <2>5. Writes(tx.after) \subseteq tx.entries /\ tx.entries \subseteq Target /\ DeletedWrites \subseteq Target
    BY <2>2 DEF GoodJournal, Transaction, DeletedWrites, Writes
  <2>6. op'.pc = "write" /\ op'.todo = Writes(tx.after) /\ op'.restoring = op.restoring /\ op' \in Operation
    BY <2>1, <2>2, <2>5 DEF Operation, Phase
  <2>7. ~op.restoring BY <1>0 DEF IInv, Shape, At, Applying
  <2>8. TypeOK' /\ Shape' /\ Accepted' /\ Touched'
    BY <1>0, <2>1, <2>2, <2>3, <2>4, <2>5, <2>6, <2>7, OpenGood DEF SamePlan, Open, Undoing, Aiming
  <2>9. Staging'
    BY <1>0, <2>1, <2>7 DEF IInv, Staging, NoStrayStage, At
  <2>10. Written'
    <3>1. \A t \in tx.deletes : live[t] = Missing BY <1>0, <1>2 DEF IInv, Deleted, Declared
    <3>2. touched' = touched BY <1>0 DEF Bounds
    <3> QED BY <2>1, <2>2, <2>4, <2>6, <3>1, <3>2 DEF Written, Untouched, SamePlan, GoodJournal, At
  <2>11. Restored' /\ Deleted' /\ Seen' BY <2>6 DEF Restored, Deleted, Seen, At, Aiming
  <2> QED BY <2>8, <2>9, <2>10, <2>11 DEF IInv
<1> QED BY <1>1, <1>2

LEMMA CompleteGood == ASSUME IInv, Complete PROVE IInv'
<1>1. (At("write") \/ At("restore")) /\ op.todo = {} /\ tx' = [tx EXCEPT !.phase = "completed"]
      /\ op' = [op EXCEPT !.pc = "clean"] /\ stages' = stages /\ live' = live
      /\ installed' = installed /\ Bounds
  BY DEF Complete, Files
<1>2. op.pc \in Open BY <1>1 DEF At, Open, Undoing
<1>3. GoodJournal(tx) /\ op \in Operation /\ live \in Trees BY <1>2, AimFacts
<1>4. GoodJournal(tx') /\ tx'.phase = "completed" /\ tx'.before = tx.before /\ tx'.after = tx.after
      /\ tx'.entries = tx.entries
  <2>1. tx' \in Transaction /\ tx'.phase = "completed" /\ tx'.deletes = tx.deletes /\ tx'.entries = tx.entries
        /\ tx'.before = tx.before /\ tx'.after = tx.after /\ tx'.pending = tx.pending
        /\ tx'.started = tx.started
    BY <1>1, <1>3 DEF GoodJournal, Transaction
  <2>2. tx' # None BY <2>1
  <2> QED BY <1>3, <2>1, <2>2 DEF GoodJournal
<1>5. op'.pc = "clean" /\ op'.todo = {} /\ op' \in Operation BY <1>1, <1>3 DEF Operation, Phase
<1>6. touched' = touched BY <1>1 DEF Bounds
<1>7. TypeOK' BY <1>1, <1>3, <1>4, <1>5 DEF IInv, TypeOK, GoodJournal, Operation, Bounds
<1>8. Shape' BY <1>4, <1>5 DEF Shape, GoodJournal, At, Applying, Undoing, Aiming, Open
<1>9. stages = {} BY <1>1, <1>2, <1>3 DEF IInv, Shape, Staging, At, Applying, GoodJournal
<1>10. Staging' BY <1>1, <1>9 DEF Staging, NoStrayStage
<1>11. Whole'
  <2>1. CASE At("write")
    <3>1. ASSUME NEW t \in Untouched PROVE live[t] = tx.after[t]
      <4>1. tx.after \in Trees BY <1>3 DEF GoodJournal, Snapshots
      <4>2. CASE t \in Writes(tx.after)
        BY <1>1, <2>1, <4>2 DEF IInv, Written, Untouched
      <4>3. CASE t \notin Writes(tx.after)
        <5>1. t \in Target /\ ~IsFile(tx.after[t])
          BY <1>3, <4>3 DEF Writes, Untouched, GoodJournal, Transaction
        <5>2. live[t] = Missing \/ (live[t] = Dir /\ tx.after[t] = Dir)
          BY <2>1, <4>3 DEF IInv, Written
        <5>3. CASE live[t] = Missing /\ tx.after[t] = Dir
          <6>1. PICK x \in Inside[t] : IsFile(tx.after[x])
            BY <1>3, <5>1, <5>3 DEF GoodJournal, Snapshots
          <6>2. x \in Target /\ t \in Parent(x) BY <5>1, TreeAssumption DEF Parent
          <6>3. x \in Writes(tx.after) /\ x \notin touched
            BY <6>1, <6>2 DEF Writes, IInv, Touched, Untouched
          <6>4. IsFile(live[x])
            BY <1>1, <2>1, <6>1, <6>3 DEF IInv, Written
          <6> QED BY <1>3, <5>3, <6>2, <6>4, TreeFacts DEF IsFile
        <5>4. tx.after[t] \in {Missing, Dir} BY <4>1, <5>1, TreeFacts DEF IsFile, Node
        <5> QED BY <5>2, <5>3, <5>4
      <4> QED BY <4>2, <4>3
    <3> QED BY <1>1, <1>4, <1>6, <3>1 DEF Whole, Untouched
  <2>2. CASE At("restore")
    <3>1. \A t \in Untouched : live[t] = tx.before[t]
      BY <1>1, <2>2 DEF IInv, Shape, Restored, At, Undoing
    <3> QED BY <1>1, <1>4, <1>6, <3>1 DEF Whole, Untouched
  <2> QED BY <1>1, <2>1, <2>2
<1>12. Accepted' BY <1>11 DEF Accepted
<1>13. Touched' BY <1>6 DEF IInv, Touched
<1>14. Restored' /\ Deleted' /\ Written' /\ Seen'
  BY <1>5 DEF Restored, Deleted, Written, Seen, At, Aiming
<1> QED BY <1>7, <1>8, <1>10, <1>12, <1>13, <1>14 DEF IInv

LEMMA RemoveBackupGood == ASSUME IInv, RemoveBackup PROVE IInv'
<1>1. At("clean") /\ tx' = [tx EXCEPT !.backup = FALSE] /\ UNCHANGED <<op, stages, live, installed>> /\ Bounds
  BY DEF RemoveBackup, Files
<1>2. tx # None /\ GoodJournal(tx) /\ tx.phase = "completed" BY <1>1, JournalIsGood DEF IInv, Shape, At
<1>3. GoodJournal(tx') /\ tx'.phase = tx.phase /\ tx'.before = tx.before /\ tx'.after = tx.after
      /\ tx'.entries = tx.entries
  <2>1. tx' \in Transaction /\ tx'.phase = tx.phase /\ tx'.deletes = tx.deletes /\ tx'.entries = tx.entries
        /\ tx'.before = tx.before /\ tx'.after = tx.after /\ tx'.pending = tx.pending
        /\ tx'.started = tx.started
    BY <1>1, <1>2 DEF GoodJournal, Transaction
  <2>2. tx' # None BY <2>1
  <2> QED BY <1>2, <2>1, <2>2 DEF GoodJournal
<1>4. TypeOK' BY <1>1, <1>3 DEF IInv, TypeOK, GoodJournal, Bounds
<1>5. Shape'
  BY <1>1, <1>2, <1>3 DEF IInv, Shape, GoodJournal, At, Applying, Undoing, Aiming, Open
<1>6. stages = {} BY <1>2 DEF IInv, Staging
<1>7. Staging' BY <1>1, <1>6 DEF Staging, NoStrayStage
<1>8. Accepted' /\ Touched' BY <1>1, <1>2, <1>3 DEF IInv, Accepted, Whole, Untouched, Touched, Bounds
<1>9. Restored' /\ Deleted' /\ Written' /\ Seen'
  BY <1>1 DEF Restored, Deleted, Written, Seen, At, Aiming
<1> QED BY <1>4, <1>5, <1>7, <1>8, <1>9 DEF IInv

LEMMA RemoveTransactionGood == ASSUME IInv, RemoveTransaction PROVE IInv'
<1>1. At("clean") /\ tx' = None /\ op' = Idle /\ UNCHANGED <<stages, live, installed>> /\ Bounds
  BY DEF RemoveTransaction, Files, Stop
<1>2. stages = {} BY <1>1 DEF IInv, Shape, Staging, At
<1>3. op'.pc = "idle" /\ op' \in Operation BY <1>1 DEF Idle, Operation, Phase
<1>4. TypeOK' BY <1>1, <1>3 DEF IInv, TypeOK, Operation, Bounds
<1>5. Shape' BY <1>1, <1>3 DEF Shape, At, Applying, Undoing, Aiming, Open
<1>6. Staging' BY <1>1, <1>2 DEF Staging, NoStrayStage
<1>7. Accepted' /\ Touched' BY <1>1 DEF IInv, Accepted, Touched, Bounds
<1>8. Restored' /\ Deleted' /\ Written' /\ Seen'
  BY <1>3 DEF Restored, Deleted, Written, Seen, At, Aiming
<1> QED BY <1>4, <1>5, <1>6, <1>7, <1>8 DEF IInv

LEMMA IntendDeleteGood == ASSUME IInv, NEW t \in Target, IntendDelete(t) PROVE IInv'
<1>0. At("delete") /\ t \in op.todo /\ Bounds /\ op.pc \in Open BY DEF IntendDelete, At, Open
<1>1. CASE ~Verified(t, FALSE)
  BY <1>0, <1>1, FailStays DEF IntendDelete
<1>2. CASE Verified(t, FALSE)
  <2>1. /\ tx' = Intended(t) /\ op' = [op EXCEPT !.pc = "remove", !.target = t]
        /\ stages' = stages /\ live' = live /\ installed' = installed
    BY <1>2 DEF IntendDelete, Files
  <2>2. GoodJournal(tx) /\ tx.phase = "open" /\ op \in Operation /\ live \in Trees /\ op.todo \subseteq tx.entries
    BY <1>0, AimFacts
  <2>3. /\ GoodJournal(tx') /\ SamePlan(tx', tx)
        /\ tx'.pending = tx.pending \cup (Below(t) \cap tx.entries)
    BY <2>1, <2>2, IntendedIsGood
  <2>4. /\ op'.pc = "remove" /\ op'.target = t /\ op'.todo = op.todo /\ op'.restoring = op.restoring
        /\ op' \in Operation
    BY <2>1, <2>2 DEF Operation, Phase
  <2>5. ~op.restoring /\ stages = {} /\ installed \subseteq Target
    BY <1>0 DEF IInv, TypeOK, Shape, Staging, At, Applying
  <2>6. TypeOK' /\ Shape' /\ Accepted' /\ Touched'
    BY <1>0, <2>1, <2>2, <2>3, <2>4, <2>5, OpenGood DEF SamePlan, Open, Undoing, Aiming
  <2>7. Staging' BY <2>1, <2>5 DEF Staging, NoStrayStage
  <2>8. Deleted'
    <3>1. SUFFICES ASSUME NEW s \in tx.deletes
                   PROVE  s \in tx'.pending \/ ({s} \cup Parent(s)) \cap (op.todo \ {t}) # {}
      BY <2>3, <2>4 DEF Deleted, Declared, SamePlan, At
    <3>2. s \in tx.pending \/ ({s} \cup Parent(s)) \cap op.todo # {}
      BY <1>0 DEF IInv, Deleted, Declared
    <3>3. CASE t \in {s} \cup Parent(s)
      <4>1. s \in tx.entries /\ s \in Below(t) BY <2>2, <3>3 DEF GoodJournal, Below, Parent
      <4> QED BY <2>3, <4>1
    <3> QED BY <2>3, <3>2, <3>3
  <2>9. Restored' /\ Written' /\ Seen' BY <2>4, <2>5 DEF Restored, Written, Seen, At
  <2> QED BY <2>6, <2>7, <2>8, <2>9 DEF IInv
<1> QED BY <1>1, <1>2

LEMMA MakeParentGood == ASSUME IInv, NEW t \in Target, MakeParent(t) PROVE IInv'
<1>0. At("write") /\ t \in op.todo /\ Bounds /\ op.pc \in Open BY DEF MakeParent, At, Open
<1>1. PICK p \in Parent(t) :
          /\ live[p] # Dir
          /\ IF live[p] = Missing /\ Verified(t, t \in op.fresh)
             THEN live' = [live EXCEPT ![p] = Dir] /\ UNCHANGED <<tx, stages, op, installed>>
             ELSE Fail
  BY DEF MakeParent
<1>2. CASE ~(live[p] = Missing /\ Verified(t, t \in op.fresh))
  BY <1>0, <1>1, <1>2, FailStays
<1>3. CASE live[p] = Missing /\ Verified(t, t \in op.fresh)
  <2>1. live' = [live EXCEPT ![p] = Dir] /\ tx' = tx /\ stages' = stages /\ op' = op /\ installed' = installed
    BY <1>1, <1>3
  <2>2. GoodJournal(tx) /\ tx.phase = "open" /\ op \in Operation /\ live \in Trees
        /\ op.todo \subseteq tx.entries /\ live \in [Target -> Node]
    BY <1>0, AimFacts
  <2>3. p \in Target /\ Parent(p) = {} /\ t \in Inside[p] BY OneParent
  <2>4. live' \in Trees
    <3>1. Dir \in Node BY DEF Node
    <3> QED BY <2>1, <2>2, <2>3, <3>1, TreeSet
  <2>5. /\ stages \subseteq Target /\ installed \subseteq Target /\ ~op.restoring
        /\ op.pc \in Aiming => op.target \in op.todo
    BY <1>0 DEF IInv, TypeOK, Shape, At, Applying
  <2>6. TypeOK' /\ Shape' /\ Accepted' /\ Touched'
    BY <1>0, <2>1, <2>2, <2>4, <2>5, OpenGood DEF Open, Undoing, At
  <2>7. Staging' BY <2>1 DEF IInv, Staging, NoStrayStage, At
  <2>8. Written'
    <3>1. t \in Writes(tx.after) BY <1>0 DEF IInv, Written
    <3>2. tx.after \in Trees BY <2>2 DEF GoodJournal, Snapshots
    <3>3. tx.after[p] = Dir BY <2>3, <3>1, <3>2, TreeFacts DEF Writes, IsFile
    <3>4. \A s \in Target : live'[s] = IF s = p THEN Dir ELSE live[s] BY <2>1, <2>2
    <3>5. \A s \in Writes(tx.after) \cup Untouched : s \in Target
      BY <2>2 DEF Writes, Untouched, GoodJournal, Transaction
    <3>6. touched' = touched BY <1>0 DEF Bounds
    <3>7. p \notin Writes(tx.after) BY <3>3 DEF Writes, IsFile
    <3> QED BY <1>0, <2>1, <3>3, <3>4, <3>5, <3>6, <3>7 DEF IInv, Written, Untouched, At
  <2>9. Restored' /\ Deleted' /\ Seen' BY <1>0, <2>1 DEF Restored, Deleted, Seen, At, Aiming
  <2> QED BY <2>6, <2>7, <2>8, <2>9 DEF IInv
<1> QED BY <1>2, <1>3

LEMMA InstallGood == ASSUME IInv, NEW t \in Target, Install(t) PROVE IInv'
<1>0. At("write") /\ t \in op.todo /\ Bounds /\ op.pc \in Open BY DEF Install, At, Open
<1>1. CASE ~(Verified(t, t \in op.fresh) /\ live[t] # Dir)
  BY <1>0, <1>1, FailStays DEF Install
<1>2. CASE Verified(t, t \in op.fresh) /\ live[t] # Dir
  <2>1. /\ live' = [live EXCEPT ![t] = tx.after[t]] /\ installed' = installed \cup {t}
        /\ op' = [op EXCEPT !.todo = @ \ {t}, !.fresh = @ \ {t}]
        /\ tx' = tx /\ stages' = stages
        /\ \A p \in Parent(t) : live[p] = Dir
    BY <1>2 DEF Install
  <2>2. GoodJournal(tx) /\ tx.phase = "open" /\ op \in Operation /\ live \in Trees
        /\ op.todo \subseteq tx.entries /\ live \in [Target -> Node]
    BY <1>0, AimFacts
  <2>3. t \in Writes(tx.after) /\ IsFile(tx.after[t]) /\ tx.after[t] \in Node
    BY <1>0 DEF IInv, Written, Writes, IsFile, Node
  <2>4. live' \in Trees BY <1>2, <2>1, <2>2, <2>3, TreeSet, TreeFacts DEF IsFile
  <2>5. /\ op'.pc = "write" /\ op'.todo = op.todo \ {t} /\ op'.restoring = op.restoring /\ op' \in Operation
    BY <1>0, <2>1, <2>2 DEF Operation, At
  <2>6. stages \subseteq Target /\ installed' \subseteq Target /\ ~op.restoring
    BY <1>0, <2>1 DEF IInv, TypeOK, Shape, At, Applying
  <2>7. TypeOK' /\ Shape' /\ Accepted' /\ Touched'
    BY <1>0, <2>1, <2>2, <2>4, <2>5, <2>6, OpenGood DEF Open, Undoing, Aiming
  <2>8. Staging' BY <1>0, <2>1, <2>5, <2>6 DEF IInv, Staging, NoStrayStage, At, Aiming
  <2>9. Written'
    <3>1. \A s \in Target : live'[s] = IF s = t THEN tx.after[t] ELSE live[s] BY <2>1, <2>2
    <3>2. \A s \in Writes(tx.after) \cup Untouched : s \in Target
      BY <2>2 DEF Writes, Untouched, GoodJournal, Transaction
    <3>3. touched' = touched BY <1>0 DEF Bounds
    <3> QED BY <1>0, <2>1, <2>3, <2>5, <3>1, <3>2, <3>3 DEF IInv, Written, Untouched, At
  <2>10. Restored' /\ Deleted' /\ Seen' BY <2>5 DEF Restored, Deleted, Seen, At, Aiming
  <2> QED BY <2>7, <2>8, <2>9, <2>10 DEF IInv
<1> QED BY <1>1, <1>2

LEMMA RemoveGood == ASSUME IInv, NEW t \in Target, Remove(t) PROVE IInv'
<1>0. At("remove") /\ op.target = t /\ Bounds /\ op.pc \in Open /\ op.pc \in Aiming
  BY DEF Remove, At, Open, Aiming
<1>1. GoodJournal(tx) /\ tx # None /\ tx.phase = "open" /\ op \in Operation /\ live \in Trees
      /\ op.todo \subseteq tx.entries /\ op.target \in op.todo /\ installed \subseteq Target
      /\ stages \subseteq Target
  BY <1>0, AimFacts DEF IInv, TypeOK
<1>2. CASE ~Verified(t, FALSE)
  BY <1>0, <1>2, FailStays DEF Remove
<1>3. CASE Verified(t, FALSE) /\ op.restoring /\ IsBefore(t)
  <2>1. Done(t) /\ tx' = tx /\ live' = live /\ installed' = installed BY <1>3 DEF Remove, Files
  <2>2. live[t] = tx.before[t] BY <1>3, BeforeIsBefore
  <2>3. \A s \in Untouched \ op.todo : live[s] = tx.before[s] BY <1>0, <1>3 DEF IInv, Restored
  <2> QED BY <1>0, <1>1, <1>3, <2>1, <2>2, <2>3, DoneGood
<1>4. CASE Verified(t, FALSE) /\ ~(op.restoring /\ IsBefore(t))
  <2>1. op' = [op EXCEPT !.pc = "removing"] /\ tx' = tx /\ stages' = stages /\ live' = live
        /\ installed' = installed
    BY <1>4 DEF Remove, Files
  <2>2. /\ op'.pc = "removing" /\ op'.target = op.target /\ op'.todo = op.todo
        /\ op'.restoring = op.restoring /\ op' \in Operation
    BY <1>1, <2>1 DEF Operation, Phase
  <2>3. TypeOK' /\ Shape' /\ Accepted' /\ Touched'
    BY <1>0, <1>1, <2>1, <2>2, OpenGood DEF Open, Undoing, Aiming
  <2>4. touched' = touched BY <1>0 DEF Bounds
  <2>5. Staging' BY <1>0, <1>1, <2>1, <2>2 DEF IInv, Staging, NoStrayStage, At, Aiming
  <2>6. Restored'
    BY <1>0, <2>1, <2>2, <2>4 DEF IInv, Restored, Untouched, Aiming, At
  <2>7. Deleted' BY <1>0, <2>1, <2>2 DEF IInv, Deleted, Declared, At
  <2>8. Written' BY <2>2 DEF Written, At
  <2>9. Seen'
    <3>1. \A x \in Below(t) : IsFile(live[x]) => live[x] \in {tx.before[x], tx.after[x]}
      BY <1>0, <1>1, <1>4, VerifiedIsSeen DEF GoodJournal
    <3> QED BY <1>0, <2>1, <2>2, <3>1 DEF Seen
  <2> QED BY <2>3, <2>5, <2>6, <2>7, <2>8, <2>9 DEF IInv
<1> QED BY <1>2, <1>3, <1>4

LEMMA RemoveTopGood == ASSUME IInv, NEW t \in Target, RemoveTop(t) PROVE IInv'
<1>0. At("removing") /\ op.target = t /\ Bounds /\ op.pc \in Open /\ op.pc \in Aiming
  BY DEF RemoveTop, At, Open, Aiming
<1>1. GoodJournal(tx) /\ tx # None /\ tx.phase = "open" /\ op \in Operation /\ live \in Trees
      /\ op.todo \subseteq tx.entries /\ op.target \in op.todo /\ installed \subseteq Target
      /\ stages \subseteq {t} /\ stages \subseteq Target /\ live \in [Target -> Node]
      /\ tx.entries \subseteq Target
  BY <1>0, AimFacts DEF IInv, TypeOK
<1>2. /\ \A x \in Inside[t] : live[x] = Missing
      /\ live' = [live EXCEPT ![t] = Missing] /\ tx' = tx /\ stages' = stages
      /\ installed' = installed \ {t}
      /\ op' = [op EXCEPT !.pc = AfterRemoval(t),
                          !.todo = IF AfterRemoval(t) = "arm" THEN @ ELSE @ \ {t},
                          !.target = IF AfterRemoval(t) = "arm" THEN t ELSE None]
  BY DEF RemoveTop
<1>3. live' \in Trees
  <2>1. Missing \in Node BY DEF Node
  <2> QED BY <1>1, <1>2, <2>1, TreeSet
<1>4. \A s \in Target : live'[s] = IF s = t THEN Missing ELSE live[s] BY <1>1, <1>2
<1>5. touched' = touched BY <1>0 DEF Bounds
<1>6. AfterRemoval(t) \in {"delete", "restore", "arm"} BY DEF AfterRemoval
<1>7. /\ op'.pc = AfterRemoval(t) /\ op'.restoring = op.restoring /\ op' \in Operation
      /\ op'.todo = IF AfterRemoval(t) = "arm" THEN op.todo ELSE op.todo \ {t}
      /\ op'.target = IF AfterRemoval(t) = "arm" THEN t ELSE None
  BY <1>1, <1>2, <1>6 DEF Operation, Phase
<1>8. op'.pc = "delete" <=> ~op.restoring
  BY <1>6, <1>7 DEF AfterRemoval
<1>9. TypeOK' /\ Shape' /\ Accepted' /\ Touched'
  <2>1. /\ op'.pc \in Open /\ op'.todo \subseteq tx.entries
        /\ op'.pc \in Aiming => op'.target \in op'.todo
    BY <1>0, <1>1, <1>6, <1>7 DEF Open, Undoing, Aiming
  <2>2. /\ op'.pc \in {"delete", "write"} => ~op'.restoring
        /\ op'.pc \in Undoing => op'.restoring
    BY <1>6, <1>7, <1>8 DEF Undoing
  <2>3. stages' \subseteq Target /\ installed' \subseteq Target BY <1>1, <1>2
  <2> QED BY <1>0, <1>1, <1>2, <1>3, <1>7, <2>1, <2>2, <2>3, OpenGood
<1>10. Staging'
  <2>1. NoStrayStage' BY <1>1, <1>2 DEF IInv, Staging, NoStrayStage
  <2>2. CASE ~op.restoring
    <3>1. stages = {} BY <1>0, <2>2 DEF IInv, Staging, At
    <3> QED BY <1>2, <2>1, <3>1 DEF Staging
  <2>3. CASE op.restoring /\ tx.before[t] = Missing
    <3>1. stages = {} BY <1>0, <2>3 DEF IInv, Staging
    <3> QED BY <1>2, <2>1, <3>1 DEF Staging
  <2>4. CASE op.restoring /\ tx.before[t] # Missing
    <3>1. op'.pc = "arm" /\ op'.target = t BY <1>7, <2>4 DEF AfterRemoval
    <3> QED BY <1>1, <1>2, <1>7, <2>1, <2>4, <3>1 DEF Staging, At
  <2> QED BY <2>2, <2>3, <2>4
<1>11. Restored'
  <2>1. SUFFICES ASSUME op.restoring PROVE Restored' BY <1>7 DEF Restored
  <2>2. /\ \A s \in Untouched \ op.todo : live[s] = tx.before[s]
        /\ \A s \in op.todo : Inside[s] \cap tx.entries \subseteq op.todo
        /\ Parent(t) \cap op.todo = {}
    BY <1>0, <2>1 DEF IInv, Restored
  <2>3. \A s \in Untouched \ op.todo : live'[s] = tx.before[s]
    BY <1>0, <1>1, <1>4, <2>2 DEF Untouched
  <2>4. CASE tx.before[t] = Missing
    <3>1. op'.pc = "restore" /\ op'.todo = op.todo \ {t} BY <1>7, <2>1, <2>4 DEF AfterRemoval
    <3>2. \A s \in Untouched \ op'.todo : live'[s] = tx.before[s]
      BY <1>0, <1>1, <1>4, <2>3, <2>4, <3>1
    <3>3. \A s \in op'.todo : Inside[s] \cap tx.entries \subseteq op'.todo
      BY <1>1, <2>2, <3>1 DEF Parent
    <3> QED BY <1>2, <1>5, <3>1, <3>2, <3>3 DEF Restored, Untouched, Aiming, At
  <2>5. CASE tx.before[t] # Missing
    <3>1. op'.pc = "arm" /\ op'.todo = op.todo /\ op'.target = t BY <1>7, <2>1, <2>5 DEF AfterRemoval
    <3> QED BY <1>2, <1>5, <2>2, <2>3, <3>1 DEF Restored, Untouched, At
  <2> QED BY <2>4, <2>5
<1>12. Deleted'
  <2>1. SUFFICES ASSUME ~op.restoring PROVE Deleted'
    BY <1>6, <1>7, <1>8 DEF Deleted, At
  <2>2. op'.pc = "delete" /\ op'.todo = op.todo \ {t} BY <1>7, <2>1 DEF AfterRemoval
  <2> QED BY <1>0, <1>2, <2>1, <2>2 DEF IInv, Deleted, Declared, At
<1>13. Written' /\ Seen' BY <1>6, <1>7 DEF Written, Seen, At
<1> QED BY <1>9, <1>10, <1>11, <1>12, <1>13 DEF IInv

LEMMA RemoveInsideGood == ASSUME IInv, NEW t \in Target, NEW x \in Inside[t], RemoveInside(t, x) PROVE IInv'
<1>0. At("removing") /\ op.target = t /\ Bounds /\ op.pc \in Open /\ op.pc \in Aiming
  BY DEF RemoveInside, At, Open, Aiming
<1>1. GoodJournal(tx) /\ tx # None /\ tx.phase = "open" /\ op \in Operation /\ live \in Trees
      /\ op.todo \subseteq tx.entries /\ op.target \in op.todo /\ installed \subseteq Target
      /\ stages \subseteq Target /\ live \in [Target -> Node] /\ tx.entries \subseteq Target
  BY <1>0, AimFacts DEF IInv, TypeOK
<1>2. live' = [live EXCEPT ![x] = Missing] /\ installed' = installed \ {x} /\ tx' = tx
      /\ stages' = stages /\ op' = op
  BY DEF RemoveInside
<1>3. x \in Target /\ t \in Parent(x) BY TreeAssumption DEF Parent
<1>4. Inside[x] = {} BY <1>3, OneParent
<1>5. live' \in Trees
  <2>1. Missing \in Node BY DEF Node
  <2> QED BY <1>1, <1>2, <1>3, <1>4, <2>1, TreeSet
<1>6. \A s \in Target : live'[s] = IF s = x THEN Missing ELSE live[s] BY <1>1, <1>2
<1>7. touched' = touched BY <1>0 DEF Bounds
<1>8. TypeOK' /\ Shape' /\ Accepted' /\ Touched'
  BY <1>0, <1>1, <1>2, <1>5, OpenGood DEF Undoing, At
<1>9. Staging' BY <1>2 DEF IInv, Staging, NoStrayStage, At
<1>10. Restored'
  <2>1. SUFFICES ASSUME op.restoring PROVE Restored' BY <1>2 DEF Restored
  <2>2. x \in tx.entries => x \in op.todo BY <1>0, <1>1, <2>1 DEF IInv, Restored
  <2>3. \A s \in Untouched \ op.todo : live'[s] = tx.before[s]
    BY <1>0, <1>1, <1>6, <2>1, <2>2 DEF IInv, Restored, Untouched
  <2> QED BY <1>0, <1>2, <1>7, <2>1, <2>3 DEF IInv, Restored, Untouched, At
<1>11. Deleted' BY <1>2 DEF IInv, Deleted, Declared, At
<1>12. Written' BY <1>0, <1>2 DEF Written, At
<1>13. Seen'
  <2>1. \A y \in Below(t) : IsFile(live[y]) => live[y] \in {tx.before[y], tx.after[y]}
    BY <1>0 DEF IInv, Seen
  <2>2. \A y \in Below(t) : y \in Target BY TreeAssumption DEF Below
  <2> QED BY <1>0, <1>2, <1>6, <2>1, <2>2 DEF Seen, IsFile
<1> QED BY <1>8, <1>9, <1>10, <1>11, <1>12, <1>13 DEF IInv

LEMMA BeginRecoveryGood == ASSUME IInv, BeginRecovery PROVE IInv'
<1>1. At("idle") /\ tx # None /\ UNCHANGED <<tx, stages>> /\ Files /\ Bounds
  BY DEF BeginRecovery
<1>2. tx.phase # "planned" /\ GoodJournal(tx) BY <1>1, JournalIsGood DEF IInv, Shape
<1>3. CASE tx.phase = "completed"
  <2>1. op' = [Idle EXCEPT !.pc = "clean"] BY <1>3 DEF BeginRecovery
  <2>2. op'.pc = "clean" /\ op'.todo = {} /\ op' \in Operation BY <2>1 DEF Idle, Operation, Phase
  <2>3. stages = {} BY <1>1, <1>3 DEF IInv, Staging
  <2>4. TypeOK' BY <1>1, <2>2 DEF IInv, TypeOK, Operation, Files, Bounds
  <2>5. Shape' BY <1>1, <1>2, <1>3, <2>2 DEF Shape, GoodJournal, At, Applying, Undoing, Aiming, Open
  <2>6. Staging' BY <1>1, <2>3 DEF Staging, NoStrayStage
  <2>7. Touched' /\ Accepted' BY <1>1 DEF IInv, Touched, Accepted, Whole, Untouched, Files, Bounds
  <2>8. Restored' /\ Deleted' /\ Written' /\ Seen'
    BY <2>2 DEF Restored, Deleted, Written, Seen, At, Aiming
  <2> QED BY <2>4, <2>5, <2>6, <2>7, <2>8 DEF IInv
<1>4. CASE tx.phase = "open"
  <2>1. op' = [Idle EXCEPT !.pc = "verify", !.restoring = TRUE] BY <1>4 DEF BeginRecovery
  <2>2. op'.pc = "verify" /\ op'.todo = {} /\ op'.restoring = TRUE /\ op' \in Operation
    BY <2>1 DEF Idle, Operation, Phase
  <2>3. live' \in Trees /\ stages' \subseteq Target /\ installed' \subseteq Target
    BY <1>1 DEF IInv, TypeOK, Files
  <2>4. TypeOK' /\ Shape' /\ Accepted' /\ Touched'
    BY <1>1, <1>2, <1>4, <2>2, <2>3, OpenGood DEF Open, Undoing, Aiming
  <2>5. Staging' BY <1>1, <1>4, <2>2 DEF IInv, Staging, NoStrayStage, Aiming, At
  <2>6. Restored' /\ Deleted' /\ Written' /\ Seen'
    BY <2>2 DEF Restored, Deleted, Written, Seen, At, Aiming
  <2> QED BY <2>4, <2>5, <2>6 DEF IInv
<1>5. tx.phase \in {"planned", "open", "completed"} BY <1>2 DEF GoodJournal, Transaction
<1> QED BY <1>2, <1>3, <1>4, <1>5

LEMMA VerifyGroupGood == ASSUME IInv, VerifyGroup PROVE IInv'
<1>1. At("verify") /\ tx' = tx /\ stages' = stages /\ live' = live /\ installed' = installed /\ Bounds
      /\ op.pc \in Open
  BY DEF VerifyGroup, Files, At, Open, Undoing
<1>2. GoodJournal(tx) /\ tx # None /\ tx.phase = "open" /\ op \in Operation /\ live \in Trees
      /\ op.todo \subseteq tx.entries /\ installed \subseteq Target /\ stages \subseteq Target
      /\ op.restoring
  BY <1>1, AimFacts DEF IInv, TypeOK, Shape, Undoing, At
<1>3. CASE op' = [op EXCEPT !.pc = "unstage"]
  <2>1. op'.pc = "unstage" /\ op'.todo = op.todo /\ op'.restoring = op.restoring /\ op' \in Operation
    BY <1>2, <1>3 DEF Operation, Phase
  <2>2. TypeOK' /\ Shape' /\ Accepted' /\ Touched'
    BY <1>1, <1>2, <2>1, OpenGood DEF Open, Undoing, Aiming
  <2>3. Staging' BY <1>1, <1>2, <2>1 DEF IInv, Staging, NoStrayStage, Aiming, At
  <2>4. Restored' /\ Deleted' /\ Written' /\ Seen'
    BY <2>1 DEF Restored, Deleted, Written, Seen, At, Aiming
  <2> QED BY <2>2, <2>3, <2>4 DEF IInv
<1>4. CASE op' = Idle
  <2>1. op'.pc = "idle" /\ op'.todo = {} /\ op' \in Operation BY <1>4 DEF Idle, Operation, Phase
  <2>2. TypeOK' BY <1>1, <2>1 DEF IInv, TypeOK, Operation, Bounds
  <2>3. Shape' BY <1>1, <1>2, <2>1 DEF Shape, GoodJournal, At, Applying, Undoing, Aiming, Open
  <2>4. Staging' BY <1>1, <1>2, <2>1 DEF IInv, Staging, NoStrayStage, Aiming, At
  <2>5. Touched' /\ Accepted' BY <1>1 DEF IInv, Touched, Accepted, Whole, Untouched, Bounds
  <2>6. Restored' /\ Deleted' /\ Written' /\ Seen'
    BY <2>1 DEF Restored, Deleted, Written, Seen, At, Aiming
  <2> QED BY <2>2, <2>3, <2>4, <2>5, <2>6 DEF IInv
<1> QED BY <1>3, <1>4 DEF VerifyGroup, Stop

LEMMA RemoveStagesGood == ASSUME IInv, RemoveStages PROVE IInv'
<1>1. At("unstage") /\ tx' = tx /\ stages' = stages \ tx.staged /\ live' = live
      /\ installed' = installed /\ op' = [op EXCEPT !.pc = "restore", !.todo = tx.entries]
      /\ Bounds /\ op.pc \in Open
  BY DEF RemoveStages, Files, At, Open, Undoing
<1>2. GoodJournal(tx) /\ tx # None /\ tx.phase = "open" /\ op \in Operation /\ live \in Trees
      /\ installed \subseteq Target /\ op.restoring /\ stages \subseteq tx.staged
      /\ tx.entries \subseteq Target
  BY <1>1, AimFacts DEF IInv, TypeOK, Shape, Staging, NoStrayStage, Undoing, At
<1>3. op'.pc = "restore" /\ op'.todo = tx.entries /\ op'.restoring = op.restoring /\ op' \in Operation
  BY <1>1, <1>2 DEF Operation, Phase
<1>4. stages' = {} BY <1>1, <1>2
<1>5. TypeOK' /\ Shape' /\ Accepted' /\ Touched'
  BY <1>1, <1>2, <1>3, <1>4, OpenGood DEF Open, Undoing, Aiming
<1>6. Staging' BY <1>4 DEF Staging, NoStrayStage
<1>7. Restored' BY <1>1, <1>3 DEF Restored, Untouched, Aiming, At
<1>8. Deleted' /\ Written' /\ Seen' BY <1>3 DEF Deleted, Written, Seen, At
<1> QED BY <1>5, <1>6, <1>7, <1>8 DEF IInv

LEMMA SkipRestoredGood == ASSUME IInv, NEW t \in Target, SkipRestored(t) PROVE IInv'
<1>0. At("restore") /\ t \in op.todo /\ Parent(t) \cap op.todo = {} /\ Bounds /\ op.pc \in Open
  BY DEF SkipRestored, Outermost, At, Open, Undoing
<1>1. GoodJournal(tx) /\ tx # None /\ tx.phase = "open" /\ op \in Operation /\ live \in Trees
      /\ op.todo \subseteq tx.entries /\ tx.entries \subseteq Target /\ installed \subseteq Target
      /\ op.restoring /\ stages = {}
  BY <1>0, AimFacts DEF IInv, TypeOK, Shape, Staging, Undoing, At
<1>2. IsBefore(t) /\ op' = [op EXCEPT !.todo = @ \ {t}] /\ tx' = tx /\ stages' = stages
      /\ live' = live /\ installed' = installed
  BY DEF SkipRestored, Files
<1>3. op'.pc = "restore" /\ op'.todo = op.todo \ {t} /\ op'.restoring = op.restoring /\ op' \in Operation
  BY <1>0, <1>1, <1>2 DEF Operation, At
<1>4. TypeOK' /\ Shape' /\ Accepted' /\ Touched'
  BY <1>0, <1>1, <1>2, <1>3, OpenGood DEF Open, Undoing, Aiming
<1>5. Staging' BY <1>1, <1>2 DEF Staging, NoStrayStage
<1>6. Restored'
  <2>1. live[t] = tx.before[t] BY <1>2, BeforeIsBefore
  <2>2. \A s \in Target : t \in Inside[s] => s \in Parent(t) BY DEF Parent
  <2>3. touched' = touched BY <1>0 DEF Bounds
  <2> QED BY <1>0, <1>1, <1>2, <1>3, <2>1, <2>2, <2>3 DEF IInv, Restored, Untouched, Aiming, At
<1>7. Deleted' /\ Written' /\ Seen' BY <1>3 DEF Deleted, Written, Seen, At
<1> QED BY <1>4, <1>5, <1>6, <1>7 DEF IInv

LEMMA IntendUndoGood == ASSUME IInv, NEW t \in Target, IntendUndo(t) PROVE IInv'
<1>0. At("restore") /\ t \in op.todo /\ Parent(t) \cap op.todo = {} /\ Bounds /\ op.pc \in Open
  BY DEF IntendUndo, Outermost, At, Open, Undoing
<1>1. GoodJournal(tx) /\ tx # None /\ tx.phase = "open" /\ op \in Operation /\ live \in Trees
      /\ op.todo \subseteq tx.entries /\ tx.entries \subseteq Target /\ installed \subseteq Target
      /\ op.restoring /\ stages = {}
  BY <1>0, AimFacts DEF IInv, TypeOK, Shape, Staging, Undoing, At
<1>2. CASE ~Verified(t, FALSE)
  BY <1>0, <1>2, FailStays DEF IntendUndo
<1>3. CASE Verified(t, FALSE)
  <2>1. tx' = Intended(t) /\ op' = [op EXCEPT !.pc = "remove", !.target = t] /\ stages' = stages
        /\ live' = live /\ installed' = installed
    BY <1>3 DEF IntendUndo, Files
  <2>2. GoodJournal(tx') /\ SamePlan(tx', tx) BY <1>1, <2>1, IntendedIsGood
  <2>3. /\ op'.pc = "remove" /\ op'.target = t /\ op'.todo = op.todo
        /\ op'.restoring = op.restoring /\ op' \in Operation
    BY <1>1, <2>1 DEF Operation, Phase
  <2>4. TypeOK' /\ Shape' /\ Accepted' /\ Touched'
    BY <1>0, <1>1, <2>1, <2>2, <2>3, OpenGood DEF SamePlan, Open, Undoing, Aiming
  <2>5. Staging' BY <1>1, <2>1 DEF Staging, NoStrayStage
  <2>6. Restored'
    <3>1. touched' = touched BY <1>0 DEF Bounds
    <3> QED BY <1>0, <1>1, <2>1, <2>2, <2>3, <3>1 DEF IInv, Restored, Untouched, SamePlan, At
  <2>7. Deleted' /\ Written' /\ Seen' BY <1>1, <2>3 DEF Deleted, Written, Seen, At
  <2> QED BY <2>4, <2>5, <2>6, <2>7 DEF IInv
<1> QED BY <1>2, <1>3

LEMMA ClaimStageGood == ASSUME IInv, NEW t \in Target, ClaimStage(t) PROVE IInv'
<1>0. At("restore") /\ t \in op.todo /\ Parent(t) \cap op.todo = {} /\ Bounds /\ op.pc \in Open
  BY DEF ClaimStage, Outermost, At, Open, Undoing
<1>1. GoodJournal(tx) /\ tx # None /\ tx.phase = "open" /\ op \in Operation /\ live \in Trees
      /\ op.todo \subseteq tx.entries /\ tx.entries \subseteq Target /\ installed \subseteq Target
      /\ op.restoring /\ stages = {}
  BY <1>0, AimFacts DEF IInv, TypeOK, Shape, Staging, Undoing, At
<1>2. CASE ~(Verified(t, FALSE) /\ (t \in stages => t \in tx.staged))
  BY <1>0, <1>2, FailStays DEF ClaimStage
<1>3. CASE Verified(t, FALSE) /\ (t \in stages => t \in tx.staged)
  <2>1. /\ tx' = [tx EXCEPT !.staged = @ \cup {t}] /\ op' = [op EXCEPT !.pc = "stage", !.target = t]
        /\ stages' = stages /\ live' = live /\ installed' = installed /\ tx.before[t] # Missing
    BY <1>3 DEF ClaimStage, Files
  <2>2. GoodJournal(tx') /\ SamePlan(tx', tx) /\ t \in tx'.staged
    <3>1. tx' \in Transaction /\ SamePlan(tx', tx) /\ t \in tx'.staged /\ tx'.pending = tx.pending
          /\ tx'.started = tx.started
      BY <1>1, <2>1 DEF GoodJournal, Transaction, SamePlan
    <3>2. tx' # None BY <3>1
    <3> QED BY <1>1, <3>1, <3>2 DEF GoodJournal, SamePlan
  <2>3. /\ op'.pc = "stage" /\ op'.target = t /\ op'.todo = op.todo
        /\ op'.restoring = op.restoring /\ op' \in Operation
    BY <1>1, <2>1 DEF Operation, Phase
  <2>4. TypeOK' /\ Shape' /\ Accepted' /\ Touched'
    BY <1>0, <1>1, <2>1, <2>2, <2>3, OpenGood DEF SamePlan, Open, Undoing, Aiming
  <2>5. Staging' BY <1>1, <2>1 DEF Staging, NoStrayStage
  <2>6. Restored'
    <3>1. touched' = touched BY <1>0 DEF Bounds
    <3> QED BY <1>0, <1>1, <2>1, <2>2, <2>3, <3>1 DEF IInv, Restored, Untouched, SamePlan, At
  <2>7. Deleted' /\ Written' /\ Seen' BY <2>3 DEF Deleted, Written, Seen, At
  <2> QED BY <2>4, <2>5, <2>6, <2>7 DEF IInv
<1> QED BY <1>2, <1>3

LEMMA StageGood == ASSUME IInv, NEW t \in Target, Stage(t) PROVE IInv'
<1>0. At("stage") /\ op.target = t /\ Bounds /\ op.pc \in Open /\ op.pc \in Aiming
  BY DEF Stage, At, Open, Undoing, Aiming
<1>1. GoodJournal(tx) /\ tx # None /\ tx.phase = "open" /\ op \in Operation /\ live \in Trees
      /\ op.todo \subseteq tx.entries /\ tx.entries \subseteq Target /\ installed \subseteq Target
      /\ op.restoring /\ stages \subseteq {t} /\ op.target \in op.todo
  BY <1>0, AimFacts DEF IInv, TypeOK, Shape, Undoing, At
<1>2. /\ \A s \in Untouched \ op.todo : live[s] = tx.before[s]
      /\ \A s \in op.todo : Inside[s] \cap tx.entries \subseteq op.todo
      /\ Parent(t) \cap op.todo = {}
  BY <1>0, <1>1 DEF IInv, Restored
<1>3. touched' = touched BY <1>0 DEF Bounds
<1>4. CASE \E p \in Parent(t) : IsFile(live[p])
  BY <1>0, <1>4, FailStays DEF Stage
<1>5. CASE ~ \E p \in Parent(t) : IsFile(live[p])
  <2>1. /\ stages' = stages \cup {t} /\ op' = [op EXCEPT !.pc = "staged"]
        /\ live' = [x \in Target |-> IF x \in Parent(t) THEN Dir ELSE live[x]]
        /\ tx' = tx /\ installed' = installed
    BY <1>5 DEF Stage
  <2>2. live' \in Trees
    <3>1. Parent(t) \in SUBSET Target BY DEF Parent
    <3>2. \A p \in Parent(t) : Parent(p) = {} BY OneParent
    <3> QED BY <1>1, <2>1, <3>1, <3>2, TreeGrow
  <2>3. /\ op'.pc = "staged" /\ op'.target = t /\ op'.todo = op.todo
        /\ op'.restoring = op.restoring /\ op' \in Operation
    BY <1>0, <1>1, <2>1 DEF Operation, Phase
  <2>4. TypeOK' /\ Shape' /\ Accepted' /\ Touched'
    BY <1>0, <1>1, <2>1, <2>2, <2>3, OpenGood DEF Open, Undoing, Aiming
  <2>5. tx.before[t] # Missing /\ t \in tx.staged BY <1>0, <1>1 DEF IInv, Restored, At
  <2>6. Staging'
    <3>1. NoStrayStage' BY <1>1, <2>1, <2>5 DEF IInv, Staging, NoStrayStage
    <3> QED BY <1>1, <2>1, <2>3, <2>5, <3>1 DEF Staging, At
  <2>7. \A s \in Untouched \ op.todo : live'[s] = tx.before[s]
    <3>1. tx.before \in Trees BY <1>1 DEF GoodJournal
    <3>2. \A p \in Parent(t) : tx.before[p] = Dir BY <2>5, <3>1, TreeFacts
    <3> QED BY <1>1, <1>2, <2>1, <3>2 DEF Untouched
  <2>8. Restored' BY <1>0, <1>2, <1>3, <2>1, <2>3, <2>7 DEF Restored, Untouched, At
  <2>9. Deleted' /\ Written' /\ Seen' BY <2>3 DEF Deleted, Written, Seen, At
  <2> QED BY <2>4, <2>6, <2>8, <2>9 DEF IInv
<1> QED BY <1>4, <1>5

LEMMA IntendRestoreGood == ASSUME IInv, NEW t \in Target, IntendRestore(t) PROVE IInv'
<1>0. At("staged") /\ op.target = t /\ Bounds /\ op.pc \in Open /\ op.pc \in Aiming
  BY DEF IntendRestore, At, Open, Undoing, Aiming
<1>1. GoodJournal(tx) /\ tx # None /\ tx.phase = "open" /\ op \in Operation /\ live \in Trees
      /\ op.todo \subseteq tx.entries /\ tx.entries \subseteq Target /\ installed \subseteq Target
      /\ op.restoring /\ stages \subseteq {t} /\ op.target \in op.todo
  BY <1>0, AimFacts DEF IInv, TypeOK, Shape, Undoing, At
<1>2. /\ \A s \in Untouched \ op.todo : live[s] = tx.before[s]
      /\ \A s \in op.todo : Inside[s] \cap tx.entries \subseteq op.todo
      /\ Parent(t) \cap op.todo = {}
  BY <1>0, <1>1 DEF IInv, Restored
<1>3. touched' = touched BY <1>0 DEF Bounds
<1>4. CASE ~Verified(t, FALSE)
  BY <1>0, <1>4, FailStays DEF IntendRestore
<1>5. CASE Verified(t, FALSE) /\ IsBefore(t)
  <2>1. Done(t) /\ tx' = tx /\ live' = live /\ installed' = installed
    BY <1>5 DEF IntendRestore, Files
  <2>2. live[t] = tx.before[t] BY <1>5, BeforeIsBefore
  <2> QED BY <1>0, <1>1, <1>2, <2>1, <2>2, DoneGood
<1>6. ASSUME Verified(t, FALSE), ~IsBefore(t), NEW pc \in {"remove", "arm"},
             op' = [op EXCEPT !.pc = pc], GoodJournal(tx'), SamePlan(tx', tx), tx'.staged = tx.staged,
             stages' = stages, live' = live, installed' = installed
      PROVE  IInv'
  <2>1. /\ op'.pc = pc /\ op'.target = t /\ op'.todo = op.todo
        /\ op'.restoring = op.restoring /\ op' \in Operation
    BY <1>0, <1>1, <1>6 DEF Operation, Phase
  <2>2. TypeOK' /\ Shape' /\ Accepted' /\ Touched'
    BY <1>0, <1>1, <1>6, <2>1, OpenGood DEF SamePlan, Open, Undoing, Aiming
  <2>3. Staging'
    BY <1>0, <1>1, <1>6, <2>1 DEF IInv, Staging, NoStrayStage, SamePlan, GoodJournal, At
  <2>4. Restored' BY <1>0, <1>2, <1>3, <1>6, <2>1 DEF Restored, Untouched, SamePlan, At
  <2>5. Deleted' /\ Written' /\ Seen' BY <1>1, <2>1 DEF Deleted, Written, Seen, At
  <2> QED BY <2>2, <2>3, <2>4, <2>5 DEF IInv
<1>7. CASE Verified(t, FALSE) /\ ~IsBefore(t) /\ Dir \in {tx.before[t], live[t]}
  <2>1. tx' = Intended(t) /\ op' = [op EXCEPT !.pc = "remove"] /\ stages' = stages
        /\ live' = live /\ installed' = installed
    BY <1>7 DEF IntendRestore, Files
  <2> QED BY <1>1, <1>6, <1>7, <2>1, IntendedIsGood
<1>8. CASE Verified(t, FALSE) /\ ~IsBefore(t) /\ Dir \notin {tx.before[t], live[t]}
  <2>1. tx' = tx /\ op' = [op EXCEPT !.pc = "arm"] /\ stages' = stages
        /\ live' = live /\ installed' = installed
    BY <1>8 DEF IntendRestore, Files
  <2>2. SamePlan(tx, tx) BY DEF SamePlan
  <2> QED BY <1>1, <1>6, <1>8, <2>1, <2>2
<1> QED BY <1>4, <1>5, <1>7, <1>8

LEMMA ArmRestoreGood == ASSUME IInv, NEW t \in Target, ArmRestore(t) PROVE IInv'
<1>0. At("arm") /\ op.target = t /\ Bounds /\ op.pc \in Open /\ op.pc \in Aiming
  BY DEF ArmRestore, At, Open, Undoing, Aiming
<1>1. GoodJournal(tx) /\ tx # None /\ tx.phase = "open" /\ op \in Operation /\ live \in Trees
      /\ op.todo \subseteq tx.entries /\ tx.entries \subseteq Target /\ installed \subseteq Target
      /\ op.restoring /\ stages \subseteq {t} /\ op.target \in op.todo
  BY <1>0, AimFacts DEF IInv, TypeOK, Shape, Undoing, At
<1>2. /\ \A s \in Untouched \ op.todo : live[s] = tx.before[s]
      /\ \A s \in op.todo : Inside[s] \cap tx.entries \subseteq op.todo
      /\ Parent(t) \cap op.todo = {}
  BY <1>0, <1>1 DEF IInv, Restored
<1>3. touched' = touched BY <1>0 DEF Bounds
<1>4. CASE ~Verified(t, FALSE) \/ (tx.before[t] = Dir /\ live[t] # Missing)
  BY <1>0, <1>4, FailStays DEF ArmRestore
<1>5. CASE ~(~Verified(t, FALSE) \/ (tx.before[t] = Dir /\ live[t] # Missing)) /\ IsBefore(t)
  <2>1. Done(t) /\ tx' = tx /\ live' = live /\ installed' = installed
    BY <1>5 DEF ArmRestore, Files
  <2>2. live[t] = tx.before[t] BY <1>5, BeforeIsBefore
  <2> QED BY <1>0, <1>1, <1>2, <2>1, <2>2, DoneGood
<1>6. CASE ~(~Verified(t, FALSE) \/ (tx.before[t] = Dir /\ live[t] # Missing)) /\ ~IsBefore(t)
  <2> DEFINE fresh == IF live[t] = Missing THEN {t} ELSE {}
  <2>1. tx' = Armed({t}, Inside[t]) /\ op' = [op EXCEPT !.pc = "install", !.fresh = fresh]
        /\ stages' = stages /\ live' = live /\ installed' = installed
    BY <1>6 DEF ArmRestore, Files
  <2>2. fresh \subseteq Target OBVIOUS
  <2> HIDE DEF fresh
  <2>3. GoodJournal(tx') /\ SamePlan(tx', tx) /\ tx'.staged = tx.staged
    <3>1. {t} \in SUBSET tx.entries BY <1>0, <1>1
    <3> QED BY <1>1, <2>1, <3>1, ArmedIsGood
  <2>4. /\ op'.pc = "install" /\ op'.target = t /\ op'.todo = op.todo
        /\ op'.restoring = op.restoring /\ op' \in Operation
    BY <1>0, <1>1, <2>1, <2>2 DEF Operation, Phase
  <2>5. TypeOK' /\ Shape' /\ Accepted' /\ Touched'
    BY <1>0, <1>1, <2>1, <2>3, <2>4, OpenGood DEF SamePlan, Open, Undoing, Aiming
  <2>6. Staging'
    BY <1>0, <1>1, <2>1, <2>3, <2>4 DEF IInv, Staging, NoStrayStage, SamePlan, GoodJournal, At
  <2>7. Restored' BY <1>0, <1>2, <1>3, <2>1, <2>3, <2>4 DEF Restored, Untouched, SamePlan, At
  <2>8. Deleted' /\ Written' /\ Seen' BY <2>4 DEF Deleted, Written, Seen, At
  <2> QED BY <2>5, <2>6, <2>7, <2>8 DEF IInv
<1> QED BY <1>4, <1>5, <1>6

LEMMA InstallBeforeGood == ASSUME IInv, NEW t \in Target, InstallBefore(t) PROVE IInv'
<1>0. At("install") /\ op.target = t /\ Bounds /\ op.pc \in Open /\ op.pc \in Aiming
  BY DEF InstallBefore, At, Open, Undoing, Aiming
<1>1. GoodJournal(tx) /\ tx # None /\ tx.phase = "open" /\ op \in Operation /\ live \in Trees
      /\ op.todo \subseteq tx.entries /\ tx.entries \subseteq Target /\ installed \subseteq Target
      /\ op.restoring /\ stages \subseteq {t} /\ op.target \in op.todo
  BY <1>0, AimFacts DEF IInv, TypeOK, Shape, Undoing, At
<1>2. /\ \A s \in Untouched \ op.todo : live[s] = tx.before[s]
      /\ \A s \in op.todo : Inside[s] \cap tx.entries \subseteq op.todo
      /\ Parent(t) \cap op.todo = {}
  BY <1>0, <1>1 DEF IInv, Restored
<1>3. touched' = touched BY <1>0 DEF Bounds
<1> DEFINE Fits == /\ Verified(t, t \in op.fresh) /\ (live[t] = Dir => IsBefore(t))
                   /\ \A p \in Parent(t) : live[p] = Dir
<1>4. CASE ~Fits
  BY <1>0, <1>4, FailStays DEF InstallBefore
<1>5. CASE Fits
  <2>1. /\ live' = [x \in Target |-> IF x \in Below(t) THEN tx.before[x] ELSE live[x]]
        /\ installed' = (installed \ Inside[t]) \cup {t}
        /\ Done(t) /\ tx' = tx
    BY <1>5 DEF InstallBefore
  <2>2. tx.before \in Trees BY <1>1 DEF GoodJournal
  <2>3. live' \in Trees BY <1>1, <1>5, <2>1, <2>2, TreeGraft
  <2>4. live'[t] = tx.before[t] BY <2>1 DEF Below
  <2>5. \A s \in Untouched \ op.todo : live'[s] = tx.before[s]
    BY <1>1, <1>2, <2>1 DEF Untouched
  <2>6. installed' \subseteq Target BY <1>1, <2>1
  <2> HIDE DEF Fits
  <2> QED BY <1>0, <1>1, <2>1, <2>3, <2>4, <2>5, <2>6, DoneGood
<1> QED BY <1>4, <1>5

LEMMA DeleteFileGood == ASSUME IInv, NEW t \in Target, DeleteFile(t) PROVE IInv'
<1>1. /\ live' = [x \in Target |-> IF x \in Below(t) THEN Missing ELSE live[x]]
      /\ gone' = gone \cup (Below(t) \cap installed)
      /\ unclear' = unclear \cup
             {x \in Below(t) \cap gone' : tx # None /\ tx.pending \cap {t, x} # {}}
      /\ Edited(t) /\ edits < MaxEdit
  BY DEF DeleteFile, MayEdit
<1>2. live \in Trees /\ installed \subseteq Target /\ gone \subseteq Target /\ unclear \subseteq gone
  BY DEF IInv, TypeOK
<1>3. live' \in Trees
  <2> DEFINE nothing == [x \in Target |-> Missing]
  <2>1. nothing \in Trees /\ nothing[t] = Missing BY NothingIsATree
  <2>2. live' = [x \in Target |-> IF x \in Below(t) THEN nothing[x] ELSE live[x]] BY <1>1
  <2> HIDE DEF nothing
  <2> QED BY <1>2, <2>1, <2>2, TreeGraft
<1>4. \A s \in Target \ Below(t) : live'[s] = live[s] BY <1>1
<1>5. \A x \in Target : live'[x] \in {live[x], Missing} BY <1>1
<1>6. At("removing") => Below(op.target) \subseteq Target
  BY TreeAssumption, AimFacts DEF Below, At, Open, Aiming
<1>7. tx' = tx BY <1>1 DEF Edited
<1>8. gone' \subseteq Target /\ unclear' \subseteq gone' BY <1>1, <1>2
<1> QED BY <1>1, <1>3, <1>4, <1>5, <1>6, <1>7, <1>8, EditGood

LEMMA WriteFileGood == ASSUME IInv, NEW t \in Target, NEW v \in Content, WriteFile(t, v) PROVE IInv'
<1>1. /\ live' = [live EXCEPT ![t] = v] /\ live[t] \notin {v, Dir}
      /\ \A p \in Parent(t) : live[p] = Dir
      /\ gone' = gone \ Below(t) /\ unclear' = unclear \ Below(t)
      /\ Edited(t) /\ edits < MaxEdit /\ ~(At("removing") /\ t \in Below(op.target))
  BY DEF WriteFile, MayEdit, At
<1>2. live \in Trees /\ live \in [Target -> Node] /\ gone \subseteq Target /\ unclear \subseteq gone
  BY DEF IInv, TypeOK, Trees
<1>3. live' \in Trees
  <2>1. v \in Node /\ v # Missing /\ v # Dir BY DEF Node
  <2> QED BY <1>1, <1>2, <2>1, TreeSet, TreeFacts
<1>4. \A s \in Target : s # t => live'[s] = live[s] BY <1>1, <1>2
<1>5. t \in Below(t) BY DEF Below
<1>6. At("removing") => Below(op.target) \subseteq Target
  BY TreeAssumption, AimFacts DEF Below, At, Open, Aiming
<1>7. tx' = tx BY <1>1 DEF Edited
<1> QED BY <1>1, <1>2, <1>3, <1>4, <1>5, <1>6, <1>7, EditGood

LEMMA IOErrorGood == ASSUME IInv, IOError PROVE IInv'
<1>1. op.pc \in Open BY DEF IOError, IInv, TypeOK, Phase, Open, Undoing
<1>2. faults' \in 0 .. MaxFault BY BoundAssumption DEF IOError, Fault, IInv, TypeOK
<1> QED BY <1>1, <1>2, FailGood DEF IOError

LEMMA CrashGood == ASSUME IInv, Crash PROVE IInv'
<1>1. /\ ~At("idle") /\ op' = Idle /\ tx' = IF tx.phase = "planned" THEN None ELSE tx
      /\ UNCHANGED <<live, stages, installed, applies, edits, touched, gone, unclear>>
  BY DEF Crash, Stop
<1>2. faults' \in 0 .. MaxFault BY BoundAssumption DEF Crash, Fault, IInv, TypeOK
<1>3. op'.pc = "idle" /\ op'.todo = {} /\ op'.restoring = FALSE /\ op' \in Operation
      /\ op'.fresh = {} /\ op'.target = None
  BY <1>1 DEF Idle, Operation, Phase
<1>4. tx # None /\ GoodJournal(tx) BY <1>1, JournalIsGood DEF IInv, Shape
<1>5. TypeOK' BY <1>1, <1>2, <1>3 DEF IInv, TypeOK, Phase
<1>6. Shape'
  BY <1>1, <1>3, <1>4 DEF Shape, GoodJournal, At, Applying, Undoing, Aiming, Open
<1>7. Staging'
  BY <1>1, <1>3, <1>4 DEF IInv, Staging, NoStrayStage, Aiming, At
<1>8. Accepted' BY <1>1 DEF IInv, Accepted, Whole, Untouched
<1>9. Touched' BY <1>1 DEF IInv, Touched
<1>10. Restored' /\ Deleted' /\ Written' /\ Seen'
  BY <1>3 DEF Restored, Deleted, Written, Seen, At, Aiming
<1> QED BY <1>5, <1>6, <1>7, <1>8, <1>9, <1>10 DEF IInv

-----------------------------------------------------------------------------
(* The whole system. *)

LEMMA InitGood == Init => IInv
<1> SUFFICES ASSUME Init PROVE IInv OBVIOUS
<1>1. op.pc = "idle" /\ op \in Operation /\ op.todo = {} /\ op.restoring = FALSE
      /\ op.fresh = {} /\ op.target = None
  BY DEF Init, Idle, Operation, Phase
<1>2. TypeOK
  <2>1. applies \in 0 .. MaxApply /\ edits \in 0 .. MaxEdit /\ faults \in 0 .. MaxFault
    BY BoundAssumption DEF Init
  <2>2. live \in Trees /\ tx = None /\ stages = {} /\ touched = {} /\ installed = {} /\ gone = {}
        /\ unclear = {}
    BY DEF Init
  <2> QED BY <1>1, <2>1, <2>2 DEF TypeOK, Phase
<1>3. Shape BY <1>1 DEF Init, Shape, At, Applying, Undoing, Aiming, Open
<1>4. Staging /\ Restored /\ Deleted /\ Written /\ Touched /\ Accepted /\ Seen
  BY <1>1 DEF Init, Staging, NoStrayStage, Restored, Deleted, Written, Touched, Accepted, Seen,
              Aiming, At
<1> QED BY <1>2, <1>3, <1>4 DEF IInv

LEMMA StutterGood == ASSUME IInv, UNCHANGED vars PROVE IInv'
<1>1. TypeOK' /\ Shape' BY DEF IInv, TypeOK, Shape, vars, At
<1>2. Staging' /\ Restored' /\ Deleted' /\ Touched'
  BY DEF IInv, Staging, NoStrayStage, Restored, Deleted, Declared, Touched, Untouched, vars, At
<1>3. Written' /\ Accepted' /\ Seen'
  BY DEF IInv, Written, Accepted, Whole, Untouched, Seen, vars, At
<1> QED BY <1>1, <1>2, <1>3 DEF IInv

LEMMA StepGood == ASSUME IInv, [Next]_vars PROVE IInv'
<1>1. CASE UNCHANGED vars BY <1>1, StutterGood
<1>2. CASE \E after \in Snapshots : Plan(after) BY <1>2, PlanGood
<1>3. CASE ApplyStep
  BY <1>3, PrepareGood, PublishJournalGood, RetireIntentsGood, IntendDeleteGood, MakeParentGood,
     InstallGood, CompleteGood, RemoveBackupGood, RemoveTransactionGood DEF ApplyStep
<1>4. CASE RemoveStep
  BY <1>4, RemoveGood, RemoveTopGood, RemoveInsideGood DEF RemoveStep
<1>5. CASE RestoreStep
  BY <1>5, BeginRecoveryGood, VerifyGroupGood, RemoveStagesGood, SkipRestoredGood, IntendUndoGood,
     ClaimStageGood, StageGood, IntendRestoreGood, ArmRestoreGood, InstallBeforeGood
     DEF RestoreStep
<1>6. CASE UserStep BY <1>6, DeleteFileGood, WriteFileGood DEF UserStep
<1>7. CASE IOError \/ Crash BY <1>7, IOErrorGood, CrashGood
<1> QED
  BY <1>1, <1>2, <1>3, <1>4, <1>5, <1>6, <1>7 DEF Next, TransactionStep

\* The facts about journal, files and run hold at every moment.
THEOREM Invariance == Spec => []IInv
<1> QED BY InitGood, StepGood, PTL DEF Spec

\* Every variable keeps its type: the files stay a tree, and no target is both
\* to be removed and being replaced (validateJournal).
THEOREM TransactionTypeCorrect == Spec => []TypeOK
<1>1. IInv => TypeOK BY DEF IInv
<1> QED BY <1>1, Invariance, PTL

\* Whatever fails, no staging file is left without the claim by which the next
\* recovery removes it.
THEOREM StagesAreClaimed == Spec => []NoStrayStage
<1>1. IInv => NoStrayStage BY DEF IInv, Staging
<1> QED BY <1>1, Invariance, PTL

-----------------------------------------------------------------------------
(* How a transaction ends. *)

\* A step drops the transaction, keeps it, or is one of a run that goes on.
LEMMA RunsGoOn ==
    ASSUME IInv, Next PROVE tx' = tx \/ op'.pc # "idle" \/ RemoveTransaction \/ Crash
<1>1. op \in Operation BY DEF IInv, Shape
<1>2. CASE \E after \in Snapshots : Plan(after) BY <1>2 DEF Plan, Idle
<1>3. CASE Prepare \/ PublishJournal \/ RetireIntents \/ Complete
  BY <1>1, <1>3 DEF Prepare, PublishJournal, RetireIntents, Complete, Fail, Operation
<1>4. CASE RemoveBackup
  BY <1>4 DEF RemoveBackup, At
<1>5. ASSUME NEW t \in Target, IntendDelete(t) \/ MakeParent(t) \/ Install(t)
      PROVE  tx' = tx \/ op'.pc # "idle"
  BY <1>1, <1>5 DEF IntendDelete, MakeParent, Install, Fail, Operation
<1>6. CASE RemoveStep
  BY <1>6 DEF RemoveStep, Remove, RemoveTop, RemoveInside, Fail
<1>7. CASE BeginRecovery \/ VerifyGroup \/ RemoveStages
  BY <1>7 DEF BeginRecovery, VerifyGroup, RemoveStages
<1>8. ASSUME NEW t \in Target,
             \/ SkipRestored(t) \/ IntendUndo(t) \/ ClaimStage(t) \/ Stage(t)
             \/ IntendRestore(t) \/ ArmRestore(t) \/ InstallBefore(t)
      PROVE  tx' = tx \/ op'.pc # "idle"
  <2>1. CASE SkipRestored(t) \/ Stage(t) \/ InstallBefore(t)
    BY <2>1 DEF SkipRestored, Stage, InstallBefore, Fail
  <2>2. CASE IntendUndo(t) BY <1>1, <2>2 DEF IntendUndo, Fail, Operation
  <2>3. CASE ClaimStage(t) BY <1>1, <2>3 DEF ClaimStage, Fail, Operation
  <2>4. CASE IntendRestore(t) BY <1>1, <2>4 DEF IntendRestore, Fail, Operation
  <2>5. CASE ArmRestore(t) BY <1>1, <2>5 DEF ArmRestore, Fail, Operation
  <2> QED BY <1>8, <2>1, <2>2, <2>3, <2>4, <2>5
<1>9. CASE UserStep BY <1>9 DEF UserStep, DeleteFile, WriteFile, Edited
<1>10. CASE IOError BY <1>10 DEF IOError, Fail
<1> QED
  BY <1>2, <1>3, <1>4, <1>5, <1>6, <1>7, <1>8, <1>9, <1>10
     DEF Next, TransactionStep, ApplyStep, RestoreStep

LEMMA StepEndsWhole ==
    ASSUME IInv, [Next]_vars
    PROVE  tx # None /\ tx' = None /\ tx.phase # "planned" => Whole
<1> SUFFICES ASSUME tx # None, tx' = None, tx.phase # "planned" PROVE Whole
  OBVIOUS
<1>1. Next BY DEF vars
<1>2. IInv' BY StepGood
<1>3. op'.pc = "idle" BY <1>2 DEF IInv, Shape, At
<1>4. RemoveTransaction \/ Crash BY <1>1, <1>3, RunsGoOn
<1>5. CASE RemoveTransaction
  BY <1>5 DEF RemoveTransaction, IInv, Shape, Accepted, At
<1>6. CASE Crash BY <1>6 DEF Crash
<1> QED BY <1>4, <1>5, <1>6

\* A transaction that ends leaves the whole group as the snapshot has it, or
\* the whole group as it was, whatever failed and however often Pi crashed on
\* the way; files that somebody edited meanwhile apart.
THEOREM GroupEndsWhole == Spec => EndsWhole
<1>1. IInv /\ [Next]_vars => (tx # None /\ tx' = None /\ tx.phase # "planned" => Whole)
  BY StepEndsWhole
<1>2. Spec => [][tx # None /\ tx' = None /\ tx.phase # "planned" => Whole]_vars
  BY <1>1, Invariance, PTL DEF Spec
<1>3. [tx # None /\ tx' = None /\ tx.phase # "planned" => Whole]_vars
         => [tx # None /\ tx' = None /\ tx.phase # "planned" =>
                LET untouched == tx.entries \ touched
                IN  \/ \A t \in untouched : live[t] = tx.after[t]
                    \/ \A t \in untouched : live[t] = tx.before[t]]_vars
  BY DEF Whole, Untouched
<1> QED BY <1>2, <1>3, PTL DEF EndsWhole

-----------------------------------------------------------------------------
(* Whose bytes a step may take. *)

Recognises ==
    edits' = edits =>
        \A t \in Target : IsFile(live[t]) /\ live'[t] # live[t] =>
            live[t] \in {tx.before[t], tx.after[t]}

LEMMA StepRecognises == ASSUME IInv, [Next]_vars PROVE Recognises
<1> USE DEF Recognises
<1>1. ASSUME live' = live PROVE Recognises BY <1>1
<1>2. ASSUME Fail PROVE live' = live BY <1>2 DEF Fail
<1>3. live \in Trees /\ live \in [Target -> Node] BY DEF IInv, TypeOK, Trees
<1>4. CASE UNCHANGED vars BY <1>1, <1>4 DEF vars
<1>5. CASE \E after \in Snapshots : Plan(after) BY <1>3, <1>5 DEF Plan, IsFile
<1>6. CASE ApplyStep
  <2>1. ASSUME NEW t \in Target, MakeParent(t) PROVE Recognises
    BY <1>1, <1>2, <1>3, <2>1 DEF MakeParent, Parent, IsFile
  <2>2. ASSUME NEW t \in Target, Install(t) PROVE Recognises
    <3>1. CASE Fail BY <1>1, <1>2, <3>1
    <3>2. CASE Verified(t, t \in op.fresh)
      <4>1. tx # None BY <2>2 DEF Install, IInv, Shape, At
      <4>2. \A x \in Below(t) : IsFile(live[x]) => live[x] \in {tx.before[x], tx.after[x]}
        BY <3>2, <4>1, VerifiedIsSeen
      <4>3. \A s \in Target : s # t => live'[s] = live[s]
        BY <1>2, <1>3, <2>2 DEF Install
      <4> QED BY <4>2, <4>3 DEF Below
    <3> QED BY <2>2, <3>1, <3>2 DEF Install
  <2>3. ASSUME NEW t \in Target, IntendDelete(t) PROVE Recognises
    BY <1>1, <1>2, <2>3 DEF IntendDelete, Files
  <2>4. CASE Prepare \/ PublishJournal \/ RetireIntents
    BY <1>1, <1>2, <2>4 DEF Prepare, PublishJournal, RetireIntents, Files
  <2>5. CASE Complete \/ RemoveBackup \/ RemoveTransaction
    BY <1>1, <2>5 DEF Complete, RemoveBackup, RemoveTransaction, Files
  <2> QED BY <1>6, <2>1, <2>2, <2>3, <2>4, <2>5 DEF ApplyStep
<1>7. CASE RemoveStep
  <2>1. ASSUME NEW t \in Target, Remove(t) PROVE Recognises
    BY <1>1, <1>2, <2>1 DEF Remove, Files
  <2>2. ASSUME NEW t \in Target, RemoveTop(t) PROVE Recognises
    <3>1. IsFile(live[t]) => live[t] \in {tx.before[t], tx.after[t]}
      BY <2>2 DEF RemoveTop, IInv, Seen, Below
    <3>2. \A s \in Target : s # t => live'[s] = live[s] BY <1>3, <2>2 DEF RemoveTop
    <3> QED BY <3>1, <3>2
  <2>3. ASSUME NEW t \in Target, NEW x \in Inside[t], RemoveInside(t, x) PROVE Recognises
    <3>1. IsFile(live[x]) => live[x] \in {tx.before[x], tx.after[x]}
      BY <2>3 DEF RemoveInside, IInv, Seen, Below
    <3>2. \A s \in Target : s # x => live'[s] = live[s] BY <1>3, <2>3 DEF RemoveInside
    <3> QED BY <3>1, <3>2
  <2> QED BY <1>7, <2>1, <2>2, <2>3 DEF RemoveStep
<1>8. CASE RestoreStep
  <2>1. CASE BeginRecovery \/ VerifyGroup \/ RemoveStages
    BY <1>1, <2>1 DEF BeginRecovery, VerifyGroup, RemoveStages, Files
  <2>2. ASSUME NEW t \in Target, Stage(t) PROVE Recognises
    BY <1>1, <1>2, <1>3, <2>2 DEF Stage
  <2>3. ASSUME NEW t \in Target, InstallBefore(t) PROVE Recognises
    <3>1. CASE Fail BY <1>1, <1>2, <3>1
    <3>2. CASE Verified(t, t \in op.fresh) /\ ~Fail
      <4>1. tx # None BY <2>3 DEF InstallBefore, IInv, Shape, At
      <4>2. \A x \in Below(t) : IsFile(live[x]) => live[x] \in {tx.before[x], tx.after[x]}
        BY <3>2, <4>1, VerifiedIsSeen
      <4>3. \A s \in Target : s \notin Below(t) => live'[s] = live[s]
        BY <2>3, <3>2 DEF InstallBefore
      <4> QED BY <4>2, <4>3
    <3> QED BY <2>3, <3>1, <3>2 DEF InstallBefore
  <2>4. ASSUME NEW t \in Target, SkipRestored(t) \/ IntendUndo(t) \/ ClaimStage(t)
        PROVE  Recognises
    BY <1>1, <1>2, <2>4 DEF SkipRestored, IntendUndo, ClaimStage, Files
  <2>5. ASSUME NEW t \in Target, IntendRestore(t) \/ ArmRestore(t) PROVE Recognises
    BY <1>1, <1>2, <2>5 DEF IntendRestore, ArmRestore, Files
  <2> QED BY <1>8, <2>1, <2>2, <2>3, <2>4, <2>5 DEF RestoreStep
<1>9. CASE UserStep
  <2>1. edits \in Nat BY BoundAssumption DEF IInv, TypeOK
  <2> QED BY <1>9, <2>1 DEF UserStep, DeleteFile, WriteFile, Edited
<1>10. CASE IOError \/ Crash BY <1>1, <1>2, <1>10 DEF IOError, Crash
<1> QED
  BY <1>4, <1>5, <1>6, <1>7, <1>8, <1>9, <1>10 DEF Next, TransactionStep

\* Bytes that are neither those of the backup nor those of the snapshot are
\* never replaced or removed, whoever wrote them (verifyTarget).
THEOREM UnrecognisedStand == Spec => UnrecognisedBytesStand
<1>1. IInv /\ [Next]_vars => Recognises BY StepRecognises
<1>2. Spec => [][Recognises]_vars BY <1>1, Invariance, PTL DEF Spec
<1>3. [Recognises]_vars
         => [edits' = edits =>
                \A t \in Target : IsFile(live[t]) /\ live'[t] # live[t] =>
                    live[t] \in {tx.before[t], tx.after[t]}]_vars
  BY DEF Recognises
<1> QED BY <1>2, <1>3, PTL DEF UnrecognisedBytesStand

-----------------------------------------------------------------------------
(* What a user deleted after the transaction had installed it, unless the    *)
(* journal said then that it was to be removed.                              *)

Gone == gone \ unclear

\* Only targets are installed, and what is missing is not installed.
Installed ==
    /\ installed \cup gone \subseteq tx.entries
    /\ \A t \in installed \cup gone : t \in Writes(tx.after) \/ tx.before[t] # Missing
    /\ \A t \in installed : live[t] # Missing /\ (live[t] = Dir => tx.before[t] = Dir)

\* A directory is a target only if a file is to take its place.
DirectoryTargets ==
    \A t \in tx.entries :
        tx.before[t] = Dir \/ (At("prepare") /\ live[t] = Dir) => t \in Writes(tx.after)

\* What was deleted is not there, and no declaration explains that.
Unexplained ==
    /\ \A t \in Gone : live[t] = Missing /\ t \notin tx.pending
    /\ \A t \in Gone : \A p \in Parent(t) :
           ~IsFile(live[p]) /\ (live[p] = Missing => p \notin tx.pending)

\* A declaration is about a directory and all that is in it.
DeclaredTogether ==
    /\ \A p \in installed : live[p] = Dir /\ p \notin tx.pending => Inside[p] \cap tx.pending = {}
    /\ \A p \in tx.pending : tx.before[p] # Dir =>
           Inside[p] \cap (installed \cup Gone) \subseteq tx.pending

\* Nothing is installed before the snapshot's files are, each once.
InstalledOnce ==
    /\ ~op.restoring /\ op.pc \in {"prepare", "publish", "delete", "remove", "removing"} =>
           installed = {} /\ gone = {}
    /\ At("write") => /\ installed \cup gone \subseteq Writes(tx.after) \ op.todo
                      /\ \A t \in tx.pending : PostFiles(t) = {}

\* What the target of a removal or of a restoration may be.
AimedAt ==
    /\ op.pc \in {"remove", "removing"} => Below(op.target) \cap tx.entries \subseteq tx.pending
    /\ op.restoring /\ op.pc \in Aiming /\ tx.before[op.target] # Missing =>
           /\ Parent(op.target) \cap Gone = {}
           /\ Parent(op.target) \cap installed \subseteq tx.pending
    /\ op.pc \in {"stage", "staged", "arm", "install"} => tx.before[op.target] # Missing
    /\ At("arm") \/ At("install") => live[op.target] # Dir /\ Inside[op.target] \cap Gone = {}
    /\ At("install") => /\ Below(op.target) \cap tx.pending = {}
                        /\ op.target \in installed \cup Gone => op.target \notin op.fresh

\* What has been restored in this run stays so, or its deletion is final.
RestoredStays ==
    op.restoring /\ op.pc \in Aiming \cup {"restore"} =>
        /\ \A t \in installed \ op.todo : live[t] = tx.before[t]
        /\ \A t \in Gone \ op.todo : tx.before[t] = Dir => Inside[t] \cap tx.pending = {}

Kept ==
    /\ Installed /\ DirectoryTargets /\ Unexplained /\ DeclaredTogether
    /\ InstalledOnce /\ AimedAt /\ RestoredStays

\* A transaction that has not begun, or has ended, keeps nothing.
KInv == tx # None => Kept

LEMMA KeptFacts ==
    ASSUME IInv, tx # None
    PROVE  /\ GoodJournal(tx) /\ op \in Operation /\ op.todo \subseteq tx.entries
           /\ live \in Trees /\ live \in [Target -> Node]
           /\ tx.before \in Trees /\ tx.after \in Trees
           /\ tx.entries \subseteq Target /\ tx.pending \subseteq tx.entries
           /\ Writes(tx.after) \subseteq tx.entries
           /\ installed \subseteq Target /\ gone \subseteq Target /\ Gone \subseteq gone
<1>1. GoodJournal(tx) BY JournalIsGood
<1>2. live \in Trees /\ live \in [Target -> Node] BY DEF IInv, TypeOK, Trees
<1>3. tx.before \in Trees /\ tx.after \in Trees /\ tx.entries \subseteq Target
      /\ tx.pending \subseteq tx.entries /\ Writes(tx.after) \subseteq tx.entries
  BY <1>1 DEF GoodJournal, Snapshots, Transaction
<1> QED BY <1>1, <1>2, <1>3 DEF IInv, TypeOK, Shape, Gone

\* What was deleted is never recognised, unless it has its old image.
LEMMA GoneIsUnrecognised ==
    ASSUME IInv, tx # None, Kept, NEW t \in tx.entries, Verified(t, FALSE), ~IsBefore(t)
    PROVE  Below(t) \cap Gone = {}
<1>0. t \in Target BY KeptFacts
<1>1. tx.before \in Trees /\ tx.after \in Trees /\ live \in Trees /\ Gone \subseteq gone
      /\ tx.pending \subseteq tx.entries
  BY KeptFacts
<1>2. SUFFICES ASSUME NEW x \in Below(t), x \in Gone PROVE FALSE
  OBVIOUS
<1>3. live[x] = Missing /\ x \notin tx.pending BY <1>2 DEF Kept, Unexplained
<1>4. CASE x = t
  BY <1>3, <1>4 DEF Verified, Removed, IsAfter, OwnedPostTree, IsFile
<1>5. CASE x \in Inside[t]
  <2>1. t \in Parent(x) /\ x \in Target BY <1>0, <1>5, TreeAssumption DEF Parent
  <2>2. ~IsFile(live[t]) /\ (live[t] = Missing => t \notin tx.pending)
    BY <1>2, <2>1 DEF Kept, Unexplained
  <2>3. OwnedPostTree(t, t \in tx.started \/ t \notin tx.pending)
    BY <2>2 DEF Verified, Removed, IsAfter
  <2>4. PICK y \in Inside[t] : IsFile(tx.after[y]) BY <2>3 DEF OwnedPostTree, PostFiles
  <2>5. tx.after[t] = Dir BY <1>0, <1>1, <2>4, TreeFacts DEF IsFile
  <2>6. t \notin Writes(tx.after) BY <2>5 DEF Writes, IsFile
  <2>7. x \in tx.entries /\ (x \in Writes(tx.after) \/ tx.before[x] # Missing)
    BY <1>1, <1>2 DEF Kept, Installed
  <2>8. tx.before[t] # Dir BY <2>6 DEF Kept, DirectoryTargets
  <2>9. tx.before[x] = Missing BY <1>0, <1>1, <1>5, <2>8, TreeFacts
  <2>10. IsFile(tx.after[x]) BY <2>7, <2>9 DEF Writes
  <2>11. ~(t \in tx.started \/ t \notin tx.pending)
    BY <1>3, <1>5, <2>3, <2>10 DEF OwnedPostTree, PostFiles, IsFile
  <2>12. x \in tx.pending BY <1>2, <1>5, <2>8, <2>11 DEF Kept, DeclaredTogether
  <2> QED BY <1>3, <2>12
<1> QED BY <1>4, <1>5 DEF Below

-----------------------------------------------------------------------------
(* Steps that change no file. *)

\* What the journal says of the files is as before.
SameImages ==
    /\ tx' # None
    /\ tx'.before = tx.before /\ tx'.after = tx.after /\ tx'.entries = tx.entries
    /\ UNCHANGED <<live, installed, gone, unclear>>

LEMMA FilesKept ==
    ASSUME Kept, SameImages, tx'.pending = tx.pending, op'.pc # "prepare"
    PROVE  Installed' /\ DirectoryTargets' /\ Unexplained' /\ DeclaredTogether'
<1> USE DEF SameImages
<1>1. Gone' = Gone BY DEF Gone
<1>2. Installed' BY DEF Kept, Installed, Writes
<1>3. DirectoryTargets' BY DEF Kept, DirectoryTargets, Writes, At
<1>4. Unexplained' BY <1>1 DEF Kept, Unexplained
<1>5. DeclaredTogether' BY <1>1 DEF Kept, DeclaredTogether
<1> QED BY <1>2, <1>3, <1>4, <1>5

\* A run that touches nothing for now.
Quiet == {"idle", "clean", "verify", "unstage"}

LEMMA QuietKept ==
    ASSUME Kept, SameImages, tx'.pending = tx.pending, op'.pc \in Quiet
    PROVE  Kept'
<1>1. InstalledOnce' /\ AimedAt' /\ RestoredStays'
  BY DEF InstalledOnce, AimedAt, RestoredStays, Aiming, At, Quiet
<1> QED BY <1>1, FilesKept DEF Kept, Quiet

LEMMA FailKept == ASSUME tx # None, Kept, Fail, UNCHANGED <<gone, unclear>> PROVE Kept'
<1>1. tx' = tx /\ live' = live /\ installed' = installed BY DEF Fail
<1>2. op'.pc \in Quiet BY DEF Fail, Idle, Quiet
<1> QED BY <1>1, <1>2, QuietKept DEF SameImages

\* A target that has its old image needs nothing.
LEMMA RestoredKept ==
    ASSUME IInv, Kept, op.restoring, op.pc \in Aiming \cup {"restore"},
           NEW t \in Target, t \in op.todo, IsBefore(t),
           op'.pc = "restore", op'.todo = op.todo \ {t}, op'.restoring = op.restoring,
           tx' = tx, UNCHANGED <<live, installed, gone, unclear>>
    PROVE  Kept'
<1>0. tx # None BY DEF IInv, Shape, Aiming, At
<1>1. Installed' /\ DirectoryTargets' /\ Unexplained' /\ DeclaredTogether'
  BY <1>0, FilesKept DEF SameImages
<1>2. InstalledOnce' /\ AimedAt' BY DEF InstalledOnce, AimedAt, At, Aiming
<1>3. RestoredStays'
  <2>1. live[t] = tx.before[t] BY BeforeIsBefore
  <2>2. t \in Gone => tx.before[t] # Dir BY <2>1, NodeAssumption DEF Kept, Unexplained
  <2> QED BY <2>1, <2>2 DEF Kept, RestoredStays, Gone
<1> QED BY <1>1, <1>2, <1>3 DEF Kept

\* Before the snapshot's files are installed, nothing can be deleted again.
LEMMA NothingInstalledKept ==
    ASSUME Kept, SameImages, op.pc \in {"prepare", "publish", "delete"}, ~op.restoring,
           ~op'.restoring, op'.pc \in {"publish", "delete", "remove"},
           op'.pc = "remove" => Below(op'.target) \cap tx.entries \subseteq tx'.pending
    PROVE  Kept'
<1>1. installed = {} /\ gone = {} BY DEF Kept, InstalledOnce
<1>2. installed' = {} /\ gone' = {} /\ Gone' = {} BY <1>1 DEF SameImages, Gone
<1>3. Installed' /\ Unexplained' /\ DeclaredTogether' /\ InstalledOnce'
  BY <1>2 DEF Installed, Unexplained, DeclaredTogether, InstalledOnce, At
<1>4. DirectoryTargets' BY DEF Kept, DirectoryTargets, SameImages, Writes, At
<1>5. AimedAt' /\ RestoredStays' BY DEF AimedAt, RestoredStays, SameImages, At
<1> QED BY <1>3, <1>4, <1>5 DEF Kept

\* The removal of t is declared, together with that of all that is in it.
LEMMA IntendedKept ==
    ASSUME IInv, tx # None, Kept, NEW t \in tx.entries, tx' = Intended(t),
           Below(t) \cap Gone = {}, op'.pc # "prepare",
           \A p \in Parent(t) \cap installed : live[p] = Dir => p \in tx.pending,
           UNCHANGED <<live, installed, gone, unclear>>
    PROVE  /\ Installed' /\ DirectoryTargets' /\ Unexplained' /\ DeclaredTogether'
           /\ SameImages /\ tx'.pending = tx.pending \cup (Below(t) \cap tx.entries)
<1>1. t \in Target /\ GoodJournal(tx) /\ Gone \subseteq gone BY KeptFacts
<1>2. tx' # None /\ SamePlan(tx', tx) /\ tx'.pending = tx.pending \cup (Below(t) \cap tx.entries)
  BY <1>1, IntendedIsGood DEF GoodJournal
<1>3. SameImages BY <1>2 DEF SameImages, SamePlan
<1>4. Gone' = Gone BY DEF Gone
<1>5. Installed' /\ DirectoryTargets'
  BY <1>3 DEF SameImages, Kept, Installed, DirectoryTargets, Writes, At
<1>6. \A x \in Inside[t] : Inside[x] = {} /\ Parent(x) = {t}
  BY <1>1, TreeAssumption, OneParent DEF Parent
<1>7. Unexplained'
  <2>1. ASSUME NEW s \in Gone, NEW p \in Parent(s), live[p] = Missing PROVE p \notin Below(t)
    <3>1. s \in Target /\ p \in Target /\ s \in Inside[p] BY <2>1, KeptFacts DEF Parent
    <3>2. p \notin Inside[t] BY <1>6, <3>1
    <3>3. p # t BY <2>1, <3>1 DEF Below
    <3> QED BY <3>2, <3>3 DEF Below
  <2> QED BY <1>2, <1>3, <1>4, <2>1 DEF SameImages, Kept, Unexplained
<1>8. DeclaredTogether'
  <2>1. ASSUME NEW p \in installed, live[p] = Dir, p \notin tx'.pending
        PROVE  Inside[p] \cap tx'.pending = {}
    <3>1. p \in tx.entries /\ p \in Target /\ p \notin Below(t)
      BY <1>2, <2>1, KeptFacts DEF Kept, Installed
    <3>2. t \notin Inside[p] BY <1>2, <2>1, <3>1 DEF Parent
    <3>3. Inside[p] \cap Inside[t] = {}
      <4>1. SUFFICES ASSUME NEW x \in Inside[p], x \in Inside[t] PROVE FALSE OBVIOUS
      <4>2. p \in Parent(x) BY <3>1, <4>1 DEF Parent
      <4> QED BY <1>6, <3>1, <4>1, <4>2 DEF Below
    <3>4. Inside[p] \cap tx.pending = {} BY <1>2, <2>1 DEF Kept, DeclaredTogether
    <3> QED BY <1>2, <3>2, <3>3, <3>4 DEF Below
  <2>2. ASSUME NEW p \in tx'.pending, tx.before[p] # Dir
        PROVE  Inside[p] \cap (installed \cup Gone) \subseteq tx'.pending
    <3>1. CASE p \in tx.pending BY <1>2, <2>2, <3>1 DEF Kept, DeclaredTogether
    <3>2. CASE p = t BY <1>1, <1>2, <3>2 DEF Kept, Installed, Below
    <3>3. CASE p \in Inside[t] BY <1>6, <3>3
    <3> QED BY <1>2, <2>2, <3>1, <3>2, <3>3 DEF Below
  <2> QED BY <1>3, <1>4, <2>1, <2>2 DEF SameImages, DeclaredTogether
<1> QED BY <1>2, <1>3, <1>5, <1>7, <1>8

-----------------------------------------------------------------------------
(* Each step, again. *)

LEMMA PlanKept == ASSUME IInv, NEW after \in Snapshots, Plan(after) PROVE Kept'
<1>1. /\ live' = [t \in Target |-> IF t \in UNION {Parent(s) : s \in Writes(after)} /\ live[t] = Missing
                                   THEN Dir ELSE live[t]]
      /\ tx' = [phase |-> "planned", backup |-> TRUE, before |-> live, after |-> after,
                deletes |-> Deletes(live, after), entries |-> Writes(after) \cup Deletes(live, after),
                pending |-> {}, started |-> {}, staged |-> {}]
      /\ op' = [Idle EXCEPT !.pc = "prepare"]
      /\ installed' = {} /\ gone' = {} /\ unclear' = {}
  BY DEF Plan
<1>2. /\ tx'.before = live /\ tx'.after = after /\ tx'.pending = {}
      /\ tx'.entries = Writes(after) \cup Deletes(live, after)
  BY <1>1
<1>3. op'.pc = "prepare" /\ op'.restoring = FALSE BY <1>1 DEF Idle
<1>4. Gone' = {} BY <1>1 DEF Gone
<1>5. Installed' /\ Unexplained' /\ DeclaredTogether' /\ InstalledOnce'
  BY <1>1, <1>2, <1>3, <1>4 DEF Installed, Unexplained, DeclaredTogether, InstalledOnce, At
<1>6. DirectoryTargets'
  <2>1. ASSUME NEW t \in tx'.entries, t \notin Writes(after) PROVE IsFile(live[t]) /\ t \in Target
    BY <1>2, <2>1, ManagedAssumption DEF Deletes
  <2>2. ASSUME NEW t \in tx'.entries, t \notin Writes(after) PROVE live[t] # Dir /\ live'[t] # Dir
    BY <1>1, <2>1, <2>2 DEF IsFile
  <2> QED BY <1>2, <2>2 DEF DirectoryTargets, Writes
<1>7. AimedAt' /\ RestoredStays' BY <1>3 DEF AimedAt, RestoredStays, Aiming, At
<1> QED BY <1>5, <1>6, <1>7 DEF Kept

LEMMA PrepareKept == ASSUME IInv, Kept, Prepare PROVE Kept'
<1>1. At("prepare") /\ ~op.restoring /\ tx # None /\ op \in Operation /\ tx \in Transaction
  BY DEF Prepare, IInv, TypeOK, Shape, Applying, At
<1>2. tx'.before = live /\ tx'.after = tx.after /\ tx'.pending = tx.pending /\ tx'.entries = tx.entries
  BY <1>1 DEF Prepare, Transaction
<1>3. op'.pc = "publish" /\ op'.restoring = op.restoring BY <1>1 DEF Prepare, Operation
<1>4. installed' = {} /\ gone' = {} /\ Gone' = {}
  BY <1>1 DEF Prepare, Kept, InstalledOnce, Gone, At
<1>5. Installed' /\ Unexplained' /\ DeclaredTogether' /\ InstalledOnce'
  BY <1>3, <1>4 DEF Installed, Unexplained, DeclaredTogether, InstalledOnce, At
<1>6. DirectoryTargets'
  BY <1>1, <1>2, <1>3 DEF Prepare, Kept, DirectoryTargets, Writes, At
<1>7. AimedAt' /\ RestoredStays' BY <1>3 DEF AimedAt, RestoredStays, Aiming, At
<1> QED BY <1>5, <1>6, <1>7 DEF Kept

LEMMA PublishJournalKept == ASSUME IInv, Kept, PublishJournal PROVE Kept'
<1>1. At("publish") /\ ~op.restoring /\ tx # None /\ op \in Operation /\ tx \in Transaction
  BY DEF PublishJournal, IInv, TypeOK, Shape, Applying, At
<1>2. /\ tx'.before = tx.before /\ tx'.after = tx.after /\ tx'.pending = tx.pending
      /\ tx'.entries = tx.entries /\ tx' # None
  <2>1. tx' \in Transaction BY <1>1 DEF PublishJournal, Transaction
  <2> QED BY <1>1, <2>1 DEF PublishJournal, Transaction
<1>3. op'.pc = "delete" /\ op'.restoring = op.restoring BY <1>1 DEF PublishJournal, Operation
<1> QED
  BY <1>1, <1>2, <1>3, NothingInstalledKept DEF PublishJournal, SameImages, Files, Bounds, At

LEMMA IntendDeleteKept == ASSUME IInv, Kept, NEW t \in Target, IntendDelete(t) PROVE Kept'
<1>0. At("delete") /\ t \in op.todo /\ Bounds /\ op.pc \in Open /\ tx # None /\ ~op.restoring
  BY DEF IntendDelete, IInv, Shape, Applying, At, Open
<1>1. CASE Fail BY <1>0, <1>1, FailKept DEF Bounds
<1>2. CASE ~Fail
  <2>1. /\ tx' = Intended(t) /\ op' = [op EXCEPT !.pc = "remove", !.target = t]
        /\ live' = live /\ installed' = installed
    BY <1>2 DEF IntendDelete, Files
  <2>2. GoodJournal(tx) /\ op \in Operation BY <1>0, KeptFacts
  <2>3. /\ SamePlan(tx', tx) /\ tx' # None
        /\ tx'.pending = tx.pending \cup (Below(t) \cap tx.entries)
    BY <2>1, <2>2, IntendedIsGood DEF GoodJournal
  <2>4. op'.pc = "remove" /\ op'.target = t /\ op'.restoring = op.restoring
    BY <2>1, <2>2 DEF Operation
  <2>5. SameImages BY <1>0, <2>1, <2>3 DEF SameImages, SamePlan, Bounds
  <2> QED BY <1>0, <2>3, <2>4, <2>5, NothingInstalledKept DEF At
<1> QED BY <1>1, <1>2

LEMMA RetireIntentsKept == ASSUME IInv, Kept, RetireIntents PROVE Kept'
<1>0. At("delete") /\ Bounds /\ tx # None /\ ~op.restoring
  BY DEF RetireIntents, IInv, Shape, Applying, At
<1>1. CASE Fail BY <1>0, <1>1, FailKept DEF Bounds
<1>2. CASE ~Fail
  <2> DEFINE ts == {t \in tx.pending : IsFile(tx.after[t]) \/ PostFiles(t) # {}}
  <2>1. /\ tx' = Armed(ts, {}) /\ live' = live /\ installed' = installed
        /\ op' = [op EXCEPT !.pc = "write", !.todo = Writes(tx.after), !.fresh = DeletedWrites]
    BY <1>2 DEF RetireIntents, Files
  <2>2. GoodJournal(tx) /\ op \in Operation /\ tx.pending \subseteq tx.entries BY <1>0, KeptFacts
  <2>3. SamePlan(tx', tx) /\ tx' # None /\ tx'.pending = (tx.pending \ {}) \ ts
    <3>1. ts \in SUBSET tx.entries BY <2>2
    <3> HIDE DEF ts
    <3> QED BY <2>1, <2>2, <3>1, ArmedIsGood DEF GoodJournal
  <2>4. op'.pc = "write" /\ op'.restoring = op.restoring /\ op'.todo = Writes(tx.after)
    BY <2>1, <2>2 DEF Operation
  <2>5. installed' = {} /\ gone' = {} /\ Gone' = {}
    BY <1>0, <2>1 DEF Kept, InstalledOnce, Bounds, Gone, At
  <2>6. InstalledOnce'
    BY <2>3, <2>4, <2>5 DEF InstalledOnce, SamePlan, PostFiles, At
  <2>7. DirectoryTargets' BY <1>0, <2>1, <2>3, <2>4 DEF Kept, DirectoryTargets, SamePlan, Writes, At
  <2>8. Installed' /\ Unexplained' /\ DeclaredTogether'
    BY <2>5 DEF Installed, Unexplained, DeclaredTogether
  <2>9. AimedAt' /\ RestoredStays' BY <2>4 DEF AimedAt, RestoredStays, Aiming, At
  <2> QED BY <2>6, <2>7, <2>8, <2>9 DEF Kept
<1> QED BY <1>1, <1>2

LEMMA FinishKept ==
    ASSUME IInv, tx # None, Kept, Complete \/ RemoveBackup \/ BeginRecovery \/ VerifyGroup
    PROVE  Kept'
<1>1. op \in Operation /\ tx \in Transaction /\ GoodJournal(tx) BY KeptFacts DEF GoodJournal
<1>2. op'.pc \in Quiet
  <2>1. CASE Complete \/ RemoveBackup BY <1>1, <2>1 DEF Complete, RemoveBackup, Operation, Quiet, At
  <2>2. CASE BeginRecovery BY <2>2 DEF BeginRecovery, Idle, Quiet
  <2>3. CASE VerifyGroup
    <3>1. op' = [op EXCEPT !.pc = "unstage"] \/ op' = Idle BY <2>3 DEF VerifyGroup, Stop
    <3> QED BY <1>1, <3>1 DEF Idle, Operation, Quiet
  <2> QED BY <2>1, <2>2, <2>3
<1>3. tx' \in Transaction /\ tx'.before = tx.before /\ tx'.after = tx.after
      /\ tx'.pending = tx.pending /\ tx'.entries = tx.entries
  BY <1>1 DEF Complete, RemoveBackup, BeginRecovery, VerifyGroup, Transaction
<1>4. SameImages
  BY <1>3 DEF Complete, RemoveBackup, BeginRecovery, VerifyGroup, Files, Bounds, SameImages
<1> QED BY <1>2, <1>3, <1>4, QuietKept

LEMMA RemoveStagesKept == ASSUME IInv, Kept, RemoveStages PROVE Kept'
<1>1. At("unstage") /\ tx # None /\ op \in Operation /\ op.restoring
  BY DEF RemoveStages, IInv, Shape, Undoing, At
<1>2. op'.pc = "restore" /\ op'.todo = tx.entries /\ op'.restoring = op.restoring
  BY <1>1 DEF RemoveStages, Operation
<1>3. tx' = tx /\ SameImages BY <1>1 DEF RemoveStages, Files, Bounds, SameImages
<1>4. Installed' /\ DirectoryTargets' /\ Unexplained' /\ DeclaredTogether'
  BY <1>2, <1>3, FilesKept
<1>5. InstalledOnce' /\ AimedAt' BY <1>1, <1>2 DEF InstalledOnce, AimedAt, At, Aiming
<1>6. RestoredStays' BY <1>2, <1>3 DEF RestoredStays, SameImages, Kept, Installed, Gone
<1> QED BY <1>4, <1>5, <1>6 DEF Kept

LEMMA SkipRestoredKept == ASSUME IInv, Kept, NEW t \in Target, SkipRestored(t) PROVE Kept'
<1>1. At("restore") /\ t \in op.todo /\ IsBefore(t) /\ op \in Operation /\ op.restoring
  BY DEF SkipRestored, Outermost, IInv, Shape, Undoing, At
<1>2. op'.pc = "restore" /\ op'.todo = op.todo \ {t} /\ op'.restoring = op.restoring
  BY <1>1 DEF SkipRestored, Operation, At
<1> QED BY <1>1, <1>2, RestoredKept DEF SkipRestored, Files, Bounds, At

LEMMA DoneKept ==
    ASSUME IInv, Kept, op.restoring, op.pc \in Aiming, NEW t \in Target, op.target = t,
           IsBefore(t), Done(t), tx' = tx, Files, Bounds
    PROVE  Kept'
<1>1. op \in Operation /\ t \in op.todo BY DEF IInv, Shape
<1>2. op'.pc = "restore" /\ op'.todo = op.todo \ {t} /\ op'.restoring = op.restoring
  BY <1>1 DEF Done, Operation
<1> QED BY <1>1, <1>2, RestoredKept DEF Files, Bounds

LEMMA MakeParentKept == ASSUME IInv, Kept, NEW t \in Target, MakeParent(t) PROVE Kept'
<1>0. At("write") /\ t \in op.todo /\ Bounds /\ tx # None BY DEF MakeParent, IInv, Shape, At
<1>1. CASE Fail BY <1>0, <1>1, FailKept DEF Bounds
<1>2. CASE ~Fail
  <2>1. PICK p \in Parent(t) : live[p] = Missing /\ live' = [live EXCEPT ![p] = Dir]
                               /\ UNCHANGED <<tx, stages, op, installed>>
    BY <1>2 DEF MakeParent
  <2>2. UNCHANGED <<gone, unclear>> /\ Gone' = Gone BY <1>0 DEF Bounds, Gone
  <2>3. live \in [Target -> Node] /\ tx.after \in Trees /\ Gone \subseteq gone
        /\ installed \cup gone \subseteq Target
    BY <1>0, KeptFacts
  <2>4. p \in Target /\ t \in Inside[p] /\ tx.after[p] = Dir
    <3>1. t \in Writes(tx.after) BY <1>0 DEF IInv, Written
    <3> QED BY <2>3, <3>1, OneParent, TreeFacts DEF Writes, IsFile
  <2>5. p \notin installed /\ p \notin Gone
    <3>1. p \notin Writes(tx.after) BY <2>4 DEF Writes, IsFile
    <3> QED BY <1>0, <2>3, <3>1 DEF Kept, InstalledOnce
  <2>6. \A s \in Target : live'[s] = IF s = p THEN Dir ELSE live[s] BY <2>1, <2>3
  <2>7. Installed' BY <2>1, <2>2, <2>3, <2>5, <2>6 DEF Kept, Installed, Writes
  <2>8. DirectoryTargets' /\ InstalledOnce' /\ AimedAt' /\ RestoredStays'
    BY <1>0, <2>1, <2>2
       DEF Kept, DirectoryTargets, InstalledOnce, AimedAt, RestoredStays, Writes, PostFiles, Aiming, At
  <2>9. Unexplained'
    BY <2>1, <2>2, <2>3, <2>5, <2>6 DEF Kept, Unexplained, Parent, IsFile
  <2>10. DeclaredTogether' BY <2>1, <2>2, <2>3, <2>5, <2>6 DEF Kept, DeclaredTogether
  <2> QED BY <2>7, <2>8, <2>9, <2>10 DEF Kept
<1> QED BY <1>1, <1>2

LEMMA InstallKept == ASSUME IInv, Kept, NEW t \in Target, Install(t) PROVE Kept'
<1>0. At("write") /\ t \in op.todo /\ Bounds /\ tx # None BY DEF Install, IInv, Shape, At
<1>1. CASE Fail BY <1>0, <1>1, FailKept DEF Bounds
<1>2. CASE ~Fail
  <2>1. /\ live' = [live EXCEPT ![t] = tx.after[t]] /\ installed' = installed \cup {t}
        /\ op' = [op EXCEPT !.todo = @ \ {t}, !.fresh = @ \ {t}] /\ tx' = tx
    BY <1>2 DEF Install
  <2>2. UNCHANGED <<gone, unclear>> /\ Gone' = Gone BY <1>0 DEF Bounds, Gone
  <2>3. live \in [Target -> Node] /\ tx.after \in Trees /\ Gone \subseteq gone /\ op \in Operation
        /\ installed \cup gone \subseteq Target /\ Writes(tx.after) \subseteq tx.entries
        /\ tx.entries \subseteq Target /\ tx.pending \subseteq tx.entries
    BY <1>0, KeptFacts
  <2>4. t \in Writes(tx.after) /\ IsFile(tx.after[t]) BY <1>0 DEF IInv, Written, Writes
  <2>5. op'.pc = "write" /\ op'.todo = op.todo \ {t} /\ op'.restoring = op.restoring
    BY <1>0, <2>1, <2>3 DEF Operation, At
  <2>6. \A s \in Target : live'[s] = IF s = t THEN tx.after[t] ELSE live[s] BY <2>1, <2>3
  <2>7. Gone \subseteq Writes(tx.after) /\ t \notin Gone /\ Inside[t] \cap Gone = {}
    <3>1. Gone \subseteq Writes(tx.after) \ op.todo BY <1>0, <2>3 DEF Kept, InstalledOnce
    <3>2. \A x \in Inside[t] : tx.after[x] = Missing BY <2>3, <2>4, TreeFacts DEF IsFile
    <3> QED BY <1>0, <3>1, <3>2 DEF Writes, IsFile
  <2>8. Installed'
    BY <2>1, <2>2, <2>3, <2>4, <2>6 DEF Kept, Installed, Writes, IsFile
  <2>9. Unexplained'
    <3>1. \A s \in Gone : \A p \in Parent(s) : p # t /\ p \in Target BY <2>7 DEF Parent
    <3> QED BY <2>1, <2>2, <2>3, <2>6, <2>7, <3>1 DEF Kept, Unexplained
  <2>10. DeclaredTogether'
    <3>1. ASSUME NEW p \in tx.pending PROVE t \notin Inside[p]
      BY <1>0, <2>4, <3>1 DEF Kept, InstalledOnce, PostFiles
    <3>2. live'[t] # Dir BY <2>4, <2>6 DEF IsFile
    <3> QED BY <2>1, <2>2, <2>3, <2>6, <3>1, <3>2 DEF Kept, DeclaredTogether
  <2>11. InstalledOnce'
    BY <1>0, <2>1, <2>2, <2>4, <2>5 DEF Kept, InstalledOnce, Writes, PostFiles, At
  <2>12. DirectoryTargets' /\ AimedAt' /\ RestoredStays'
    BY <2>1, <2>5 DEF Kept, DirectoryTargets, AimedAt, RestoredStays, Writes, Aiming, At
  <2> QED BY <2>8, <2>9, <2>10, <2>11, <2>12 DEF Kept
<1> QED BY <1>1, <1>2

LEMMA RemoveKept == ASSUME IInv, Kept, NEW t \in Target, Remove(t) PROVE Kept'
<1>0. At("remove") /\ op.target = t /\ Bounds /\ op.pc \in Aiming /\ tx # None /\ op \in Operation
  BY DEF Remove, IInv, Shape, Aiming, At
<1>1. CASE Fail BY <1>0, <1>1, FailKept DEF Bounds
<1>2. CASE op.restoring /\ IsBefore(t) /\ Done(t) /\ tx' = tx /\ Files
  BY <1>0, <1>2, DoneKept
<1>3. CASE op' = [op EXCEPT !.pc = "removing"] /\ UNCHANGED <<tx, stages>> /\ Files
  <2>1. op'.pc = "removing" /\ op'.target = t /\ op'.restoring = op.restoring /\ op'.todo = op.todo
    BY <1>0, <1>3 DEF Operation
  <2>2. tx' = tx /\ SameImages BY <1>0, <1>3 DEF SameImages, Files, Bounds
  <2>3. Installed' /\ DirectoryTargets' /\ Unexplained' /\ DeclaredTogether' BY <2>1, <2>2, FilesKept
  <2>4. Gone' = Gone BY <2>2 DEF SameImages, Gone
  <2>5. InstalledOnce' BY <1>0, <2>1, <2>2 DEF SameImages, Kept, InstalledOnce, At
  <2>6. AimedAt' BY <1>0, <2>1, <2>2, <2>4 DEF SameImages, Kept, AimedAt, At
  <2>7. RestoredStays' BY <1>0, <2>1, <2>2, <2>4 DEF SameImages, Kept, RestoredStays, Aiming
  <2> QED BY <2>3, <2>5, <2>6, <2>7 DEF Kept
<1> QED BY <1>0, <1>1, <1>2, <1>3 DEF Remove

LEMMA RemoveInsideKept ==
    ASSUME IInv, Kept, NEW t \in Target, NEW x \in Inside[t], RemoveInside(t, x) PROVE Kept'
<1>1. /\ live' = [live EXCEPT ![x] = Missing] /\ installed' = installed \ {x} /\ tx' = tx
      /\ op' = op /\ UNCHANGED <<gone, unclear>> /\ At("removing") /\ tx # None
  BY DEF RemoveInside, Bounds, IInv, Shape, At
<1>2. live \in [Target -> Node] /\ Gone \subseteq gone /\ installed \cup gone \subseteq Target
  BY <1>1, KeptFacts
<1>3. x \in Target /\ Inside[x] = {} /\ Gone' = Gone
  BY <1>1, TreeAssumption, OneParent DEF Parent, Gone
<1>4. \A s \in Target : live'[s] = IF s = x THEN Missing ELSE live[s] BY <1>1, <1>2
<1>5. Installed' BY <1>1, <1>2, <1>4 DEF Kept, Installed, Writes
<1>6. DirectoryTargets' BY <1>1 DEF Kept, DirectoryTargets, Writes, At
<1>7. Unexplained'
  <2>1. \A s \in Gone : \A p \in Parent(s) : p # x /\ p \in Target BY <1>3 DEF Parent
  <2> QED BY <1>1, <1>2, <1>3, <1>4, <2>1 DEF Kept, Unexplained
<1>8. DeclaredTogether' BY <1>1, <1>2, <1>3, <1>4 DEF Kept, DeclaredTogether
<1>9. InstalledOnce' /\ AimedAt'
  BY <1>1, <1>3 DEF Kept, InstalledOnce, AimedAt, At
<1>10. RestoredStays' BY <1>1, <1>2, <1>3, <1>4 DEF Kept, RestoredStays, At
<1> QED BY <1>5, <1>6, <1>7, <1>8, <1>9, <1>10 DEF Kept

LEMMA RemoveTopKept == ASSUME IInv, Kept, NEW t \in Target, RemoveTop(t) PROVE Kept'
<1>1. /\ live' = [live EXCEPT ![t] = Missing] /\ installed' = installed \ {t} /\ tx' = tx
      /\ UNCHANGED <<gone, unclear>> /\ At("removing") /\ tx # None /\ op.target = t /\ t \in op.todo
      /\ op.pc \in Aiming
  BY DEF RemoveTop, Bounds, IInv, Shape, Aiming, At
<1>2. live \in [Target -> Node] /\ Gone \subseteq gone /\ installed \cup gone \subseteq Target
      /\ op \in Operation /\ t \in tx.entries /\ tx.entries \subseteq Target
  BY <1>1, KeptFacts
<1>3. AfterRemoval(t) \in {"delete", "restore", "arm"} BY DEF AfterRemoval
<1>4. /\ op'.pc = AfterRemoval(t) /\ op'.restoring = op.restoring
      /\ op'.todo = IF AfterRemoval(t) = "arm" THEN op.todo ELSE op.todo \ {t}
      /\ AfterRemoval(t) = "arm" => op'.target = t
  BY <1>2, <1>3 DEF RemoveTop, Operation
<1>5. Gone' = Gone BY <1>1 DEF Gone
<1>6. \A s \in Target : live'[s] = IF s = t THEN Missing ELSE live[s] BY <1>1, <1>2
<1>7. Below(t) \cap Gone = {}
  <2>1. Below(t) \cap tx.entries \subseteq tx.pending BY <1>1 DEF Kept, AimedAt, At
  <2>2. Gone \subseteq tx.entries /\ Gone \cap tx.pending = {}
    BY <1>2 DEF Kept, Installed, Unexplained
  <2> QED BY <2>1, <2>2
<1>8. Installed' BY <1>1, <1>2, <1>6 DEF Kept, Installed, Writes
<1>9. DirectoryTargets' BY <1>1, <1>3, <1>4 DEF Kept, DirectoryTargets, Writes, At
<1>10. Unexplained'
  <2>1. \A s \in Gone : \A p \in Parent(s) : p # t /\ p \in Target BY <1>7 DEF Parent, Below
  <2> QED BY <1>1, <1>2, <1>5, <1>6, <1>7, <2>1 DEF Kept, Unexplained
<1>11. DeclaredTogether' BY <1>1, <1>2, <1>5, <1>6 DEF Kept, DeclaredTogether
<1>12. InstalledOnce'
  BY <1>1, <1>3, <1>4 DEF Kept, InstalledOnce, At
<1>13. AimedAt'
  <2>1. CASE AfterRemoval(t) = "arm"
    <3>1. op.restoring /\ tx.before[t] # Missing BY <2>1 DEF AfterRemoval
    <3>2. live'[t] # Dir BY <1>2, <1>6
    <3>3. Inside[t] \cap Gone' = {} BY <1>5, <1>7 DEF Below
    <3> QED BY <1>1, <1>4, <1>5, <2>1, <3>1, <3>2, <3>3 DEF Kept, AimedAt, Aiming, At
  <2>2. CASE AfterRemoval(t) # "arm" BY <1>3, <1>4, <2>2 DEF AimedAt, Aiming, At
  <2> QED BY <2>1, <2>2
<1>14. RestoredStays'
  <2>1. CASE ~op.restoring BY <1>4, <2>1 DEF RestoredStays
  <2>2. CASE op.restoring
    <3>1. /\ \A s \in installed \ op.todo : live[s] = tx.before[s]
          /\ \A s \in Gone \ op.todo : tx.before[s] = Dir => Inside[s] \cap tx.pending = {}
      BY <1>1, <2>2 DEF Kept, RestoredStays
    <3>2. t \notin Gone /\ op.todo \subseteq op'.todo \cup {t} BY <1>4, <1>7 DEF Below
    <3> QED BY <1>1, <1>2, <1>5, <1>6, <3>1, <3>2 DEF RestoredStays
  <2> QED BY <2>1, <2>2
<1> QED BY <1>8, <1>9, <1>10, <1>11, <1>12, <1>13, <1>14 DEF Kept

LEMMA IntendUndoKept == ASSUME IInv, Kept, NEW t \in Target, IntendUndo(t) PROVE Kept'
<1>0. At("restore") /\ t \in Outermost(op.todo) /\ ~IsBefore(t) /\ tx.before[t] = Missing /\ Bounds
      /\ tx # None /\ op.restoring
  BY DEF IntendUndo, IInv, Shape, Undoing, At
<1>1. CASE Fail BY <1>0, <1>1, FailKept DEF Bounds
<1>2. CASE ~Fail
  <2>1. /\ Verified(t, FALSE) /\ tx' = Intended(t) /\ op' = [op EXCEPT !.pc = "remove", !.target = t]
        /\ live' = live /\ installed' = installed /\ UNCHANGED <<gone, unclear>>
    BY <1>0, <1>2 DEF IntendUndo, Files, Bounds
  <2>2. op \in Operation /\ live \in Trees /\ tx.before \in Trees /\ tx.after \in Trees
        /\ tx.entries \subseteq Target /\ Gone \subseteq gone /\ installed \cup gone \subseteq Target
        /\ t \in tx.entries /\ Parent(t) \cap op.todo = {}
    BY <1>0, KeptFacts DEF Outermost
  <2>3. Below(t) \cap Gone = {} BY <1>0, <2>1, <2>2, GoneIsUnrecognised
  <2>4. op'.pc = "remove" /\ op'.target = t /\ op'.restoring = op.restoring /\ op'.todo = op.todo
    BY <2>1, <2>2 DEF Operation
  \* An absence is the old image, so something is there.
  <2>5. live[t] # Missing
    <3>1. SUFFICES ASSUME live[t] = Missing PROVE IsBefore(t) BY <1>0
    <3>2. \A x \in Below(t) : live[x] = Missing /\ tx.before[x] = Missing
      BY <1>0, <2>2, <3>1, TreeFacts, NodeAssumption DEF Below
    <3> QED BY <3>2 DEF IsBefore, Image
  \* Inside a restored directory it would not be recognised.
  <2>6. ASSUME NEW p \in Parent(t), p \in installed, live[p] = Dir PROVE FALSE
    <3>1. p \in Target /\ t \in Inside[p] /\ Inside[t] = {} BY OneParent
    <3>2. live[p] = tx.before[p] /\ p \in tx.entries
      BY <1>0, <2>2, <2>6 DEF Kept, RestoredStays, Installed, At
    <3>3. IsFile(tx.after[p]) BY <2>6, <3>2 DEF Kept, DirectoryTargets, Writes
    <3>4. tx.after[t] = Missing BY <2>2, <3>1, <3>3, TreeFacts DEF IsFile
    <3> QED
      BY <1>0, <2>1, <2>5, <3>1, <3>4 DEF Verified, Removed, IsAfter, OwnedPostTree, PostFiles
  <2>7. /\ Installed' /\ DirectoryTargets' /\ Unexplained' /\ DeclaredTogether'
        /\ SameImages /\ tx'.pending = tx.pending \cup (Below(t) \cap tx.entries)
    BY <1>0, <2>1, <2>2, <2>3, <2>4, <2>6, IntendedKept
  <2>8. InstalledOnce' BY <1>0, <2>4 DEF InstalledOnce, At
  <2>9. AimedAt' BY <1>0, <2>4, <2>7 DEF AimedAt, SameImages, At
  <2>10. RestoredStays'
    <3>1. Gone' = Gone BY <2>7 DEF SameImages, Gone
    <3>2. ASSUME NEW s \in Gone \ op.todo PROVE Inside[s] \cap Below(t) = {}
      <4>1. s \in Target /\ live[s] = Missing /\ s # t
        BY <1>0, <2>2, <3>2 DEF Kept, Unexplained, Outermost
      <4>2. t \notin Inside[s] BY <2>2, <2>5, <4>1, TreeFacts DEF Parent
      <4>3. Inside[s] \cap Inside[t] = {} BY <4>1, TreeAssumption DEF Parent
      <4> QED BY <4>2, <4>3 DEF Below
    <3> QED
      BY <1>0, <2>4, <2>7, <3>1, <3>2 DEF Kept, RestoredStays, SameImages, Aiming, At
  <2> QED BY <2>7, <2>8, <2>9, <2>10 DEF Kept
<1> QED BY <1>1, <1>2

LEMMA ClaimStageKept == ASSUME IInv, Kept, NEW t \in Target, ClaimStage(t) PROVE Kept'
<1>0. At("restore") /\ t \in Outermost(op.todo) /\ ~IsBefore(t) /\ tx.before[t] # Missing /\ Bounds
      /\ tx # None /\ op.restoring
  BY DEF ClaimStage, IInv, Shape, Undoing, At
<1>1. CASE Fail BY <1>0, <1>1, FailKept DEF Bounds
<1>2. CASE ~Fail
  <2>1. /\ Verified(t, FALSE) /\ tx' = [tx EXCEPT !.staged = @ \cup {t}]
        /\ op' = [op EXCEPT !.pc = "stage", !.target = t] /\ Files
    BY <1>2 DEF ClaimStage
  <2>2. op \in Operation /\ live \in Trees /\ tx.before \in Trees /\ tx.after \in Trees
        /\ tx.entries \subseteq Target /\ Gone \subseteq gone /\ installed \cup gone \subseteq Target
        /\ t \in tx.entries /\ Parent(t) \cap op.todo = {} /\ tx \in Transaction
    BY <1>0, KeptFacts DEF Outermost, GoodJournal
  <2>3. op'.pc = "stage" /\ op'.target = t /\ op'.restoring = op.restoring /\ op'.todo = op.todo
    BY <2>1, <2>2 DEF Operation
  <2>4. SameImages /\ tx'.pending = tx.pending
    <3>1. tx' \in Transaction BY <2>1, <2>2 DEF Transaction
    <3> QED BY <1>0, <2>1, <2>2, <3>1 DEF Transaction, SameImages, Files, Bounds
  <2>5. Installed' /\ DirectoryTargets' /\ Unexplained' /\ DeclaredTogether' BY <2>3, <2>4, FilesKept
  <2>6. Gone' = Gone BY <2>4 DEF SameImages, Gone
  \* A target in a directory that was restored, or deleted since, is as it was,
  \* or was declared with it.
  <2>7. ASSUME NEW p \in Parent(t), p \in installed \cup Gone
        PROVE  p \in installed /\ p \in tx.pending
    <3>1. p \in Target /\ t \in Inside[p] /\ Inside[t] = {} BY OneParent
    <3>2. tx.before[p] = Dir BY <1>0, <2>2, TreeFacts
    <3>3. p \in tx.entries /\ p \notin op.todo BY <2>2, <2>7 DEF Kept, Installed
    <3>4. IsFile(tx.after[p]) BY <3>2, <3>3 DEF Kept, DirectoryTargets, Writes
    <3>5. tx.after[t] = Missing BY <2>2, <3>1, <3>4, TreeFacts DEF IsFile
    <3>6. t \in tx.pending /\ live[t] = Missing
      BY <1>0, <2>1, <3>1, <3>5 DEF Verified, Removed, IsAfter, OwnedPostTree, PostFiles, IsFile
    <3>7. p \notin Gone BY <1>0, <2>7, <3>1, <3>2, <3>3, <3>6 DEF Kept, RestoredStays, At
    <3>8. live[p] = Dir BY <1>0, <2>7, <3>2, <3>3, <3>7 DEF Kept, RestoredStays, At
    <3> QED BY <2>7, <3>1, <3>6, <3>7, <3>8 DEF Kept, DeclaredTogether
  <2>8. InstalledOnce' BY <1>0, <2>3 DEF InstalledOnce, At
  <2>9. Parent(t) \cap Gone = {} /\ Parent(t) \cap installed \subseteq tx.pending
    <3>1. \A p \in Parent(t) : p \in Gone => p \notin installed
      BY <2>2, NodeAssumption DEF Kept, Installed, Unexplained
    <3> QED BY <2>7, <3>1
  <2>10. AimedAt' BY <1>0, <2>3, <2>4, <2>6, <2>9 DEF AimedAt, SameImages, At
  <2>11. RestoredStays'
    BY <1>0, <2>3, <2>4, <2>6 DEF Kept, RestoredStays, SameImages, Aiming, At
  <2> QED BY <2>5, <2>8, <2>10, <2>11 DEF Kept
<1> QED BY <1>1, <1>2

LEMMA StageKept == ASSUME IInv, Kept, NEW t \in Target, Stage(t) PROVE Kept'
<1>0. At("stage") /\ op.target = t /\ Bounds /\ tx # None /\ op.restoring /\ op.pc \in Aiming
  BY DEF Stage, IInv, Shape, Undoing, Aiming, At
<1>1. CASE Fail BY <1>0, <1>1, FailKept DEF Bounds
<1>2. CASE ~Fail
  <2>1. /\ \A p \in Parent(t) : ~IsFile(live[p])
        /\ live' = [x \in Target |-> IF x \in Parent(t) THEN Dir ELSE live[x]]
        /\ op' = [op EXCEPT !.pc = "staged"] /\ tx' = tx /\ installed' = installed
    BY <1>2 DEF Stage
  <2>2. op \in Operation /\ live \in [Target -> Node] /\ Gone \subseteq gone
        /\ installed \cup gone \subseteq Target /\ tx.entries \subseteq Target
    BY <1>0, KeptFacts
  <2>3. op'.pc = "staged" /\ op'.target = t /\ op'.restoring = op.restoring /\ op'.todo = op.todo
    BY <1>0, <2>1, <2>2 DEF Operation
  <2>4. UNCHANGED <<gone, unclear>> /\ Gone' = Gone BY <1>0 DEF Bounds, Gone
  <2>5. /\ tx.before[t] # Missing /\ Parent(t) \cap Gone = {}
        /\ Parent(t) \cap installed \subseteq tx.pending
    BY <1>0 DEF Kept, AimedAt, At
  <2>6. \A s \in Target : live'[s] = IF s \in Parent(t) THEN Dir ELSE live[s] BY <2>1
  \* The directories that are made are none of those installed or deleted.
  <2>7. \A s \in installed \cup Gone : live'[s] = live[s]
    <3>1. \A s \in installed : s \in Parent(t) => live[s] = Dir
      BY <2>1, <2>2 DEF Kept, Installed, IsFile, Node
    <3> QED BY <2>2, <2>5, <2>6, <3>1
  <2>8. Installed' BY <2>1, <2>4, <2>7 DEF Kept, Installed, Writes
  <2>9. DirectoryTargets' BY <2>1, <2>3 DEF Kept, DirectoryTargets, Writes, At
  <2>10. Unexplained'
    <3>1. \A s \in Gone : \A p \in Parent(s) : p \in Target /\ live'[p] \in {live[p], Dir}
      BY <2>6 DEF Parent
    <3> QED BY <2>1, <2>4, <2>7, <3>1 DEF Kept, Unexplained, IsFile
  <2>11. DeclaredTogether' BY <2>1, <2>4, <2>7 DEF Kept, DeclaredTogether
  <2>12. InstalledOnce' BY <1>0, <2>3 DEF InstalledOnce, At
  <2>13. AimedAt' BY <2>1, <2>3, <2>4, <2>5 DEF AimedAt, At
  <2>14. RestoredStays'
    BY <1>0, <2>1, <2>3, <2>4, <2>7 DEF Kept, RestoredStays, Aiming, At
  <2> QED BY <2>8, <2>9, <2>10, <2>11, <2>12, <2>13, <2>14 DEF Kept
<1> QED BY <1>1, <1>2

LEMMA IntendRestoreKept == ASSUME IInv, Kept, NEW t \in Target, IntendRestore(t) PROVE Kept'
<1>0. At("staged") /\ op.target = t /\ Bounds /\ tx # None /\ op.restoring /\ op.pc \in Aiming
      /\ t \in op.todo
  BY DEF IntendRestore, IInv, Shape, Undoing, Aiming, At
<1>1. CASE Fail BY <1>0, <1>1, FailKept DEF Bounds
<1>2. CASE ~Fail /\ IsBefore(t)
  BY <1>0, <1>2, DoneKept DEF IntendRestore
<1>3. CASE ~Fail /\ ~IsBefore(t)
  <2>1. op \in Operation /\ t \in tx.entries /\ Gone \subseteq gone BY <1>0, KeptFacts
  <2>2. Verified(t, FALSE) /\ live' = live /\ installed' = installed /\ UNCHANGED <<gone, unclear>>
    BY <1>0, <1>3 DEF IntendRestore, Files, Bounds
  <2>3. Below(t) \cap Gone = {} BY <1>0, <1>3, <2>1, <2>2, GoneIsUnrecognised
  <2>4. /\ tx.before[t] # Missing /\ Parent(t) \cap Gone = {}
        /\ Parent(t) \cap installed \subseteq tx.pending
    BY <1>0 DEF Kept, AimedAt, At
  <2>5. CASE Dir \in {tx.before[t], live[t]}
    <3>1. tx' = Intended(t) /\ op' = [op EXCEPT !.pc = "remove"]
      BY <1>3, <2>2, <2>5 DEF IntendRestore
    <3>2. op'.pc = "remove" /\ op'.target = t /\ op'.restoring = op.restoring /\ op'.todo = op.todo
      BY <1>0, <2>1, <3>1 DEF Operation
    <3>3. /\ Installed' /\ DirectoryTargets' /\ Unexplained' /\ DeclaredTogether'
          /\ SameImages /\ tx'.pending = tx.pending \cup (Below(t) \cap tx.entries)
      BY <1>0, <2>1, <2>2, <2>3, <2>4, <3>1, <3>2, IntendedKept
    <3>4. Gone' = Gone BY <2>2 DEF Gone
    <3>5. InstalledOnce' BY <1>0, <3>2 DEF InstalledOnce, At
    <3>6. AimedAt' BY <1>0, <2>4, <3>2, <3>3, <3>4 DEF AimedAt, SameImages, At
    <3>7. RestoredStays'
      <4>1. ASSUME NEW s \in Gone \ op.todo PROVE Inside[s] \cap Below(t) = {}
        <5>1. s \in Target /\ s \notin Parent(t) /\ s # t
          BY <1>0, <2>1, <2>4, <4>1 DEF IInv, TypeOK
        <5>2. Inside[s] \cap Inside[t] = {} BY <5>1, TreeAssumption DEF Parent
        <5> QED BY <5>1, <5>2 DEF Below, Parent
      <4> QED
        BY <1>0, <3>2, <3>3, <3>4, <4>1 DEF Kept, RestoredStays, SameImages, Aiming, At
    <3> QED BY <3>3, <3>5, <3>6, <3>7 DEF Kept
  <2>6. CASE Dir \notin {tx.before[t], live[t]}
    <3>1. tx' = tx /\ op' = [op EXCEPT !.pc = "arm"] BY <1>3, <2>2, <2>6 DEF IntendRestore
    <3>2. op'.pc = "arm" /\ op'.target = t /\ op'.restoring = op.restoring /\ op'.todo = op.todo
      BY <1>0, <2>1, <3>1 DEF Operation
    <3>3. SameImages /\ Gone' = Gone BY <1>0, <2>2, <3>1 DEF SameImages, Gone
    <3>4. Installed' /\ DirectoryTargets' /\ Unexplained' /\ DeclaredTogether'
      BY <3>1, <3>2, <3>3, FilesKept
    <3>5. InstalledOnce' BY <1>0, <3>2 DEF InstalledOnce, At
    <3>6. AimedAt'
      BY <2>2, <2>3, <2>4, <2>6, <3>1, <3>2, <3>3 DEF AimedAt, Below, At
    <3>7. RestoredStays'
      BY <1>0, <2>2, <3>1, <3>2, <3>3 DEF Kept, RestoredStays, Aiming, At
    <3> QED BY <3>4, <3>5, <3>6, <3>7 DEF Kept
  <2> QED BY <2>5, <2>6
<1> QED BY <1>1, <1>2, <1>3

LEMMA ArmRestoreKept == ASSUME IInv, Kept, NEW t \in Target, ArmRestore(t) PROVE Kept'
<1>0. At("arm") /\ op.target = t /\ Bounds /\ tx # None /\ op.restoring /\ op.pc \in Aiming
      /\ t \in op.todo
  BY DEF ArmRestore, IInv, Shape, Undoing, Aiming, At
<1>1. CASE Fail BY <1>0, <1>1, FailKept DEF Bounds
<1>2. CASE ~Fail /\ IsBefore(t)
  BY <1>0, <1>2, DoneKept DEF ArmRestore
<1>3. CASE ~Fail /\ ~IsBefore(t)
  <2>1. op \in Operation /\ t \in tx.entries /\ Gone \subseteq gone /\ t \in Target /\ GoodJournal(tx)
        /\ tx.before \in Trees /\ installed \subseteq Target /\ gone \subseteq Target
    BY <1>0, KeptFacts
  <2>2. /\ Verified(t, FALSE) /\ live' = live /\ installed' = installed /\ UNCHANGED <<gone, unclear>>
        /\ tx' = Armed({t}, Inside[t])
        /\ op' = [op EXCEPT !.pc = "install", !.fresh = IF live[t] = Missing THEN {t} ELSE {}]
    BY <1>0, <1>3 DEF ArmRestore, Files, Bounds
  <2>3. Below(t) \cap Gone = {} BY <1>0, <1>3, <2>1, <2>2, GoneIsUnrecognised
  <2>4. /\ tx.before[t] # Missing /\ live[t] # Dir
        /\ Parent(t) \cap Gone = {} /\ Parent(t) \cap installed \subseteq tx.pending
    BY <1>0 DEF Kept, AimedAt, At
  <2>5. /\ op'.pc = "install" /\ op'.target = t /\ op'.restoring = op.restoring /\ op'.todo = op.todo
        /\ op'.fresh = IF live[t] = Missing THEN {t} ELSE {}
    BY <1>0, <2>1, <2>2 DEF Operation
  <2>6. SamePlan(tx', tx) /\ tx' # None /\ tx'.pending = tx.pending \ Below(t)
    <3>1. {t} \in SUBSET tx.entries BY <2>1
    <3>2. GoodJournal(tx') /\ SamePlan(tx', tx) /\ tx'.pending = (tx.pending \ Inside[t]) \ {t}
      BY <2>1, <2>2, <3>1, ArmedIsGood
    <3> QED BY <3>2 DEF Below, GoodJournal
  <2>7. SameImages /\ Gone' = Gone BY <2>2, <2>6 DEF SameImages, SamePlan, Gone
  <2>8. Installed' /\ DirectoryTargets' /\ Unexplained'
    BY <2>5, <2>6, <2>7
       DEF SameImages, Kept, Installed, DirectoryTargets, Unexplained, Writes, At
  <2>9. \A p \in Target : t \in Inside[p] => p \in Parent(t) /\ tx.before[p] = Dir
    BY <2>1, <2>4, TreeFacts DEF Parent
  <2>10. \A p \in Target : p # t => Inside[p] \cap Inside[t] = {}
    BY <2>1, TreeAssumption DEF Parent
  <2>11. DeclaredTogether'
    <3>1. ASSUME NEW p \in installed, live[p] = Dir, p \notin tx'.pending
          PROVE  Inside[p] \cap tx'.pending = {}
      <4>1. CASE p \in Below(t)
        <5>1. p \in Inside[t] BY <2>4, <3>1, <4>1 DEF Below
        <5>2. Inside[p] = {} BY <2>1, <5>1, OneParent DEF Parent
        <5> QED BY <5>2
      <4>2. CASE p \notin Below(t)
        BY <2>6, <3>1, <4>2 DEF Kept, DeclaredTogether
      <4> QED BY <4>1, <4>2
    <3>2. ASSUME NEW p \in tx'.pending, tx.before[p] # Dir
          PROVE  Inside[p] \cap (installed \cup Gone) \subseteq tx'.pending
      <4>1. p \in tx.pending /\ p # t /\ p \in Target
        BY <2>1, <2>6, <3>2 DEF Below, GoodJournal, Transaction
      <4>2. t \notin Inside[p] /\ Inside[p] \cap Inside[t] = {} BY <2>9, <2>10, <3>2, <4>1
      <4>3. Inside[p] \cap (installed \cup Gone) \subseteq tx.pending
        BY <3>2, <4>1 DEF Kept, DeclaredTogether
      <4> QED BY <2>6, <4>2, <4>3 DEF Below
    <3> QED BY <2>7, <3>1, <3>2 DEF SameImages, DeclaredTogether
  <2>12. InstalledOnce' BY <1>0, <2>5 DEF InstalledOnce, At
  <2>13. AimedAt'
    <3>1. Parent(t) \cap Below(t) = {} BY <2>1, OneParent DEF Below, Parent
    <3>2. t \in installed \cup Gone => live[t] # Missing
      BY <2>1, <2>3 DEF Kept, Installed, Below
    <3>3. Inside[t] \cap Gone = {} BY <2>3 DEF Below
    <3>4. Parent(t) \cap installed \subseteq tx'.pending BY <2>4, <2>6, <3>1
    <3> QED BY <2>4, <2>5, <2>6, <2>7, <3>2, <3>3, <3>4 DEF AimedAt, SameImages, At
  <2>14. RestoredStays'
    BY <1>0, <2>5, <2>6, <2>7 DEF Kept, RestoredStays, SameImages, Aiming, At
  <2> QED BY <2>8, <2>11, <2>12, <2>13, <2>14 DEF Kept
<1> QED BY <1>1, <1>2, <1>3

\* What is to be restored was not deleted.
LEMMA InstallBeforeFacts ==
    ASSUME IInv, Kept, NEW t \in Target, InstallBefore(t), ~Fail
    PROVE  Below(t) \cap Gone = {}
<1>0. At("install") /\ op.target = t /\ Verified(t, t \in op.fresh) BY DEF InstallBefore
<1>1. /\ tx.before[t] # Missing /\ Inside[t] \cap Gone = {} /\ t \notin tx.pending
      /\ t \in Gone => t \notin op.fresh
  BY <1>0 DEF Kept, AimedAt, At, Below
<1>2. ASSUME t \in Gone PROVE FALSE
  <2>1. live[t] = Missing BY <1>2 DEF Kept, Unexplained
  <2>2. ~IsBefore(t) BY <1>1, <2>1, BeforeIsBefore
  <2> QED
    BY <1>0, <1>1, <1>2, <2>1, <2>2, NodeAssumption DEF Verified, Removed, IsAfter, OwnedPostTree,
       IsFile
<1> QED BY <1>1, <1>2 DEF Below

LEMMA InstallBeforeKept == ASSUME IInv, Kept, NEW t \in Target, InstallBefore(t) PROVE Kept'
<1>0. At("install") /\ op.target = t /\ Bounds /\ tx # None /\ op.restoring /\ op.pc \in Aiming
      /\ t \in op.todo
  BY DEF InstallBefore, IInv, Shape, Undoing, Aiming, At
<1>1. CASE Fail BY <1>0, <1>1, FailKept DEF Bounds
<1>2. CASE ~Fail
  <2>1. /\ live' = [x \in Target |-> IF x \in Below(t) THEN tx.before[x] ELSE live[x]]
        /\ installed' = (installed \ Inside[t]) \cup {t} /\ Done(t) /\ tx' = tx
        /\ UNCHANGED <<gone, unclear>>
    BY <1>0, <1>2 DEF InstallBefore, Bounds
  <2>2. op \in Operation /\ t \in tx.entries /\ Gone \subseteq gone /\ tx.before \in Trees
        /\ installed \subseteq Target /\ gone \subseteq Target /\ tx.entries \subseteq Target
        /\ tx.pending \subseteq tx.entries
    BY <1>0, KeptFacts
  <2>3. op'.pc = "restore" /\ op'.restoring = op.restoring /\ op'.todo = op.todo \ {t}
    BY <2>1, <2>2 DEF Done, Operation
  <2>4. Gone' = Gone BY <2>1 DEF Gone
  <2>5. Below(t) \cap Gone = {} BY <1>2, InstallBeforeFacts
  <2>6. tx.before[t] # Missing /\ Below(t) \cap tx.pending = {} BY <1>0 DEF Kept, AimedAt, At
  <2>7. \A s \in Target : live'[s] = IF s \in Below(t) THEN tx.before[s] ELSE live[s] BY <2>1
  <2>8. t \in Below(t) /\ \A s \in installed' : s = t \/ (s \in installed /\ s \notin Below(t))
    BY <2>1 DEF Below
  <2>9. Installed' BY <2>1, <2>2, <2>6, <2>7, <2>8 DEF Kept, Installed, Writes
  <2>10. DirectoryTargets' BY <2>1, <2>3 DEF Kept, DirectoryTargets, Writes, At
  <2>11. Unexplained'
    <3>1. ASSUME NEW s \in Gone, NEW p \in Parent(s) PROVE p \in Target /\ p \notin Below(t)
      <4>1. s \in Target /\ p \in Target /\ s \in Inside[p] /\ Parent(p) = {}
        BY <2>2, <3>1, OneParent
      <4>2. p # t BY <2>5, <3>1, <4>1 DEF Below
      <4>3. p \notin Inside[t] BY <4>1 DEF Parent
      <4> QED BY <4>1, <4>2, <4>3 DEF Below
    <3> QED BY <2>1, <2>2, <2>4, <2>5, <2>7, <3>1 DEF Kept, Unexplained
  <2>12. DeclaredTogether'
    <3>1. ASSUME NEW p \in installed', live'[p] = Dir, p \notin tx.pending
          PROVE  Inside[p] \cap tx.pending = {}
      <4>1. CASE p = t BY <2>6, <4>1 DEF Below
      <4>2. CASE p \in installed /\ p \notin Below(t)
        BY <2>2, <2>7, <3>1, <4>2 DEF Kept, DeclaredTogether
      <4> QED BY <2>8, <3>1, <4>1, <4>2
    <3>2. ASSUME NEW p \in tx.pending, tx.before[p] # Dir
          PROVE  Inside[p] \cap (installed' \cup Gone) \subseteq tx.pending
      <4>1. p \in Target BY <2>2
      <4>2. t \notin Inside[p] BY <2>2, <2>6, <3>2, <4>1, TreeFacts DEF Parent
      <4>3. Inside[p] \cap (installed \cup Gone) \subseteq tx.pending
        BY <3>2 DEF Kept, DeclaredTogether
      <4> QED BY <2>8, <4>2, <4>3
    <3> QED BY <2>1, <2>4, <3>1, <3>2 DEF DeclaredTogether
  <2>13. InstalledOnce' /\ AimedAt' BY <1>0, <2>3 DEF InstalledOnce, AimedAt, Aiming, At
  <2>14. RestoredStays'
    <3>1. /\ \A s \in installed \ op.todo : live[s] = tx.before[s]
          /\ \A s \in Gone \ op.todo : tx.before[s] = Dir => Inside[s] \cap tx.pending = {}
      BY <1>0 DEF Kept, RestoredStays
    <3>2. \A s \in installed' \ op'.todo : live'[s] = tx.before[s]
      BY <2>2, <2>3, <2>7, <2>8, <3>1
    <3>3. \A s \in Gone \ op'.todo : s \notin op.todo BY <2>3, <2>5, <2>8
    <3> QED BY <2>1, <2>4, <3>1, <3>2, <3>3 DEF RestoredStays
  <2> QED BY <2>9, <2>10, <2>11, <2>12, <2>13, <2>14 DEF Kept
<1> QED BY <1>1, <1>2

\* Who deletes what was installed explains its absence himself.
LEMMA DeleteFileKept ==
    ASSUME IInv, tx # None, Kept, NEW t \in Target, DeleteFile(t) PROVE Kept'
<1>1. /\ live' = [x \in Target |-> IF x \in Below(t) THEN Missing ELSE live[x]]
      /\ gone' = gone \cup (Below(t) \cap installed)
      /\ unclear' = unclear \cup {x \in Below(t) \cap gone' : tx.pending \cap {t, x} # {}}
      /\ installed' = installed \ Below(t) /\ tx' = tx /\ op' = op /\ live[t] # Missing
  BY DEF DeleteFile, Edited
<1>2. live \in Trees /\ installed \subseteq Target /\ gone \subseteq Target
      /\ tx.entries \subseteq Target /\ tx.pending \subseteq tx.entries
  BY KeptFacts
<1>3. \A s \in Target : live'[s] = IF s \in Below(t) THEN Missing ELSE live[s] BY <1>1
<1>4. \A s \in Gone' : /\ s \in Target
                       /\ s \in Gone \/ s \in Below(t) \cap installed
                       /\ s \in Below(t) => s \notin tx.pending /\ t \notin tx.pending
  BY <1>1, <1>2 DEF Gone
<1>5. \A s \in Target : \A p \in Parent(s) :
          p \in Target /\ s \in Inside[p] /\ (p \in Below(t) => p = t /\ s \in Below(t))
  BY OneParent DEF Parent, Below
<1>6. Installed' BY <1>1, <1>2, <1>3 DEF Kept, Installed, Writes
<1>7. DirectoryTargets' BY <1>1, <1>2, <1>3 DEF Kept, DirectoryTargets, Writes, At
<1>8. Unexplained'
  <2>1. ASSUME NEW s \in Gone' PROVE live'[s] = Missing /\ s \notin tx.pending
    BY <1>3, <1>4, <2>1 DEF Kept, Unexplained
  <2>2. ASSUME NEW s \in Gone', NEW p \in Parent(s)
        PROVE  ~IsFile(live'[p]) /\ (live'[p] = Missing => p \notin tx.pending)
    <3>1. CASE p \in Below(t) BY <1>3, <1>4, <1>5, <2>2, <3>1 DEF IsFile
    <3>2. CASE p \notin Below(t) /\ s \in Gone
      BY <1>3, <1>4, <1>5, <2>2, <3>2 DEF Kept, Unexplained
    <3>3. CASE p \notin Below(t) /\ s \in installed
      <4>1. live[s] # Missing BY <3>3 DEF Kept, Installed
      <4>2. live[p] = Dir BY <1>2, <1>4, <2>2, <4>1, TreeFacts
      <4> QED BY <1>3, <1>5, <1>4, <2>2, <3>3, <4>2 DEF IsFile
    <3> QED BY <1>4, <2>2, <3>1, <3>2, <3>3
  <2> QED BY <1>1, <2>1, <2>2 DEF Unexplained
<1>9. DeclaredTogether'
  <2>1. \A s \in installed' : s \in installed /\ live'[s] = live[s] BY <1>1, <1>2, <1>3
  <2>2. installed' \cup Gone' \subseteq installed \cup Gone BY <1>1, <1>4
  <2> QED BY <1>1, <2>1, <2>2 DEF Kept, DeclaredTogether
<1>10. InstalledOnce' BY <1>1 DEF Kept, InstalledOnce, PostFiles, At
<1>11. AimedAt'
  <2>0. \A s \in Gone' \ Gone : s \in installed /\ s \notin tx.pending BY <1>4
  <2>1. op.pc \in Aiming \cup {"removing"} => op.target \in Target
    BY <1>2 DEF IInv, Shape, Aiming
  <2>2. ASSUME op.restoring, op.pc \in Aiming, tx.before[op.target] # Missing
        PROVE  Parent(op.target) \cap Gone' = {} /\ Parent(op.target) \cap installed' \subseteq tx.pending
    BY <1>1, <2>0, <2>2 DEF Kept, AimedAt
  <2>3. ASSUME At("arm") \/ At("install")
        PROVE  live'[op.target] # Dir /\ Inside[op.target] \cap Gone' = {}
    <3>1. op.target \in Target /\ live[op.target] # Dir /\ Inside[op.target] \cap Gone = {}
      BY <2>1, <2>3 DEF Kept, AimedAt, Aiming, At
    <3>2. \A x \in Inside[op.target] : x \notin installed BY <1>2, <3>1, TreeFacts DEF Kept, Installed
    <3> QED BY <1>3, <2>0, <3>1, <3>2
  <2>4. At("install") => (op.target \in installed' \cup Gone' => op.target \notin op.fresh)
    BY <1>1, <2>0 DEF Kept, AimedAt, At
  <2> QED BY <1>1, <2>2, <2>3, <2>4 DEF Kept, AimedAt, At
<1>12. RestoredStays'
  <2>1. SUFFICES ASSUME op.restoring, op.pc \in Aiming \cup {"restore"} PROVE RestoredStays'
    BY <1>1 DEF RestoredStays
  <2>2. /\ \A s \in installed \ op.todo : live[s] = tx.before[s]
        /\ \A s \in Gone \ op.todo : tx.before[s] = Dir => Inside[s] \cap tx.pending = {}
    BY <2>1 DEF Kept, RestoredStays
  <2>3. ASSUME NEW s \in Gone' \ op.todo, tx.before[s] = Dir PROVE Inside[s] \cap tx.pending = {}
    <3>1. CASE s \in Gone BY <2>2, <2>3, <3>1
    <3>2. CASE s \in Below(t) \cap installed
      BY <1>4, <2>2, <2>3, <3>2 DEF Kept, DeclaredTogether
    <3> QED BY <1>4, <2>3, <3>1, <3>2
  <2>4. \A s \in installed' \ op.todo : live'[s] = tx.before[s] BY <1>1, <1>2, <1>3, <2>2
  <2> QED BY <1>1, <2>3, <2>4 DEF RestoredStays
<1> QED BY <1>6, <1>7, <1>8, <1>9, <1>10, <1>11, <1>12 DEF Kept

LEMMA WriteFileKept ==
    ASSUME IInv, tx # None, Kept, NEW t \in Target, NEW v \in Content, WriteFile(t, v) PROVE Kept'
<1>1. /\ live' = [live EXCEPT ![t] = v] /\ installed' = installed \ Below(t)
      /\ gone' = gone \ Below(t) /\ unclear' = unclear \ Below(t) /\ tx' = tx /\ op' = op
  BY DEF WriteFile, Edited
<1>2. live \in [Target -> Node] /\ installed \subseteq Target /\ gone \subseteq Target
      /\ tx.entries \subseteq Target /\ v # Dir /\ v # Missing
  BY KeptFacts
<1>3. \A s \in Target : live'[s] = IF s = t THEN v ELSE live[s] BY <1>1, <1>2
<1>4. t \in Below(t) /\ Inside[t] \subseteq Below(t) /\ Gone' = Gone \ Below(t)
  BY <1>1 DEF Below, Gone
<1>5. Installed' BY <1>1, <1>2, <1>3, <1>4 DEF Kept, Installed, Writes
<1>6. DirectoryTargets' BY <1>1, <1>2, <1>3 DEF Kept, DirectoryTargets, Writes, At
<1>7. Unexplained'
  <2>1. \A s \in Gone' : \A p \in Parent(s) : p # t /\ p \in Target BY <1>4 DEF Parent
  <2>2. \A s \in Gone' : s \in Gone /\ s # t /\ s \in Target BY <1>2, <1>4 DEF Gone
  <2> QED BY <1>1, <1>3, <2>1, <2>2 DEF Kept, Unexplained
<1>8. DeclaredTogether' BY <1>1, <1>2, <1>3, <1>4 DEF Kept, DeclaredTogether
<1>9. InstalledOnce' BY <1>1 DEF Kept, InstalledOnce, PostFiles, At
<1>10. AimedAt'
  <2>1. op.pc \in Aiming => op.target \in Target BY <1>2 DEF IInv, Shape
  <2>2. At("arm") \/ At("install") => live'[op.target] # Dir
    BY <1>2, <1>3, <2>1 DEF Kept, AimedAt, Aiming, At
  <2> QED BY <1>1, <1>4, <2>2 DEF Kept, AimedAt, At
<1>11. RestoredStays' BY <1>1, <1>2, <1>3, <1>4 DEF Kept, RestoredStays
<1> QED BY <1>5, <1>6, <1>7, <1>8, <1>9, <1>10, <1>11 DEF Kept

-----------------------------------------------------------------------------
\* Every step keeps what is known of deletions.
LEMMA StepKept == ASSUME IInv, KInv, [Next]_vars PROVE KInv'
<1> SUFFICES ASSUME tx' # None PROVE Kept'
  BY DEF KInv
<1>1. ASSUME NEW after \in Snapshots, Plan(after) PROVE Kept' BY <1>1, PlanKept
<1>2. CASE tx = None
  <2>1. At("idle") BY <1>2 DEF IInv, Shape
  <2>2. \E after \in Snapshots : Plan(after)
    BY <1>2, <2>1
       DEF vars, Next, TransactionStep, ApplyStep, RemoveStep, RestoreStep, UserStep, Prepare,
           PublishJournal, RetireIntents, IntendDelete, MakeParent, Install, Complete, RemoveBackup,
           RemoveTransaction, Remove, RemoveTop, RemoveInside, BeginRecovery, VerifyGroup,
           RemoveStages, SkipRestored, IntendUndo, ClaimStage, Stage, IntendRestore, ArmRestore,
           InstallBefore, DeleteFile, WriteFile, Edited, IOError, Crash, At
  <2> QED BY <1>1, <2>2
<1> SUFFICES ASSUME tx # None, Kept PROVE Kept'
  BY <1>2 DEF KInv
<1>3. CASE UNCHANGED vars
  <2>1. SameImages /\ tx' = tx /\ op' = op /\ Gone' = Gone BY <1>3 DEF vars, SameImages, Gone
  <2> QED
    BY <2>1 DEF SameImages, Kept, Installed, DirectoryTargets, Unexplained, DeclaredTogether,
                InstalledOnce, AimedAt, RestoredStays, Writes, PostFiles, At
<1>4. CASE ApplyStep
  BY <1>4, PrepareKept, PublishJournalKept, RetireIntentsKept, IntendDeleteKept, MakeParentKept,
     InstallKept, FinishKept
     DEF ApplyStep, RemoveTransaction
<1>5. CASE RemoveStep
  BY <1>5, RemoveKept, RemoveTopKept, RemoveInsideKept DEF RemoveStep
<1>6. CASE RestoreStep
  BY <1>6, FinishKept, RemoveStagesKept, SkipRestoredKept, IntendUndoKept, ClaimStageKept,
     StageKept,
     IntendRestoreKept, ArmRestoreKept, InstallBeforeKept
     DEF RestoreStep
<1>7. CASE UserStep BY <1>7, DeleteFileKept, WriteFileKept DEF UserStep
<1>8. CASE IOError BY <1>8, FailKept DEF IOError
<1>9. CASE Crash
  <2>1. op'.pc \in Quiet /\ tx' = tx /\ SameImages
    BY <1>9 DEF Crash, Stop, Idle, Quiet, SameImages
  <2> QED BY <2>1, QuietKept
<1> QED BY <1>1, <1>3, <1>4, <1>5, <1>6, <1>7, <1>8, <1>9 DEF Next, TransactionStep

LEMMA KInvHolds == Spec => []KInv
<1>1. Init => KInv BY DEF Init, KInv
<1>2. IInv /\ KInv /\ [Next]_vars => KInv' BY StepKept
<1> QED BY <1>1, <1>2, Invariance, PTL DEF Spec

Stands == tx # None /\ edits' = edits => \A t \in gone \ unclear : live'[t] = live[t]

LEMMA StepStands == ASSUME IInv, KInv, [Next]_vars PROVE Stands
<1> SUFFICES ASSUME tx # None, Kept, edits' = edits, NEW t \in Gone PROVE live'[t] = live[t]
  BY DEF KInv, Stands, Gone
<1>1. live[t] = Missing /\ t \in Target /\ live \in [Target -> Node] /\ tx.after \in Trees
      /\ Gone \subseteq gone
  BY KeptFacts DEF Kept, Unexplained
<1>2. ASSUME Fail PROVE live' = live BY <1>2 DEF Fail
<1>3. CASE UNCHANGED vars BY <1>3 DEF vars
<1>4. CASE ApplyStep
  <2>1. ASSUME NEW s \in Target, MakeParent(s) PROVE live'[t] = live[t]
    <3>1. CASE Fail BY <1>2, <3>1
    <3>2. CASE ~Fail
      <4>1. At("write") /\ s \in Writes(tx.after) BY <2>1 DEF MakeParent, IInv, Written
      <4>2. PICK p \in Parent(s) : live' = [live EXCEPT ![p] = Dir] BY <2>1, <3>2 DEF MakeParent
      <4>3. tx.after[p] = Dir BY <1>1, <4>1, TreeFacts DEF Writes, IsFile
      <4>4. p # t BY <1>1, <4>1, <4>3 DEF Kept, InstalledOnce, Writes, IsFile
      <4> QED BY <1>1, <4>2, <4>4
    <3> QED BY <3>1, <3>2
  <2>2. ASSUME NEW s \in Target, Install(s) PROVE live'[t] = live[t]
    <3>1. s # t BY <1>1, <2>2 DEF Install, Kept, InstalledOnce
    <3> QED BY <1>1, <1>2, <2>2, <3>1 DEF Install
  <2>3. ASSUME NEW s \in Target, IntendDelete(s) PROVE live' = live
    BY <1>2, <2>3 DEF IntendDelete, Files
  <2>4. CASE Prepare \/ PublishJournal \/ RetireIntents
    BY <1>2, <2>4 DEF Prepare, PublishJournal, RetireIntents, Files
  <2>5. CASE Complete \/ RemoveBackup \/ RemoveTransaction
    BY <2>5 DEF Complete, RemoveBackup, RemoveTransaction, Files
  <2> QED BY <1>4, <2>1, <2>2, <2>3, <2>4, <2>5 DEF ApplyStep
<1>5. CASE RemoveStep
  <2>1. ASSUME NEW s \in Target, Remove(s) PROVE live' = live BY <1>2, <2>1 DEF Remove, Files
  <2> QED BY <1>1, <1>5, <2>1 DEF RemoveStep, RemoveTop, RemoveInside
<1>6. CASE RestoreStep
  <2>1. CASE BeginRecovery \/ VerifyGroup \/ RemoveStages
    BY <2>1 DEF BeginRecovery, VerifyGroup, RemoveStages, Files
  <2>2. ASSUME NEW s \in Target, Stage(s) PROVE live'[t] = live[t]
    <3>1. Parent(s) \cap Gone = {} \/ Fail
      <4>1. At("stage") /\ op.target = s /\ op.restoring /\ op.pc \in Aiming
        BY <2>2 DEF Stage, IInv, Shape, Undoing, Aiming, At
      <4> QED BY <4>1 DEF Kept, AimedAt, At
    <3> QED BY <1>1, <1>2, <2>2, <3>1 DEF Stage
  <2>3. ASSUME NEW s \in Target, InstallBefore(s) PROVE live'[t] = live[t]
    <3>1. CASE Fail BY <1>2, <3>1
    <3>2. CASE ~Fail
      <4>1. t \notin Below(s) BY <2>3, <3>2, InstallBeforeFacts
      <4> QED BY <1>1, <2>3, <3>2, <4>1 DEF InstallBefore
    <3> QED BY <3>1, <3>2
  <2>4. ASSUME NEW s \in Target, SkipRestored(s) \/ IntendUndo(s) \/ ClaimStage(s)
        PROVE  live' = live
    BY <1>2, <2>4 DEF SkipRestored, IntendUndo, ClaimStage, Files
  <2>5. ASSUME NEW s \in Target, IntendRestore(s) \/ ArmRestore(s) PROVE live' = live
    BY <1>2, <2>5 DEF IntendRestore, ArmRestore, Files
  <2> QED BY <1>6, <2>1, <2>2, <2>3, <2>4, <2>5 DEF RestoreStep
<1>7. ~UserStep
  <2>1. edits \in Nat BY BoundAssumption DEF IInv, TypeOK
  <2> QED BY <2>1 DEF UserStep, DeleteFile, WriteFile, Edited
<1>8. CASE IOError \/ Crash BY <1>2, <1>8 DEF IOError, Crash
<1>9. ASSUME NEW after \in Snapshots, Plan(after) PROVE FALSE BY <1>9 DEF Plan
<1> QED BY <1>3, <1>4, <1>5, <1>6, <1>7, <1>8, <1>9 DEF Next, TransactionStep

\* What the transaction installed and a user then deleted stays deleted, unless
\* a rollback had already declared that it would remove it, however often Pi
\* crashed in between (removalPending and replacementStarted, verifyTarget).
THEOREM DeletionsStand == Spec => ArmedDeletionStands
<1>1. IInv /\ KInv /\ [Next]_vars => Stands BY StepStands
<1>2. Spec => [][Stands]_vars BY <1>1, Invariance, KInvHolds, PTL DEF Spec
<1>3. [Stands]_vars
         => [tx # None /\ edits' = edits => \A t \in gone \ unclear : live'[t] = live[t]]_vars
  BY DEF Stands
<1> QED BY <1>2, <1>3, PTL DEF ArmedDeletionStands

-----------------------------------------------------------------------------
(* A transaction implements GroupReplacement.  What is written, and what   *)
(* is restored, is so with all that is in it, also with what no snapshot   *)
(* names; and what nobody edited is as one of the two images has it.       *)

Scope == UNION {Below(t) : t \in tx.entries}

\* What nobody edited is as one of the two images has it.
ImagesOnly ==
    \A x \in Target \ touched : IsFile(live[x]) => live[x] \in {tx.before[x], tx.after[x]}

\* The backup holds what nobody edited since.
BackedUp == At("publish") => \A x \in Target \ touched : live[x] = tx.before[x]

\* No directory is deleted but for a file in its place.
FilesDeleted ==
    \A t \in tx.deletes \ Writes(tx.after) :
        tx.before[t] # Dir /\ (tx.phase = "planned" => live[t] # Dir)

\* What is restored is so with all that is in it, and is not disturbed again.
RestoredWithin ==
    op.restoring /\ op.pc \in Aiming \cup {"restore"} =>
        /\ \A t \in Untouched \ op.todo : IsBefore(t)
        /\ op.pc \in Aiming => Parent(op.target) \cap Untouched = {}

Grouped == ImagesOnly /\ BackedUp /\ FilesDeleted /\ RestoredWithin
GInv == tx # None => Grouped

SameJournal ==
    /\ tx # None /\ tx' # None /\ tx'.phase = tx.phase /\ tx'.before = tx.before /\ tx'.after = tx.after
    /\ tx'.entries = tx.entries /\ tx'.deletes = tx.deletes /\ touched' = touched

\* The promise of a step.
Promises == [Promise!Next]_(Promise!vars)

-----------------------------------------------------------------------------
LEMMA GroupFacts ==
    ASSUME IInv
    PROVE  /\ live \in Trees /\ live \in [Target -> Node]
           /\ tx # None => /\ tx.before \in Trees /\ tx.after \in Trees /\ tx.entries \subseteq Target
                           /\ tx.before \in [Target -> Node] /\ tx.after \in [Target -> Node]
                           /\ tx.deletes \subseteq tx.entries /\ Writes(tx.after) \subseteq tx.entries
                           /\ tx.entries = Writes(tx.after) \cup tx.deletes
                           /\ op.todo \subseteq tx.entries /\ op \in Operation
<1>1. live \in Trees /\ op \in Operation BY DEF IInv, TypeOK, Shape
<1>2. ASSUME tx # None
      PROVE  /\ tx.before \in Trees /\ tx.after \in Snapshots /\ tx.entries = Writes(tx.after) \cup tx.deletes
             /\ tx \in Transaction /\ op.todo \subseteq tx.entries
  BY <1>2 DEF IInv, TypeOK, Shape
<1>3. QED BY <1>1, <1>2 DEF Trees, Snapshots, Transaction

LEMMA UntouchedWithin ==
    ASSUME IInv, tx # None, NEW t \in Untouched
    PROVE  t \in Target /\ Below(t) \subseteq Target \ touched
<1>1. t \in Target /\ t \notin touched BY GroupFacts DEF Untouched
<1>2. Inside[t] \subseteq Target BY <1>1, TreeAssumption
<1>3. \A x \in Inside[t] : t \in Parent(x) BY <1>1 DEF Parent
<1>4. QED BY <1>1, <1>2, <1>3 DEF IInv, Touched, Below

LEMMA GroupIsUntouched ==
    ASSUME IInv PROVE Group \subseteq Target \ touched /\ (Replacing => Group \subseteq Scope)
<1>1. CASE Replacing
  <2>1. tx # None BY <1>1 DEF Replacing
  <2>2. Group = UNION {Below(t) : t \in Untouched} BY <1>1 DEF Group, Untouched
  <2>3. Untouched \subseteq tx.entries BY DEF Untouched
  <2>4. Group \subseteq Scope BY <2>2, <2>3 DEF Scope
  <2>5. QED BY <2>1, <2>2, <2>4, UntouchedWithin
<1>2. QED BY <1>1 DEF Group

LEMMA PromisedIs ==
    /\ Promised \in [Target -> Content \cup {Missing}]
    /\ \A x \in Target : Promised[x] = Text(IF x \in Group THEN tx.before[x] ELSE live[x])
  BY DEF Promised, Text, IsFile

\* Nothing is under way, and no content changes.
LEMMA NothingPromised ==
    ASSUME ~Replacing, ~Replacing', \A x \in Target : Text(live'[x]) = Text(live[x])
    PROVE  Promises
<1>1. Group = {} /\ Group' = {} BY DEF Group
<1>2. Promised' = Promised BY <1>1 DEF Promised
<1>3. Replacement' = Replacement BY DEF Replacement
<1>4. QED BY <1>2, <1>3 DEF Promises, Promise!vars

\* What the replacement is, while one is under way.
GoodReplacement ==
    /\ Replacement \in Promise!Jobs /\ Replacement # None
    /\ Replacement.group = Group /\ Replacement.scope = Scope
    /\ \A x \in Target : /\ Replacement.old[x] = Text(tx.before[x])
                         /\ Replacement.new[x] = Text(tx.after[x])
    /\ Group \subseteq Scope \ touched /\ Scope \subseteq Target

LEMMA ReplacementIsJob == IInv /\ Replacing => GoodReplacement
<1> SUFFICES ASSUME IInv, Replacing PROVE GoodReplacement OBVIOUS
<1>1. /\ Replacement = [old |-> Texts(tx.before), new |-> Texts(tx.after), scope |-> Scope, group |-> Group]
  BY DEF Replacement, Scope
<1>2. \A fs : /\ Texts(fs) \in [Target -> Content \cup {Missing}]
              /\ \A x \in Target : Texts(fs)[x] = Text(fs[x])
  BY DEF Texts, Text, IsFile
<1>3. Group \subseteq Target /\ Scope \subseteq Target
  <2>1. \A t \in tx.entries : Below(t) \subseteq Target
    BY GroupFacts, TreeAssumption DEF Replacing, Below
  <2>2. QED BY <2>1, GroupIsUntouched DEF Scope
<1>4. Replacement \in Promise!Jobs BY <1>1, <1>2, <1>3 DEF Promise!Jobs, Promise!Contents
<1>5. QED BY <1>1, <1>2, <1>3, <1>4, GroupIsUntouched, NoReplacementAssumption DEF GoodReplacement

\* While the journal is open, contents change between those of the two images.
LEMMA OpenAdjusts ==
    ASSUME IInv, Replacing, SameJournal,
           \A x \in Target : Text(live'[x]) # Text(live[x]) =>
               x \in Scope /\ {Text(live[x]), Text(live'[x])} \subseteq
                                  {Text(tx.before[x]), Text(tx.after[x]), Missing}
    PROVE  Promises
<1>1. Replacing' BY DEF Replacing, SameJournal
<1>2. Group' = Group BY <1>1 DEF Group, SameJournal
<1>3. Replacement' = Replacement BY <1>1, <1>2 DEF Replacement, SameJournal, Texts
<1>4. /\ Promised' \in [Target -> Content \cup {Missing}]
      /\ \A x \in Target : Promised'[x] = Text(IF x \in Group THEN tx.before[x] ELSE live'[x])
  BY <1>2 DEF Promised, Text, IsFile, SameJournal
<1>5. ASSUME NEW x \in Target, Promised'[x] # Promised[x]
      PROVE  /\ x \in Replacement.scope \ Replacement.group
             /\ {Promised[x], Promised'[x]} \subseteq
                    {Replacement.old[x], Replacement.new[x], Missing}
  BY <1>4, <1>5, PromisedIs, ReplacementIsJob DEF GoodReplacement
<1>6. Promise!Adjust
  BY <1>3, <1>4, <1>5, ReplacementIsJob DEF GoodReplacement, Promise!Adjust, Promise!Contents, Promise!Recognised
<1>7. QED BY <1>6 DEF Promises, Promise!Next

\* The files and the plan stay: what is promised stays.
LEMMA NothingAdjusts ==
    ASSUME IInv, SameJournal, live' = live PROVE Promises
<1>1. CASE Replacing BY <1>1, OpenAdjusts
<1>2. CASE ~Replacing
  <2>1. ~Replacing' BY <1>2 DEF Replacing, SameJournal
  <2>2. QED BY <1>2, <2>1, NothingPromised
<1>3. QED BY <1>1, <1>2

-----------------------------------------------------------------------------
(* The invariant. *)

\* The plan stands; a restoration goes on in the same place, or not.
LEMMA SteadyGrouped ==
    ASSUME IInv, Grouped, SameJournal, live' = live, op'.pc # "publish",
           op'.restoring /\ op'.pc \in Aiming \cup {"restore"} =>
               \/ \A t \in Untouched \ op'.todo : IsBefore(t)
               \/ op.restoring /\ op.pc \in Aiming \cup {"restore"} /\ op.todo \subseteq op'.todo,
           op'.restoring /\ op'.pc \in Aiming =>
               \/ Parent(op'.target) \cap Untouched = {}
               \/ op.restoring /\ op.pc \in Aiming /\ op'.target = op.target
    PROVE  Grouped'
<1>1. Untouched' = Untouched BY DEF Untouched, SameJournal
<1>2. \A t : IsBefore(t)' <=> IsBefore(t) BY DEF IsBefore, Image, SameJournal
<1>3. ImagesOnly' /\ BackedUp' /\ FilesDeleted'
  BY DEF Grouped, ImagesOnly, BackedUp, FilesDeleted, SameJournal, At, Writes
<1>4. RestoredWithin' BY <1>1, <1>2 DEF Grouped, RestoredWithin
<1>5. QED BY <1>3, <1>4 DEF Grouped

LEMMA FailGrouped ==
    ASSUME IInv, Grouped, tx # None, Fail, touched' = touched PROVE Grouped' /\ Promises
<1>1. SameJournal /\ live' = live BY DEF Fail, SameJournal
<1>2. op'.pc \in {"idle", "verify"} BY DEF Fail, Idle
<1>3. op'.pc \notin Aiming \cup {"restore", "publish"} BY <1>2 DEF Aiming
<1>4. QED BY <1>1, <1>3, SteadyGrouped, NothingAdjusts

LEMMA InPlace ==
    ASSUME IInv, op.pc \in Open
    PROVE  /\ tx # None /\ tx.phase = "open" /\ GoodJournal(tx) /\ op \in Operation
           /\ op.todo \subseteq tx.entries /\ tx.entries \subseteq Target
           /\ op.pc \in Aiming => op.target \in op.todo
           /\ op.pc \in Undoing => op.restoring
  BY AimFacts, GroupFacts DEF IInv, Shape

LEMMA PlannedIsSame ==
    ASSUME tx # None, tx' # None, SamePlan(tx', tx), touched' = touched PROVE SameJournal
  BY DEF SamePlan, SameJournal

LEMMA IntendedIsSame ==
    ASSUME IInv, op.pc \in Open, NEW t \in Target, tx' = Intended(t), touched' = touched
    PROVE  SameJournal
<1>1. tx # None /\ GoodJournal(tx) BY InPlace
<1>2. GoodJournal(Intended(t)) /\ SamePlan(Intended(t), tx) BY <1>1, IntendedIsGood
<1>3. QED BY <1>1, <1>2, PlannedIsSame DEF GoodJournal

LEMMA ArmedIsSame ==
    ASSUME IInv, op.pc \in Open, NEW ts \in SUBSET tx.entries, NEW within,
           tx' = Armed(ts, within), touched' = touched
    PROVE  SameJournal
<1>1. tx # None /\ GoodJournal(tx) BY InPlace
<1>2. GoodJournal(Armed(ts, within)) /\ SamePlan(Armed(ts, within), tx) BY <1>1, ArmedIsGood
<1>3. QED BY <1>1, <1>2, PlannedIsSame DEF GoodJournal

LEMMA RetireIntentsGrouped ==
    ASSUME IInv, Grouped, RetireIntents PROVE Grouped' /\ Promises
<1>1. At("delete") /\ op.pc \in Open /\ touched' = touched BY DEF RetireIntents, Bounds, At, Open
<1>2. CASE Fail BY <1>1, <1>2, InPlace, FailGrouped
<1>3. CASE ~Fail
  <2> DEFINE ts == {t \in tx.pending : IsFile(tx.after[t]) \/ PostFiles(t) # {}}
  <2>1. tx' = Armed(ts, {}) /\ op'.pc = "write" /\ live' = live
    BY <1>1, <1>3, InPlace DEF RetireIntents, Files, Operation
  <2>2. ts \in SUBSET tx.entries BY <1>1, InPlace DEF GoodJournal
  <2>3. SameJournal BY <1>1, <2>1, <2>2, ArmedIsSame
  <2>4. QED BY <2>1, <2>3, SteadyGrouped, NothingAdjusts DEF Aiming
<1>4. QED BY <1>2, <1>3

LEMMA IntendDeleteGrouped ==
    ASSUME IInv, Grouped, NEW t \in Target, IntendDelete(t) PROVE Grouped' /\ Promises
<1>1. At("delete") /\ op.pc \in Open /\ touched' = touched BY DEF IntendDelete, Bounds, At, Open
<1>2. CASE Fail BY <1>1, <1>2, InPlace, FailGrouped
<1>3. CASE ~Fail
  <2>1. tx' = Intended(t) /\ op'.pc = "remove" /\ op'.restoring = op.restoring /\ live' = live
    BY <1>1, <1>3, InPlace DEF IntendDelete, Files, Operation
  <2>2. ~op.restoring BY <1>1 DEF IInv, Shape, At, Applying
  <2>3. SameJournal BY <1>1, <2>1, IntendedIsSame
  <2>4. QED BY <2>1, <2>2, <2>3, SteadyGrouped, NothingAdjusts
<1>4. QED BY <1>2, <1>3

LEMMA DoneGrouped ==
    ASSUME IInv, Grouped, op.pc \in Aiming, op.pc \in Open, op.restoring, NEW t \in Target, Done(t), IsBefore(t),
           tx' = tx, live' = live, touched' = touched
    PROVE  Grouped' /\ Promises
<1>0. op \in Operation BY InPlace
<1>1. op'.pc = "restore" /\ op'.todo = op.todo \ {t} BY <1>0 DEF Done, Operation
<1>2. SameJournal BY InPlace DEF SameJournal
<1>3. \A s \in Untouched \ op'.todo : IsBefore(s) BY <1>1 DEF Grouped, RestoredWithin
<1>4. QED BY <1>1, <1>2, <1>3, SteadyGrouped, NothingAdjusts DEF Aiming

LEMMA RemoveGrouped ==
    ASSUME IInv, Grouped, NEW t \in Target, Remove(t) PROVE Grouped' /\ Promises
<1>1. At("remove") /\ op.pc \in Open /\ op.pc \in Aiming /\ touched' = touched
  BY DEF Remove, Bounds, At, Open, Aiming
<1>2. CASE Fail BY <1>1, <1>2, InPlace, FailGrouped
<1>3. CASE op.restoring /\ IsBefore(t) /\ ~Fail
  <2>1. Done(t) /\ tx' = tx /\ live' = live BY <1>3 DEF Remove, Files
  <2>2. QED BY <1>1, <1>3, <2>1, DoneGrouped
<1>4. CASE ~(op.restoring /\ IsBefore(t)) /\ ~Fail
  <2>1. tx' = tx /\ op' = [op EXCEPT !.pc = "removing"] /\ live' = live
    BY <1>4 DEF Remove, Files
  <2>2. /\ op'.pc = "removing" /\ op'.todo = op.todo /\ op'.target = op.target
        /\ op'.restoring = op.restoring
    BY <1>1, <2>1, InPlace DEF Operation
  <2>3. SameJournal BY <1>1, <2>1, InPlace DEF SameJournal
  <2>4. QED BY <1>1, <2>1, <2>2, <2>3, SteadyGrouped, NothingAdjusts DEF Aiming
<1>5. QED BY <1>2, <1>3, <1>4

LEMMA BeginRecoveryGrouped ==
    ASSUME IInv, Grouped, BeginRecovery PROVE Grouped' /\ Promises
<1>1. tx # None /\ tx' = tx /\ live' = live /\ touched' = touched BY DEF BeginRecovery, Bounds, Files
<1>2. op'.pc \in {"clean", "verify"} BY DEF BeginRecovery, Idle
<1>3. op'.pc \notin Aiming \cup {"restore", "publish"} BY <1>2 DEF Aiming
<1>4. QED BY <1>1, <1>3, SteadyGrouped, NothingAdjusts DEF SameJournal

LEMMA VerifyGroupGrouped ==
    ASSUME IInv, Grouped, VerifyGroup PROVE Grouped' /\ Promises
<1>1. op.pc \in Open /\ tx' = tx /\ live' = live /\ touched' = touched
  BY DEF VerifyGroup, Bounds, Files, At, Open, Undoing
<1>2. op'.pc \in {"idle", "unstage"}
  <2>1. op \in Operation BY <1>1, InPlace
  <2>2. op' = [op EXCEPT !.pc = "unstage"] \/ op' = Idle BY DEF VerifyGroup, Stop
  <2>3. QED BY <2>1, <2>2 DEF Operation, Idle
<1>3. op'.pc \notin Aiming \cup {"restore", "publish"} BY <1>2 DEF Aiming
<1>4. QED BY <1>1, <1>3, InPlace, SteadyGrouped, NothingAdjusts DEF SameJournal

LEMMA RemoveStagesGrouped ==
    ASSUME IInv, Grouped, RemoveStages PROVE Grouped' /\ Promises
<1>1. op.pc \in Open /\ tx' = tx /\ live' = live /\ touched' = touched
  BY DEF RemoveStages, Bounds, Files, At, Open, Undoing
<1>2. op'.pc = "restore" /\ op'.todo = tx.entries BY <1>1, InPlace DEF RemoveStages, Operation
<1>3. Untouched \ op'.todo = {} BY <1>2 DEF Untouched
<1>4. QED BY <1>1, <1>2, <1>3, InPlace, SteadyGrouped, NothingAdjusts DEF SameJournal, Aiming

LEMMA SkipRestoredGrouped ==
    ASSUME IInv, Grouped, NEW t \in Target, SkipRestored(t) PROVE Grouped' /\ Promises
<1>1. At("restore") /\ op.pc \in Open /\ op.pc \in Undoing /\ tx' = tx /\ live' = live /\ touched' = touched
      /\ IsBefore(t)
  BY DEF SkipRestored, Bounds, Files, At, Open, Undoing
<1>2. op'.pc = "restore" /\ op'.todo = op.todo \ {t} /\ op.restoring
  BY <1>1, InPlace DEF SkipRestored, Operation, At
<1>3. \A s \in Untouched \ op'.todo : IsBefore(s) BY <1>1, <1>2 DEF Grouped, RestoredWithin, At
<1>4. QED BY <1>1, <1>2, <1>3, InPlace, SteadyGrouped, NothingAdjusts DEF SameJournal, Aiming

LEMMA RestoreParent ==
    ASSUME IInv, Grouped, At("restore"), NEW t \in Outermost(op.todo), ~IsBefore(t)
    PROVE  Parent(t) \cap Untouched = {}
<1>1. op.pc \in Open /\ op.pc \in Undoing BY DEF At, Open, Undoing
<1>2. t \in Target /\ op.restoring BY <1>1, InPlace DEF Outermost
<1>3. SUFFICES ASSUME NEW p \in Parent(t), p \in Untouched PROVE FALSE OBVIOUS
<1>4. p \notin op.todo BY DEF Outermost
<1>5. IsBefore(p) BY <1>2, <1>3, <1>4 DEF Grouped, RestoredWithin, At
<1>6. t \in Inside[p] /\ Inside[t] = {} BY <1>2, <1>3, OneParent
<1>7. live[t] = tx.before[t] BY <1>5, <1>6 DEF IsBefore, Image, Below
<1>8. IsBefore(t) BY <1>6, <1>7 DEF IsBefore, Image, Below
<1>9. QED BY <1>8

LEMMA IntendUndoGrouped ==
    ASSUME IInv, Grouped, NEW t \in Target, IntendUndo(t) PROVE Grouped' /\ Promises
<1>1. At("restore") /\ op.pc \in Open /\ touched' = touched /\ t \in Outermost(op.todo) /\ ~IsBefore(t)
  BY DEF IntendUndo, Bounds, At, Open, Undoing
<1>2. CASE Fail BY <1>1, <1>2, InPlace, FailGrouped
<1>3. CASE ~Fail
  <2>1. /\ tx' = Intended(t) /\ live' = live /\ op'.pc = "remove" /\ op'.todo = op.todo
        /\ op'.target = t /\ op'.restoring = op.restoring
    BY <1>1, <1>3, InPlace DEF IntendUndo, Files, Operation
  <2>2. SameJournal BY <1>1, <2>1, IntendedIsSame
  <2>3. Parent(t) \cap Untouched = {} BY <1>1, RestoreParent
  <2>4. QED BY <1>1, <2>1, <2>2, <2>3, SteadyGrouped, NothingAdjusts DEF At
<1>4. QED BY <1>2, <1>3

LEMMA ClaimStageGrouped ==
    ASSUME IInv, Grouped, NEW t \in Target, ClaimStage(t) PROVE Grouped' /\ Promises
<1>1. At("restore") /\ op.pc \in Open /\ touched' = touched /\ t \in Outermost(op.todo) /\ ~IsBefore(t)
  BY DEF ClaimStage, Bounds, At, Open, Undoing
<1>2. CASE Fail BY <1>1, <1>2, InPlace, FailGrouped
<1>3. CASE ~Fail
  <2>1. /\ tx' = [tx EXCEPT !.staged = @ \cup {t}] /\ live' = live
        /\ op' = [op EXCEPT !.pc = "stage", !.target = t]
    BY <1>1, <1>3 DEF ClaimStage, Files
  <2>2. op'.pc = "stage" /\ op'.todo = op.todo /\ op'.target = t /\ op'.restoring = op.restoring
    BY <1>1, <2>1, InPlace DEF Operation
  <2>3. SameJournal
    <3>1. tx \in Transaction /\ tx # None BY <1>1, InPlace DEF GoodJournal
    <3>2. tx' \in Transaction BY <2>1, <3>1 DEF Transaction
    <3>3. QED BY <1>1, <2>1, <3>1, <3>2, NoneAssumption DEF SameJournal, Transaction
  <2>4. Parent(t) \cap Untouched = {} BY <1>1, RestoreParent
  <2>5. QED BY <1>1, <2>1, <2>2, <2>3, <2>4, SteadyGrouped, NothingAdjusts DEF At
<1>4. QED BY <1>2, <1>3

LEMMA IntendRestoreGrouped ==
    ASSUME IInv, Grouped, NEW t \in Target, IntendRestore(t) PROVE Grouped' /\ Promises
<1>1. /\ At("staged") /\ op.target = t /\ op.pc \in Open /\ op.pc \in Aiming /\ touched' = touched
      /\ op.restoring
  BY InPlace DEF IntendRestore, Bounds, At, Open, Undoing, Aiming
<1>2. CASE Fail BY <1>1, <1>2, InPlace, FailGrouped
<1>3. CASE ~Fail /\ IsBefore(t)
  <2>1. Done(t) /\ tx' = tx /\ live' = live BY <1>3 DEF IntendRestore, Files
  <2>2. QED BY <1>1, <1>3, <2>1, DoneGrouped
<1>4. CASE ~Fail /\ ~IsBefore(t)
  <2>0. op \in Operation BY <1>1, InPlace
  <2>1. \/ tx' = Intended(t) /\ op' = [op EXCEPT !.pc = "remove"]
        \/ tx' = tx /\ op' = [op EXCEPT !.pc = "arm"]
    BY <1>4 DEF IntendRestore
  <2>2. /\ op'.pc \in {"remove", "arm"} /\ op'.todo = op.todo /\ op'.target = op.target
        /\ op'.restoring = op.restoring
    BY <2>0, <2>1 DEF Operation
  <2>3. live' = live BY <1>4 DEF IntendRestore, Files
  <2>4. SameJournal
    <3>1. CASE tx' = Intended(t) BY <1>1, <3>1, IntendedIsSame
    <3>2. CASE tx' = tx BY <1>1, <3>2, InPlace DEF SameJournal
    <3>3. QED BY <2>1, <3>1, <3>2
  <2>5. QED BY <1>1, <2>2, <2>3, <2>4, SteadyGrouped, NothingAdjusts DEF Aiming
<1>5. QED BY <1>2, <1>3, <1>4

LEMMA ArmRestoreGrouped ==
    ASSUME IInv, Grouped, NEW t \in Target, ArmRestore(t) PROVE Grouped' /\ Promises
<1>1. /\ At("arm") /\ op.target = t /\ op.pc \in Open /\ op.pc \in Aiming /\ touched' = touched
      /\ op.restoring
  BY InPlace DEF ArmRestore, Bounds, At, Open, Undoing, Aiming
<1>2. CASE Fail BY <1>1, <1>2, InPlace, FailGrouped
<1>3. CASE ~Fail /\ IsBefore(t)
  <2>1. Done(t) /\ tx' = tx /\ live' = live BY <1>3 DEF ArmRestore, Files
  <2>2. QED BY <1>1, <1>3, <2>1, DoneGrouped
<1>4. CASE ~Fail /\ ~IsBefore(t)
  <2>0. op \in Operation /\ t \in tx.entries BY <1>1, InPlace
  <2> DEFINE fresh == IF live[t] = Missing THEN {t} ELSE {}
  <2>1. /\ tx' = Armed({t}, Inside[t]) /\ op' = [op EXCEPT !.pc = "install", !.fresh = fresh]
        /\ live' = live
    BY <1>4 DEF ArmRestore, Files
  <2> HIDE DEF fresh
  <2>2. /\ op'.pc = "install" /\ op'.todo = op.todo /\ op'.target = op.target
        /\ op'.restoring = op.restoring
    BY <2>0, <2>1 DEF Operation
  <2>3. SameJournal BY <1>1, <2>0, <2>1, ArmedIsSame
  <2>4. QED BY <1>1, <2>1, <2>2, <2>3, SteadyGrouped, NothingAdjusts DEF Aiming
<1>5. QED BY <1>2, <1>3, <1>4

LEMMA IOErrorGrouped == ASSUME IInv, Grouped, IOError PROVE Grouped' /\ Promises
<1>1. op.pc \in Open BY DEF IOError, IInv, TypeOK, Phase, Open, Undoing
<1>2. QED BY <1>1, InPlace, FailGrouped DEF IOError

LEMMA CrashGrouped ==
    ASSUME IInv, GInv, Crash PROVE GInv' /\ Promises
<1>1. op' = Idle /\ live' = live /\ touched' = touched /\ tx # None
      /\ tx' = IF tx.phase = "planned" THEN None ELSE tx
  BY DEF Crash, Stop, IInv, Shape
<1>2. CASE tx.phase = "planned"
  <2>1. tx' = None BY <1>1, <1>2
  <2>2. ~Replacing /\ ~Replacing' BY <1>2, <2>1 DEF Replacing
  <2>3. QED BY <1>1, <2>1, <2>2, NothingPromised DEF GInv
<1>3. CASE tx.phase # "planned"
  <2>1. SameJournal BY <1>1, <1>3 DEF SameJournal
  <2>2. op'.pc \notin Aiming \cup {"restore", "publish"} BY <1>1 DEF Idle, Aiming
  <2>3. QED BY <1>1, <2>1, <2>2, SteadyGrouped, NothingAdjusts DEF GInv
<1>4. QED BY <1>2, <1>3

LEMMA RemoveBackupGrouped ==
    ASSUME IInv, Grouped, RemoveBackup PROVE Grouped' /\ Promises
<1>1. At("clean") /\ tx' = [tx EXCEPT !.backup = FALSE] /\ op' = op /\ live' = live /\ touched' = touched
  BY DEF RemoveBackup, Files, Bounds
<1>2. tx \in Transaction /\ tx # None BY <1>1 DEF IInv, Shape, TypeOK, At
<1>3. tx' \in Transaction BY <1>1, <1>2 DEF Transaction
<1>4. SameJournal BY <1>1, <1>2, <1>3, NoneAssumption DEF SameJournal, Transaction
<1>5. QED BY <1>1, <1>4, SteadyGrouped, NothingAdjusts DEF At, Aiming

LEMMA RemoveTransactionGrouped ==
    ASSUME IInv, RemoveTransaction PROVE GInv' /\ Promises
<1>1. At("clean") /\ tx' = None /\ live' = live BY DEF RemoveTransaction, Files
<1>2. ~Replacing /\ ~Replacing' BY <1>1 DEF Replacing, IInv, Shape, At
<1>3. QED BY <1>1, <1>2, NothingPromised DEF GInv

-----------------------------------------------------------------------------
(* Steps that write. *)

\* The contents written are those of the images.
LEMMA ImagesGrouped ==
    ASSUME Grouped, SameJournal,
           \A x \in Target : live'[x] # live[x] /\ IsFile(live'[x]) =>
               live'[x] \in {tx.before[x], tx.after[x]},
           tx.phase = "open", op'.pc # "publish", RestoredWithin'
    PROVE  Grouped'
<1>1. ImagesOnly' BY DEF Grouped, ImagesOnly, SameJournal
<1>2. BackedUp' /\ FilesDeleted' BY DEF Grouped, BackedUp, FilesDeleted, SameJournal, At, Writes
<1>3. QED BY <1>1, <1>2 DEF Grouped

LEMMA MakeParentGrouped ==
    ASSUME IInv, Grouped, NEW t \in Target, MakeParent(t) PROVE Grouped' /\ Promises
<1>1. At("write") /\ op.pc \in Open /\ touched' = touched BY DEF MakeParent, Bounds, At, Open
<1>2. CASE Fail BY <1>1, <1>2, InPlace, FailGrouped
<1>3. CASE ~Fail
  <2>1. PICK p \in Parent(t) : live[p] = Missing /\ live' = [live EXCEPT ![p] = Dir] /\ tx' = tx /\ op' = op
    BY <1>3 DEF MakeParent
  <2>2. live \in [Target -> Node] /\ tx # None /\ tx.phase = "open" BY <1>1, InPlace, GroupFacts
  <2>3. \A x \in Target : live'[x] = live[x] \/ (live[x] = Missing /\ live'[x] = Dir) BY <2>1, <2>2
  <2>4. SameJournal BY <1>1, <2>1, <2>2 DEF SameJournal
  <2>5. RestoredWithin' BY <1>1, <2>1 DEF RestoredWithin, Aiming, At
  <2>6. \A x \in Target : Text(live'[x]) = Text(live[x])
    BY <2>3, NodeAssumption DEF Text, IsFile
  <2>7. Grouped' BY <1>1, <2>1, <2>2, <2>3, <2>4, <2>5, NodeAssumption, ImagesGrouped DEF IsFile, At
  <2>8. QED BY <2>2, <2>4, <2>6, <2>7, OpenAdjusts DEF Replacing
<1>4. QED BY <1>2, <1>3

LEMMA InstallGrouped ==
    ASSUME IInv, Grouped, NEW t \in Target, Install(t) PROVE Grouped' /\ Promises
<1>1. At("write") /\ op.pc \in Open /\ touched' = touched /\ t \in op.todo
  BY DEF Install, Bounds, At, Open
<1>2. CASE Fail BY <1>1, <1>2, InPlace, FailGrouped
<1>3. CASE ~Fail
  <2>1. /\ Verified(t, t \in op.fresh) /\ live' = [live EXCEPT ![t] = tx.after[t]] /\ tx' = tx
        /\ op' = [op EXCEPT !.todo = @ \ {t}, !.fresh = @ \ {t}]
    BY <1>3 DEF Install
  <2>2. live \in [Target -> Node] /\ tx # None /\ tx.phase = "open" /\ op \in Operation /\ t \in tx.entries
    BY <1>1, InPlace, GroupFacts
  <2>3. op'.pc = "write" BY <1>1, <2>1, <2>2 DEF Operation, At
  <2>4. \A x \in Target : live'[x] = IF x = t THEN tx.after[t] ELSE live[x] BY <2>1, <2>2
  <2>5. SameJournal BY <1>1, <2>1, <2>2 DEF SameJournal
  <2>6. RestoredWithin' BY <2>3 DEF RestoredWithin, Aiming
  <2>7. Grouped' BY <2>2, <2>3, <2>4, <2>5, <2>6, ImagesGrouped
  <2>8. IsFile(live[t]) => live[t] \in {tx.before[t], tx.after[t]}
    BY <2>1, <2>2, VerifiedIsSeen DEF Below
  <2>9. t \in Scope BY <2>2 DEF Scope, Below
  <2>10. \A x \in Target : Text(live'[x]) # Text(live[x]) =>
             x \in Scope /\ {Text(live[x]), Text(live'[x])} \subseteq
                                {Text(tx.before[x]), Text(tx.after[x]), Missing}
    BY <2>4, <2>8, <2>9 DEF Text
  <2>11. QED BY <2>2, <2>5, <2>7, <2>10, OpenAdjusts DEF Replacing
<1>4. QED BY <1>2, <1>3

LEMMA RemoveInsideGrouped ==
    ASSUME IInv, Grouped, NEW t \in Target, NEW z \in Inside[t], RemoveInside(t, z)
    PROVE  Grouped' /\ Promises
<1>1. /\ At("removing") /\ op.target = t /\ live' = [live EXCEPT ![z] = Missing] /\ tx' = tx /\ op' = op
      /\ touched' = touched /\ op.pc \in Open /\ op.pc \in Aiming
  BY DEF RemoveInside, Bounds, At, Open, Aiming
<1>2. /\ live \in [Target -> Node] /\ tx # None /\ tx.phase = "open" /\ t \in op.todo /\ t \in tx.entries
      /\ z \in Target
  BY <1>1, InPlace, GroupFacts, TreeAssumption
<1>3. \A x \in Target : live'[x] = IF x = z THEN Missing ELSE live[x] BY <1>1, <1>2
<1>4. SameJournal BY <1>1, <1>2 DEF SameJournal
<1>5. t \in Parent(z) /\ Parent(z) = {t} /\ Inside[z] = {} BY OneParent, <1>2 DEF Parent
<1>6. RestoredWithin'
  <2>1. SUFFICES ASSUME op.restoring, NEW s \in Untouched \ op.todo PROVE IsBefore(s)'
    BY <1>1 DEF Grouped, RestoredWithin, Untouched
  <2>2. IsBefore(s) BY <1>1, <2>1 DEF Grouped, RestoredWithin
  <2>3. s # t /\ s \in tx.entries /\ s \in Target BY <1>2, <2>1, GroupFacts DEF Untouched
  <2>4. s # z BY <1>1, <1>2, <2>1, <2>3 DEF IInv, Restored
  <2>5. z \notin Below(s) BY <1>5, <2>3, <2>4 DEF Below, Parent
  <2>6. Below(s) \subseteq Target BY <2>3, TreeAssumption DEF Below
  <2>7. QED BY <1>1, <1>3, <2>2, <2>5, <2>6 DEF IsBefore, Image
<1>7. Grouped' BY <1>1, <1>2, <1>3, <1>4, <1>6, NodeAssumption, ImagesGrouped DEF IsFile, At
<1>8. z \in Scope BY <1>2 DEF Scope, Below
<1>9. IsFile(live[z]) => live[z] \in {tx.before[z], tx.after[z]} BY <1>1 DEF IInv, Seen, Below
<1>10. \A x \in Target : Text(live'[x]) # Text(live[x]) =>
           x \in Scope /\ {Text(live[x]), Text(live'[x])} \subseteq
                              {Text(tx.before[x]), Text(tx.after[x]), Missing}
  BY <1>3, <1>8, <1>9, NodeAssumption DEF Text, IsFile
<1>11. QED BY <1>2, <1>4, <1>7, <1>10, OpenAdjusts DEF Replacing

LEMMA RemoveTopGrouped ==
    ASSUME IInv, Grouped, NEW t \in Target, RemoveTop(t) PROVE Grouped' /\ Promises
<1>1. /\ At("removing") /\ op.target = t /\ live' = [live EXCEPT ![t] = Missing] /\ tx' = tx
      /\ touched' = touched /\ op.pc \in Open /\ op.pc \in Aiming
  BY DEF RemoveTop, Bounds, At, Open, Aiming
<1>2. /\ live \in [Target -> Node] /\ tx # None /\ tx.phase = "open" /\ t \in op.todo /\ t \in tx.entries
      /\ op \in Operation
  BY <1>1, InPlace, GroupFacts
<1>3. \A x \in Target : live'[x] = IF x = t THEN Missing ELSE live[x] BY <1>1, <1>2
<1>4. SameJournal BY <1>1, <1>2 DEF SameJournal
<1>5. RestoredWithin'
  <2> DEFINE pc == AfterRemoval(t)
             todo == IF pc = "arm" THEN op.todo ELSE op.todo \ {t}
             target == IF pc = "arm" THEN t ELSE None
  <2>1. op' = [op EXCEPT !.pc = pc, !.todo = todo, !.target = target] BY DEF RemoveTop
  <2>2. op'.pc = pc /\ op'.todo = todo /\ op'.target = target /\ op'.restoring = op.restoring
    BY <1>2, <2>1 DEF Operation
  <2>3. CASE ~op.restoring BY <2>2, <2>3 DEF RestoredWithin
  <2>4. CASE op.restoring
    <3>1. /\ \A s \in Untouched \ op.todo : IsBefore(s)
          /\ Parent(t) \cap Untouched = {}
      BY <1>1, <2>4 DEF Grouped, RestoredWithin
    <3>2. pc = IF tx.before[t] = Missing THEN "restore" ELSE "arm" BY <2>4 DEF AfterRemoval
    <3>3. ASSUME NEW s \in Untouched, s \notin op.todo PROVE IsBefore(s)'
      <4>1. s \in Target /\ s # t /\ s \notin Parent(t) /\ IsBefore(s)
        BY <1>2, <3>1, <3>3, GroupFacts DEF Untouched
      <4>2. t \notin Below(s) BY <4>1 DEF Below, Parent
      <4>3. Below(s) \subseteq Target BY <4>1, TreeAssumption DEF Below
      <4>4. QED BY <1>1, <1>3, <4>1, <4>2, <4>3 DEF IsBefore, Image
    <3>4. pc = "restore" => IsBefore(t)'
      <4>1. SUFFICES ASSUME tx.before[t] = Missing PROVE IsBefore(t)' BY <3>2
      <4>2. \A x \in Inside[t] : tx.before[x] = Missing /\ live[x] = Missing
        BY <4>1, <1>2, GroupFacts, TreeFacts, NodeAssumption DEF RemoveTop
      <4>3. Below(t) \subseteq Target BY TreeAssumption DEF Below
      <4>4. \A x \in Below(t) : live'[x] = Missing /\ tx.before[x] = Missing
        BY <1>3, <4>1, <4>2, <4>3 DEF Below
      <4>5. QED BY <1>1, <4>4 DEF IsBefore, Image
    <3>5. Untouched' = Untouched BY <1>1 DEF Untouched
    <3>6. \A s \in Untouched' \ op'.todo : IsBefore(s)' BY <2>2, <3>2, <3>3, <3>4, <3>5
    <3>7. op'.pc \in Aiming => op'.target = t BY <2>2, <3>2 DEF Aiming
    <3>8. QED BY <3>1, <3>5, <3>6, <3>7 DEF RestoredWithin
  <2>5. QED BY <2>3, <2>4
<1>6. op'.pc # "publish" BY <1>2 DEF RemoveTop, AfterRemoval, Operation
<1>7. Grouped' BY <1>2, <1>3, <1>4, <1>5, <1>6, NodeAssumption, ImagesGrouped DEF IsFile
<1>8. t \in Scope BY <1>2 DEF Scope, Below
<1>9. IsFile(live[t]) => live[t] \in {tx.before[t], tx.after[t]} BY <1>1 DEF IInv, Seen, Below
<1>10. \A x \in Target : Text(live'[x]) # Text(live[x]) =>
           x \in Scope /\ {Text(live[x]), Text(live'[x])} \subseteq
                              {Text(tx.before[x]), Text(tx.after[x]), Missing}
  BY <1>3, <1>8, <1>9, NodeAssumption DEF Text, IsFile
<1>11. QED BY <1>2, <1>4, <1>7, <1>10, OpenAdjusts DEF Replacing

LEMMA StageGrouped ==
    ASSUME IInv, Grouped, NEW t \in Target, Stage(t) PROVE Grouped' /\ Promises
<1>1. At("stage") /\ op.target = t /\ op.pc \in Open /\ op.pc \in Aiming /\ touched' = touched
  BY DEF Stage, Bounds, At, Open, Undoing, Aiming
<1>2. CASE Fail BY <1>1, <1>2, InPlace, FailGrouped
<1>3. CASE ~Fail
  <2>1. /\ \A p \in Parent(t) : ~IsFile(live[p])
        /\ live' = [x \in Target |-> IF x \in Parent(t) THEN Dir ELSE live[x]]
        /\ op' = [op EXCEPT !.pc = "staged"] /\ tx' = tx
    BY <1>3 DEF Stage
  <2>2. live \in [Target -> Node] /\ tx # None /\ tx.phase = "open" /\ op \in Operation /\ op.restoring
    BY <1>1, InPlace, GroupFacts DEF At, Undoing
  <2>3. /\ op'.pc = "staged" /\ op'.target = t /\ op'.todo = op.todo /\ op'.restoring
    BY <1>1, <2>1, <2>2 DEF Operation
  <2>4. SameJournal BY <1>1, <2>1, <2>2 DEF SameJournal
  <2>5. Untouched' = Untouched /\ Parent(t) \cap Untouched = {}
    BY <1>1, <2>1, <2>2 DEF Untouched, Grouped, RestoredWithin
  <2>6. ASSUME NEW s \in Untouched \ op.todo PROVE IsBefore(s)'
    <3>1. IsBefore(s) /\ s \in Target /\ s \notin Parent(t)
      BY <1>1, <2>2, <2>5, GroupFacts DEF Untouched, Grouped, RestoredWithin
    <3>2. Inside[s] \cap Parent(t) = {}
      <4>1. SUFFICES ASSUME NEW p \in Parent(t), p \in Inside[s] PROVE FALSE OBVIOUS
      <4>2. Parent(p) = {} BY OneParent
      <4>3. QED BY <3>1, <4>1, <4>2 DEF Parent
    <3>3. Below(s) \subseteq Target /\ Below(s) \cap Parent(t) = {}
      BY <3>1, <3>2, TreeAssumption DEF Below
    <3>4. \A x \in Below(s) : live'[x] = live[x] BY <2>1, <3>3
    <3>5. QED BY <2>1, <3>1, <3>4 DEF IsBefore, Image
  <2>7. RestoredWithin' BY <2>3, <2>5, <2>6 DEF RestoredWithin
  <2>8. \A x \in Target : live'[x] = live[x] \/ (~IsFile(live[x]) /\ live'[x] = Dir) BY <2>1
  <2>9. ~IsFile(Dir) BY NodeAssumption DEF IsFile
  <2>10. Grouped' BY <2>2, <2>3, <2>4, <2>7, <2>8, <2>9, ImagesGrouped
  <2>11. \A x \in Target : Text(live'[x]) = Text(live[x]) BY <2>8, <2>9 DEF Text
  <2>12. QED BY <2>2, <2>4, <2>10, <2>11, OpenAdjusts DEF Replacing
<1>4. QED BY <1>2, <1>3

LEMMA InstallBeforeGrouped ==
    ASSUME IInv, Grouped, NEW t \in Target, InstallBefore(t) PROVE Grouped' /\ Promises
<1>1. At("install") /\ op.target = t /\ op.pc \in Open /\ op.pc \in Aiming /\ touched' = touched
  BY DEF InstallBefore, Bounds, At, Open, Undoing, Aiming
<1>2. CASE Fail BY <1>1, <1>2, InPlace, FailGrouped
<1>3. CASE ~Fail
  <2>1. /\ Verified(t, t \in op.fresh) /\ Done(t) /\ tx' = tx
        /\ live' = [x \in Target |-> IF x \in Below(t) THEN tx.before[x] ELSE live[x]]
    BY <1>3 DEF InstallBefore
  <2>2. /\ live \in [Target -> Node] /\ tx # None /\ tx.phase = "open" /\ op \in Operation /\ op.restoring
        /\ t \in op.todo /\ t \in tx.entries
    BY <1>1, InPlace, GroupFacts DEF At, Undoing
  <2>3. op'.pc = "restore" /\ op'.todo = op.todo \ {t} BY <2>1, <2>2 DEF Operation, Done
  <2>4. SameJournal BY <1>1, <2>1, <2>2 DEF SameJournal
  <2>5. Untouched' = Untouched /\ Parent(t) \cap Untouched = {}
    BY <1>1, <2>1, <2>2 DEF Untouched, Grouped, RestoredWithin
  <2>6. ASSUME NEW s \in Untouched \ op.todo PROVE IsBefore(s)'
    <3>1. IsBefore(s) /\ s \in Target /\ s \notin Parent(t) /\ s # t /\ s \in tx.entries
      BY <1>1, <2>2, <2>5, <2>6, GroupFacts DEF Untouched, Grouped, RestoredWithin
    <3>2. s \notin Inside[t] BY <1>1, <2>2, <2>6, <3>1 DEF IInv, Restored
    <3>3. Below(s) \cap Below(t) = {}
      <4>1. SUFFICES ASSUME NEW x \in Inside[s], x \in Inside[t] PROVE FALSE
        BY <3>1, <3>2 DEF Below, Parent
      <4>2. s \in Parent(x) /\ t \in Parent(x) BY <3>1, <4>1 DEF Parent
      <4>3. x \in Target BY <3>1, TreeAssumption
      <4>4. QED BY <3>1, <4>2, <4>3, TreeAssumption
    <3>4. Below(s) \subseteq Target BY <3>1, TreeAssumption DEF Below
    <3>5. \A x \in Below(s) : live'[x] = live[x] BY <2>1, <3>3, <3>4
    <3>6. QED BY <2>1, <3>1, <3>5 DEF IsBefore, Image
  <2>7. IsBefore(t)'
    <3>1. Below(t) \subseteq Target BY TreeAssumption DEF Below
    <3>2. \A x \in Below(t) : live'[x] = tx.before[x] BY <2>1, <3>1
    <3>3. QED BY <2>1, <3>2 DEF IsBefore, Image
  <2>8. RestoredWithin' BY <2>3, <2>5, <2>6, <2>7 DEF RestoredWithin, Aiming
  <2>9. Grouped' BY <2>1, <2>2, <2>3, <2>4, <2>8, ImagesGrouped
  <2>10. \A x \in Below(t) : IsFile(live[x]) => live[x] \in {tx.before[x], tx.after[x]}
    BY <2>1, <2>2, VerifiedIsSeen
  <2>11. Below(t) \subseteq Scope BY <2>2 DEF Scope
  <2>12. \A x \in Target : Text(live'[x]) # Text(live[x]) =>
             x \in Scope /\ {Text(live[x]), Text(live'[x])} \subseteq
                                {Text(tx.before[x]), Text(tx.after[x]), Missing}
    BY <2>1, <2>10, <2>11 DEF Text
  <2>13. QED BY <2>2, <2>4, <2>9, <2>12, OpenAdjusts DEF Replacing
<1>4. QED BY <1>2, <1>3

-----------------------------------------------------------------------------
(* Beginning and ending. *)

LEMMA PlanGrouped ==
    ASSUME IInv, NEW after \in Snapshots, Plan(after) PROVE GInv' /\ Promises
<1> DEFINE ts == UNION {Parent(t) : t \in Writes(after)}
           deletes == Deletes(live, after)
<1>1. /\ live' = [t \in Target |-> IF t \in ts /\ live[t] = Missing THEN Dir ELSE live[t]]
      /\ tx = None /\ tx'.phase = "planned" /\ tx'.before = live /\ tx'.after = after
      /\ tx'.deletes = deletes /\ op'.pc = "prepare"
  BY DEF Plan, Idle
<1>2. \A x \in Target : live'[x] = live[x] \/ (live[x] = Missing /\ live'[x] = Dir) BY <1>1
<1>3. ~IsFile(Dir) /\ ~IsFile(Missing) BY NodeAssumption DEF IsFile
<1>4. ImagesOnly' BY <1>1, <1>2, <1>3 DEF ImagesOnly
<1>5. BackedUp' /\ RestoredWithin' BY <1>1 DEF BackedUp, RestoredWithin, At, Aiming
<1>6. FilesDeleted'
  <2>1. SUFFICES ASSUME NEW t \in deletes, t \notin Writes(after) PROVE live[t] # Dir /\ live'[t] # Dir
    BY <1>1 DEF FilesDeleted, Writes
  <2>2. t \in Target /\ IsFile(live[t]) BY <2>1, ManagedAssumption DEF Deletes, Writes
  <2>3. QED BY <1>2, <1>3, <2>2
<1>7. \A x \in Target : Text(live'[x]) = Text(live[x]) BY <1>2, <1>3 DEF Text
<1>8. ~Replacing /\ ~Replacing' BY <1>1 DEF Replacing
<1>9. QED BY <1>4, <1>5, <1>6, <1>7, <1>8, NothingPromised DEF GInv, Grouped

LEMMA PrepareGrouped ==
    ASSUME IInv, Grouped, Prepare PROVE Grouped' /\ Promises
<1>1. /\ At("prepare") /\ tx' = [tx EXCEPT !.before = live] /\ op' = [op EXCEPT !.pc = "publish"]
      /\ touched' = {} /\ live' = live
  BY DEF Prepare
<1>2. tx # None /\ tx \in Transaction /\ tx.phase = "planned" /\ op \in Operation /\ ~op.restoring
  BY <1>1 DEF IInv, Shape, TypeOK, At, Applying
<1>3. /\ tx'.before = live /\ tx'.after = tx.after /\ tx'.deletes = tx.deletes /\ tx'.phase = "planned"
      /\ op'.pc = "publish" /\ ~op'.restoring
  BY <1>1, <1>2 DEF Transaction, Operation
<1>4. ImagesOnly' /\ BackedUp' /\ RestoredWithin'
  BY <1>1, <1>3 DEF ImagesOnly, BackedUp, RestoredWithin
<1>5. FilesDeleted' BY <1>1, <1>2, <1>3 DEF Grouped, FilesDeleted, Writes
<1>6. ~Replacing /\ ~Replacing' BY <1>2, <1>3 DEF Replacing
<1>7. QED BY <1>1, <1>4, <1>5, <1>6, NothingPromised DEF Grouped

LEMMA PublishJournalGrouped ==
    ASSUME IInv, IInv', Grouped, PublishJournal PROVE Grouped' /\ Promises
<1>1. /\ At("publish") /\ tx' = [tx EXCEPT !.phase = "open"] /\ touched' = touched /\ live' = live
      /\ op' = [op EXCEPT !.pc = "delete", !.todo = Outermost(tx.deletes)]
  BY DEF PublishJournal, Files, Bounds
<1>2. tx # None /\ tx \in Transaction /\ tx.phase = "planned" /\ op \in Operation /\ ~op.restoring
  BY <1>1 DEF IInv, Shape, TypeOK, At, Applying
<1>3. tx' \in Transaction BY <1>1, <1>2 DEF Transaction
<1>4. /\ tx'.before = tx.before /\ tx'.after = tx.after /\ tx'.deletes = tx.deletes /\ tx'.phase = "open"
      /\ tx'.entries = tx.entries /\ tx' # None
  BY <1>1, <1>2, <1>3, NoneAssumption DEF Transaction
<1>5. op'.pc = "delete" /\ ~op'.restoring BY <1>1, <1>2 DEF Operation
<1>6. ImagesOnly' BY <1>1, <1>4 DEF Grouped, ImagesOnly
<1>7. BackedUp' /\ FilesDeleted' /\ RestoredWithin'
  BY <1>4, <1>5 DEF Grouped, BackedUp, FilesDeleted, RestoredWithin, Writes, At
<1>8. ~Replacing /\ Replacing' BY <1>2, <1>4 DEF Replacing
<1>9. GoodReplacement' BY <1>8, ReplacementIsJob, PTL
<1>10. \A x \in Group' : x \in Target \ touched BY <1>1, <1>9 DEF GoodReplacement
<1>11. Group = {} /\ Replacement = None BY <1>8 DEF Group, Replacement
<1>12. \A x \in Target \ touched : live[x] = tx.before[x] BY <1>1 DEF Grouped, BackedUp
<1>13. Promised' = Promised BY <1>1, <1>4, <1>10, <1>11, <1>12 DEF Promised
<1>14. \A x \in Group' : Promised[x] = Text(tx.before[x])
  BY <1>10, <1>11, <1>12, PromisedIs
<1>15. Promise!Begin
  BY <1>4, <1>9, <1>11, <1>13, <1>10, <1>14 DEF GoodReplacement, Promise!Begin
<1>16. QED BY <1>6, <1>7, <1>15 DEF Grouped, Promises, Promise!Next

\* What is written is whole, with all that is in it.
LEMMA WrittenWithin ==
    ASSUME IInv, Grouped, At("write"), op.todo = {}, NEW t \in Untouched, NEW x \in Below(t)
    PROVE  Text(live[x]) = Text(tx.after[x])
<1>1. tx # None /\ t \in Target /\ x \in Target \ touched /\ live \in Trees /\ t \in tx.entries
  BY UntouchedWithin, GroupFacts DEF IInv, Shape, At, Untouched
<1>2. ~IsFile(Missing) /\ ~IsFile(Dir) BY NodeAssumption DEF IsFile
<1>3. ASSUME NEW s \in Writes(tx.after), s \notin touched PROVE live[s] = tx.after[s]
  BY <1>3 DEF IInv, Written
<1>4. ASSUME NEW s \in Untouched, s \notin Writes(tx.after)
      PROVE  live[s] = Missing \/ live[s] = Dir
  BY <1>4 DEF IInv, Written
<1>5. \A s \in Target : s \notin Writes(tx.after) => ~IsFile(tx.after[s]) BY DEF Writes
<1>6. CASE x \in Writes(tx.after) BY <1>1, <1>3, <1>6
<1>7. CASE x \notin Writes(tx.after) /\ x \in tx.entries
  BY <1>1, <1>2, <1>4, <1>5, <1>7 DEF Untouched, Text
<1>8. CASE x \notin Writes(tx.after) /\ x \notin tx.entries
  <2>1. x \in Inside[t] BY <1>1, <1>8 DEF Below
  <2>2. SUFFICES ASSUME IsFile(live[x]) PROVE FALSE BY <1>1, <1>5, <1>8 DEF Text
  <2>3. live[x] \in {tx.before[x], tx.after[x]} BY <1>1, <2>2 DEF Grouped, ImagesOnly
  <2>4. IsFile(tx.before[x]) BY <1>1, <1>5, <1>8, <2>2, <2>3
  <2>5. live[t] = Dir BY <1>1, <1>2, <2>1, <2>2, TreeFacts
  <2>6. tx.before[t] = Dir BY <1>1, <1>2, <2>1, <2>4, GroupFacts, TreeFacts
  <2>7. t \notin Writes(tx.after) BY <1>1, <1>2, <1>3, <2>5 DEF Untouched, Writes
  <2>8. t \in tx.deletes BY <1>1, <2>7, GroupFacts
  <2>9. QED BY <2>6, <2>7, <2>8 DEF Grouped, FilesDeleted
<1>9. QED BY <1>6, <1>7, <1>8

LEMMA CompleteGrouped ==
    ASSUME IInv, Grouped, Complete PROVE Grouped' /\ Promises
<1>1. /\ At("write") \/ At("restore")
      /\ op.todo = {} /\ tx' = [tx EXCEPT !.phase = "completed"]
      /\ op' = [op EXCEPT !.pc = "clean"] /\ live' = live /\ touched' = touched
  BY DEF Complete, Files, Bounds
<1>2. op.pc \in Open BY <1>1 DEF At, Open, Undoing
<1>3. tx # None /\ tx \in Transaction /\ tx.phase = "open" /\ op \in Operation
  BY <1>2, InPlace DEF GoodJournal
<1>4. tx' \in Transaction BY <1>1, <1>3 DEF Transaction
<1>5. /\ tx'.before = tx.before /\ tx'.after = tx.after /\ tx'.deletes = tx.deletes
      /\ tx'.phase = "completed" /\ op'.pc = "clean"
  BY <1>1, <1>3 DEF Transaction, Operation
<1>6. Grouped'
  BY <1>1, <1>5 DEF Grouped, ImagesOnly, BackedUp, FilesDeleted, RestoredWithin, Writes, At, Aiming
<1>7. Replacing /\ ~Replacing' BY <1>3, <1>5 DEF Replacing
<1>8. GoodReplacement BY <1>7, ReplacementIsJob
<1>9. Group' = {} /\ Replacement' = None BY <1>7 DEF Group, Replacement
<1>10. Promised' = [x \in Target |-> Text(live[x])] BY <1>1, <1>9 DEF Promised
<1>11. \A x \in Group : \E t \in Untouched : x \in Below(t) BY <1>7 DEF Group, Untouched
<1>12. CASE At("write")
  <2>1. \A x \in Group : Text(live[x]) = Text(tx.after[x]) BY <1>1, <1>11, <1>12, WrittenWithin
  <2>2. \A x \in Target : x \notin Group => Promised[x] = Text(live[x]) BY PromisedIs
  <2>3. Promised' = [x \in Target |-> IF x \in Group THEN Replacement.new[x] ELSE Promised[x]]
    BY <1>8, <1>10, <2>1, <2>2 DEF GoodReplacement
  <2>4. Promise!Replace BY <1>8, <1>9, <2>3 DEF GoodReplacement, Promise!Replace
  <2>5. QED BY <1>6, <2>4 DEF Promises, Promise!Next
<1>13. CASE At("restore")
  <2>1. op.restoring BY <1>2, <1>13, InPlace DEF At, Undoing
  <2>2. \A t \in Untouched : IsBefore(t) BY <1>1, <1>13, <2>1 DEF Grouped, RestoredWithin, At
  <2>3. \A x \in Group : live[x] = tx.before[x] BY <1>11, <2>2 DEF IsBefore, Image
  <2>4. Promised' = Promised BY <1>10, <2>3 DEF Promised
  <2>5. Promise!Abandon BY <1>8, <1>9, <2>4 DEF GoodReplacement, Promise!Abandon
  <2>6. QED BY <1>6, <2>5 DEF Promises, Promise!Next
<1>14. QED BY <1>1, <1>12, <1>13

-----------------------------------------------------------------------------
(* Edits. *)

LEMMA EditedGrouped ==
    ASSUME IInv, IInv', GInv, NEW t \in Target, Edited(t),
           \A x \in Target \ Below(t) : live'[x] = live[x],
           \A x \in Below(t) : live'[x] \in {live[x], Missing} \cup Content
    PROVE  GInv'
<1> SUFFICES ASSUME tx # None PROVE Grouped' BY DEF GInv, Edited
<1>1. /\ tx' = tx /\ op' = op /\ touched' = touched \cup Below(t) \cup Parent(t) BY DEF Edited
<1>2. Grouped BY DEF GInv
<1>3. ImagesOnly' BY <1>1, <1>2 DEF Grouped, ImagesOnly
<1>4. BackedUp' BY <1>1, <1>2 DEF Grouped, BackedUp, At
<1>5. FilesDeleted'
  <2>1. SUFFICES ASSUME NEW s \in tx.deletes \ Writes(tx.after)
                 PROVE  tx.before[s] # Dir /\ (tx.phase = "planned" => live'[s] # Dir)
    BY <1>1 DEF FilesDeleted, Writes
  <2>2. s \in Target BY GroupFacts
  <2>3. live'[s] = live[s] \/ live'[s] \in {Missing} \cup Content BY <2>2
  <2>4. QED BY <1>2, <2>3, NodeAssumption DEF Grouped, FilesDeleted
<1>6. Untouched' \subseteq Untouched BY <1>1 DEF Untouched
<1>7. ASSUME NEW s \in Untouched', IsBefore(s) PROVE IsBefore(s)'
  <2>1. s \in Target /\ s \notin Below(t) /\ s \notin Parent(t)
    BY <1>1, <1>7, GroupFacts DEF Untouched
  <2>2. t \notin Below(s) BY <2>1 DEF Below, Parent
  <2>3. \A x \in Inside[s] : x \in Target /\ x \notin Inside[t]
    <3>1. Inside[s] \subseteq Target BY <2>1, TreeAssumption
    <3>2. ASSUME NEW x \in Inside[s], x \in Inside[t] PROVE FALSE
      <4>1. s \in Parent(x) /\ t \in Parent(x) BY <2>1, <3>2 DEF Parent
      <4>2. s = t BY <3>1, <4>1, TreeAssumption
      <4>3. QED BY <2>1, <4>2 DEF Below
    <3>3. QED BY <3>1, <3>2
  <2>4. \A x \in Below(s) : live'[x] = live[x] BY <2>1, <2>2, <2>3 DEF Below
  <2>5. QED BY <1>1, <1>7, <2>4 DEF IsBefore, Image
<1>8. RestoredWithin' BY <1>1, <1>2, <1>6, <1>7 DEF Grouped, RestoredWithin
<1>9. QED BY <1>3, <1>4, <1>5, <1>8 DEF Grouped

LEMMA NearIs ==
    ASSUME NEW t \in Target, NEW s \in Target, s \in Below(t) \cup Parent(t)
    PROVE  Below(s) \subseteq Promise!Near(t)
<1> DEFINE qs == {q \in Target : q = t \/ t \in Inside[q]}
<1>1. Promise!Near(t) = UNION {{p} \cup Inside[p] : p \in qs} BY DEF Promise!Near
<1>2. CASE s = t BY <1>1, <1>2 DEF Below
<1>3. CASE s \in Parent(t) BY <1>1, <1>3 DEF Below, Parent
<1>4. CASE s \in Inside[t]
  <2>1. Inside[s] = {} BY <1>4, OneParent DEF Parent
  <2>2. t \in qs OBVIOUS
  <2>3. QED BY <1>1, <1>4, <2>1, <2>2 DEF Below
<1>5. QED BY <1>2, <1>3, <1>4 DEF Below

\* A job with another group.
LEMMA Regroup ==
    ASSUME NEW a, NEW b, NEW c, NEW g, NEW h
    PROVE  [[old |-> a, new |-> b, scope |-> c, group |-> g] EXCEPT !.group = h]
               = [old |-> a, new |-> b, scope |-> c, group |-> h]
  OBVIOUS

LEMMA EditedPromises ==
    ASSUME IInv, IInv', GInv, NEW t \in Target, Edited(t),
           \A x \in Target \ Below(t) : live'[x] = live[x],
           \A x \in Inside[t] : live'[x] \in {live[x], Missing}
    PROVE  Promises
<1>1. /\ tx' = tx /\ touched' = touched \cup Below(t) \cup Parent(t) BY DEF Edited
<1>2. Promised' \in [Target -> Content \cup {Missing}] BY DEF Promised, Text, IsFile
<1>3. Text(Missing) = Missing BY DEF Text
<1>4. Replacing' <=> Replacing BY <1>1 DEF Replacing
<1>5. CASE ~Replacing
  <2>1. Group = {} /\ Group' = {} /\ Replacement = None /\ Replacement' = None
    BY <1>4, <1>5 DEF Group, Replacement
  <2>2. \A x \in Target : Promised[x] = Text(live[x]) /\ Promised'[x] = Text(live'[x])
    BY <2>1 DEF Promised
  <2>3. \A x \in Target : Promised'[x] # Promised[x] =>
            x = t \/ (x \in Inside[t] /\ Promised'[x] = Missing)
    BY <1>3, <2>2 DEF Below
  <2>4. Promise!Edit(t) BY <1>2, <2>1, <2>3 DEF Promise!Edit, Promise!Contents
  <2>5. QED BY <2>4 DEF Promises, Promise!Next
<1>6. CASE Replacing
  <2>1. GoodReplacement BY <1>6, ReplacementIsJob
  <2>2. GoodReplacement' BY <1>4, <1>6, ReplacementIsJob, PTL
  <2> DEFINE ts == Group \ Group'
  <2>3. tx # None /\ tx.entries \subseteq Target /\ Grouped BY <1>6, GroupFacts DEF Replacing, GInv
  <2>4. /\ Group = UNION {Below(s) : s \in Untouched}
        /\ Group' = UNION {Below(s) : s \in Untouched'}
    BY <1>1, <1>4, <1>6 DEF Group, Untouched
  <2>5. Untouched' = Untouched \ (Below(t) \cup Parent(t)) BY <1>1 DEF Untouched
  <2>6. Group' \subseteq Group BY <2>4, <2>5
  <2>7. ts \subseteq Promise!Near(t)
    <3>1. SUFFICES ASSUME NEW x \in ts PROVE x \in Promise!Near(t) OBVIOUS
    <3>2. PICK s \in Untouched : x \in Below(s) BY <2>4
    <3>3. s \in Below(t) \cup Parent(t) BY <2>4, <2>5, <3>1, <3>2
    <3>4. s \in Target BY <2>3 DEF Untouched
    <3>5. QED BY <3>2, <3>3, <3>4, NearIs
  <2>8. t \notin Group'
    <3>1. SUFFICES ASSUME NEW s \in Untouched', t \in Below(s) PROVE FALSE BY <2>4
    <3>2. s \in Target BY <2>3, <2>5 DEF Untouched
    <3>3. s = t \/ s \in Parent(t) BY <3>1, <3>2 DEF Below, Parent
    <3>4. QED BY <2>5, <3>1, <3>3 DEF Below
  <2>9. Group' = Group \ ({t} \cup ts) BY <2>6, <2>8
  <2>10. Replacement' = [Replacement EXCEPT !.group = Replacement.group \ ({t} \cup ts)]
    <3>1. Replacement = [old |-> Texts(tx.before), new |-> Texts(tx.after),
                         scope |-> Scope, group |-> Group]
      BY <1>6 DEF Replacement, Scope
    <3>2. Replacement' = [old |-> Texts(tx.before), new |-> Texts(tx.after),
                          scope |-> Scope, group |-> Group']
      BY <1>1, <1>4, <1>6 DEF Replacement, Scope, Texts
    <3>3. Replacement.group = Group BY <2>1 DEF GoodReplacement
    <3> HIDE DEF ts
    <3>4. QED BY <2>9, <3>1, <3>2, <3>3, Regroup
  <2>11. ASSUME NEW x \in Target, Promised'[x] # Promised[x]
         PROVE  \/ x = t
                \/ x \in Inside[t] /\ Promised'[x] = Missing
                \/ /\ x \in Replacement.group \ Replacement'.group
                   /\ Promised'[x] \in {Replacement.old[x], Replacement.new[x], Missing}
    <3>1. Promised'[x] = Text(IF x \in Group' THEN tx.before[x] ELSE live'[x])
      BY <1>1 DEF Promised
    <3>2. Promised[x] = Text(IF x \in Group THEN tx.before[x] ELSE live[x]) BY PromisedIs
    <3>3. x \notin Group' BY <2>6, <2>11, <3>1, <3>2
    <3>4. SUFFICES ASSUME live'[x] = live[x]
                   PROVE  /\ x \in Replacement.group \ Replacement'.group
                          /\ Promised'[x] \in {Replacement.old[x], Replacement.new[x], Missing}
      BY <1>3, <3>1, <3>3 DEF Below
    <3>5. x \in Group BY <2>11, <3>1, <3>2, <3>3, <3>4
    <3>6. IsFile(live[x]) => live[x] \in {tx.before[x], tx.after[x]}
      BY <2>1, <2>3, <3>5 DEF GoodReplacement, Grouped, ImagesOnly
    <3>7. Promised'[x] \in {Text(tx.before[x]), Text(tx.after[x]), Missing}
      BY <3>1, <3>3, <3>4, <3>6 DEF Text
    <3>8. QED BY <2>1, <2>2, <3>3, <3>5, <3>7 DEF GoodReplacement
  <2>12. Promise!Edit(t)
    BY <1>2, <2>1, <2>7, <2>10, <2>11
       DEF GoodReplacement, Promise!Edit, Promise!Contents, Promise!Recognised
  <2>13. QED BY <2>12 DEF Promises, Promise!Next
<1>7. QED BY <1>5, <1>6

LEMMA DeleteFileGrouped ==
    ASSUME IInv, IInv', GInv, NEW t \in Target, DeleteFile(t) PROVE GInv' /\ Promises
<1>1. /\ live' = [x \in Target |-> IF x \in Below(t) THEN Missing ELSE live[x]]
      /\ Edited(t)
  BY DEF DeleteFile
<1>2. Below(t) \subseteq Target BY TreeAssumption DEF Below
<1>3. \A x \in Below(t) : live'[x] = Missing BY <1>1, <1>2
<1>4. \A x \in Target \ Below(t) : live'[x] = live[x] BY <1>1
<1>5. QED BY <1>1, <1>3, <1>4, EditedGrouped, EditedPromises DEF Below

LEMMA WriteFileGrouped ==
    ASSUME IInv, IInv', GInv, NEW t \in Target, NEW v \in Content, WriteFile(t, v) PROVE GInv' /\ Promises
<1>1. live' = [live EXCEPT ![t] = v] /\ Edited(t) BY DEF WriteFile
<1>2. live \in [Target -> Node] BY GroupFacts
<1>3. Inside[t] \subseteq Target /\ t \notin Inside[t] BY TreeAssumption
<1>4. live'[t] = v /\ \A x \in Target : x # t => live'[x] = live[x] BY <1>1, <1>2
<1>5. QED BY <1>1, <1>3, <1>4, EditedGrouped, EditedPromises DEF Below

-----------------------------------------------------------------------------
LEMMA InitGrouped == Init => GInv /\ Promise!Init
<1> SUFFICES ASSUME Init PROVE GInv /\ Promise!Init OBVIOUS
<1>1. tx = None BY DEF Init
<1>2. Replacement = None BY <1>1 DEF Replacement, Replacing
<1>3. QED BY <1>1, <1>2, PromisedIs DEF GInv, Promise!Init, Promise!Contents

LEMMA StepGrouped == ASSUME IInv, IInv', GInv, [Next]_vars PROVE GInv' /\ Promises
<1>1. CASE UNCHANGED vars
  <2>1. GInv'
    BY <1>1 DEF GInv, Grouped, ImagesOnly, BackedUp, FilesDeleted, RestoredWithin, Untouched,
                IsBefore, Image, Writes, At, vars
  <2>2. Promised' = Promised /\ Replacement' = Replacement
    BY <1>1 DEF vars, Promised, Replacement, Group, Replacing, Texts
  <2>3. QED BY <2>1, <2>2 DEF Promises, Promise!vars
<1>2. CASE \E after \in Snapshots : Plan(after) BY <1>2, PlanGrouped
<1>3. ASSUME tx # None, TransactionStep PROVE GInv' /\ Promises
  <2>1. Grouped BY <1>3 DEF GInv
  <2>2. CASE ApplyStep
    BY <2>1, <2>2, PrepareGrouped, PublishJournalGrouped, RetireIntentsGrouped, IntendDeleteGrouped,
       MakeParentGrouped, InstallGrouped, CompleteGrouped, RemoveBackupGrouped,
       RemoveTransactionGrouped DEF ApplyStep, GInv
  <2>3. CASE RemoveStep
    BY <2>1, <2>3, RemoveGrouped, RemoveTopGrouped, RemoveInsideGrouped DEF RemoveStep, GInv
  <2>4. CASE RestoreStep
    BY <2>1, <2>4, BeginRecoveryGrouped, VerifyGroupGrouped, RemoveStagesGrouped,
       SkipRestoredGrouped, IntendUndoGrouped, ClaimStageGrouped, StageGrouped,
       IntendRestoreGrouped, ArmRestoreGrouped, InstallBeforeGrouped DEF RestoreStep, GInv
  <2>5. QED BY <1>3, <2>2, <2>3, <2>4 DEF TransactionStep
<1>4. TransactionStep \/ IOError => tx # None
  <2>1. At("idle") => ~IOError /\ (TransactionStep => tx # None)
    BY DEF IOError, TransactionStep, ApplyStep, RemoveStep, RestoreStep, Prepare, PublishJournal,
           RetireIntents, IntendDelete, MakeParent, Install, Complete, RemoveBackup,
           RemoveTransaction, Remove, RemoveTop, RemoveInside, BeginRecovery, VerifyGroup,
           RemoveStages, SkipRestored, IntendUndo, ClaimStage, Stage, IntendRestore, ArmRestore,
           InstallBefore, At
  <2>2. QED BY <2>1 DEF IInv, Shape
<1>5. CASE UserStep BY <1>5, DeleteFileGrouped, WriteFileGrouped DEF UserStep
<1>6. CASE IOError BY <1>4, <1>6, IOErrorGrouped DEF GInv
<1>7. CASE Crash BY <1>7, CrashGrouped
<1>8. QED BY <1>1, <1>2, <1>3, <1>4, <1>5, <1>6, <1>7 DEF Next

\* Through errors, crashes, rollbacks and the writes of other programs, a
\* transaction replaces its group in one step, as a recovery would find it, or
\* leaves it as it was, and what lies outside its scope changes by edits alone.
THEOREM TransactionKeepsPromise == Spec => ImplementsGroupReplacement
<1>1. Init => GInv /\ Promise!Init BY InitGrouped
<1>2. IInv /\ IInv' /\ GInv /\ [Next]_vars => GInv' /\ [Promise!Next]_(Promise!vars)
  BY StepGrouped DEF Promises
<1>3. QED BY <1>1, <1>2, Invariance, PTL DEF Spec, ImplementsGroupReplacement, Promise!Spec

=============================================================================
