-------------------------- MODULE MergedSync_proofs --------------------------
(***************************************************************************)
(* What the merged transfer keeps, for every set of devices, paths,        *)
(* contents and dependency groups.                                         *)
(*                                                                         *)
(* IInv says of every record a device keeps (its state file, its journal,  *)
(* the sync it is running) what it owes to the snapshots "sn" and to those *)
(* of them, "hs", that were active.  Snapshots are immutable and           *)
(* activation is for good, so a record stays good while others act; each   *)
(* action is then a statement about its own device.                        *)
(*                                                                         *)
(* Traced says where the files of a device come from, Checked that a file  *)
(* is replaced while it still is what it was checked to be, and Chain that *)
(* the pointer never returns to a head it left.  Together they make every  *)
(* step a step of ThreeWaySync.                                            *)
(***************************************************************************)
EXTENDS MergedSync, TLAPS

\* The phases in which a sync has read a head, those in which it decided
\* there is nothing to transfer, those in which its journal exists, and
\* those in which it has recognised the journal's candidate as active.
Headed == {"evidence", "inspect", "witness", "accept", "recheck", "rehead", "journal",
           "precommit", "commit", "publishing", "settle", "applying", "replacing", "record",
           "clear"}
NoTransfer == {"evidence", "inspect", "witness", "accept"}
Journaled == {"precommit", "commit", "publishing", "reconcile", "settle", "applying",
              "replacing", "record", "clear"}
Resumed == {"applying", "replacing", "record", "clear"}

\* w holds a dependency group as a whole or not at all.
Closed(w) == \A g \in Together : g \subseteq w \/ g \cap w = {}

\* What BaselineWasActive says of one baseline.
GoodState(st, hs, sn) ==
    /\ st.applied \in hs
    /\ \A g \in Together \cup {{p} : p \in Path} :
           \E i \in hs : \A p \in g : st.base[p] = sn[i][p]
    /\ st.unresolved = {} => st.base = sn[st.applied]

\* A journal records what its candidate holds, up to the withheld paths.
GoodJournal(j, hs, sn) ==
    j # None =>
        /\ j.upload \in 1 .. Len(sn)
        /\ GoodState(j.state, hs, sn)
        /\ Closed(j.withheld)
        /\ \A p \in Path \ j.withheld : j.after[p] = sn[j.upload][p]

GoodOp(o, j, hs, sn) ==
    /\ GoodState(o.state, hs, sn)
    /\ o.pc \in Headed => o.head \in hs
    /\ o.pc \in NoTransfer =>
           /\ Publication(o.state.base, o.local, sn[o.head]) = sn[o.head]
           /\ Accepted(o.state.base, o.local, sn[o.head]) = o.local
    /\ o.pc \in Journaled => j # None
    /\ o.pc \in Resumed => o.head = j.upload

IInv ==
    /\ TypeOK
    /\ 1 \in heads /\ snaps[1] = Initial
    /\ head \in heads
    /\ \A q \in puts : q.cand \in 1 .. Len(snaps)
    /\ \A d \in Device : /\ GoodState(state[d], heads, snaps)
                         /\ GoodJournal(journal[d], heads, snaps)
                         /\ GoodOp(op[d], journal[d], heads, snaps)

-----------------------------------------------------------------------------
(* The operators of the merge. *)

\* Merging images gives images, withholds dependency groups as a whole, and
\* publishes what it accepts of every path that is not withheld.
LEMMA MergeFacts ==
    ASSUME NEW b \in Image, NEW l \in Image, NEW r \in Image
    PROVE  /\ Withheld(b, l, r) \in SUBSET Path
           /\ Accepted(b, l, r) \in Image
           /\ Publication(b, l, r) \in Image
           /\ Closed(Withheld(b, l, r))
           /\ \A p \in Path \ Withheld(b, l, r) :
                  Accepted(b, l, r)[p] = Publication(b, l, r)[p]
<1>1. Conflicts(b, l, r) \subseteq Path
  BY DEF Conflicts, BothChanged, TakesRemote
<1>2. Withheld(b, l, r) \in SUBSET Path
  BY <1>1, TogetherAssumption DEF Withheld
<1>3. Accepted(b, l, r) \in Image
  BY DEF Accepted, Image
<1>4. Publication(b, l, r) \in Image
  BY <1>3 DEF Publication, Image
<1>5. Closed(Withheld(b, l, r))
  BY TogetherAssumption DEF Closed, Withheld
<1>6. \A p \in Path \ Withheld(b, l, r) : Accepted(b, l, r)[p] = Publication(b, l, r)[p]
  BY DEF Publication
<1> QED
  BY <1>2, <1>3, <1>4, <1>5, <1>6

\* Accepting an active snapshot, up to closed withheld paths, keeps a
\* baseline good.
LEMMA AcceptedStateFacts ==
    ASSUME NEW previous \in State, NEW image \in Image, NEW w \in SUBSET Path,
           NEW hs \in SUBSET Snapshot, NEW sn, NEW i \in hs,
           sn[i] \in Image, Closed(w), GoodState(previous, hs, sn),
           \A p \in Path \ w : image[p] = sn[i][p]
    PROVE  /\ AcceptedState(previous, image, i, w) \in State
           /\ GoodState(AcceptedState(previous, image, i, w), hs, sn)
<1> DEFINE st == AcceptedState(previous, image, i, w)
<1>1. CASE w = {}
  <2>1. st = [applied |-> i, base |-> image, unresolved |-> {}, observed |-> 0]
    BY <1>1 DEF AcceptedState
  <2>2. image = sn[i]
    BY <1>1 DEF Image
  <2> QED
    BY <2>1, <2>2, TogetherAssumption DEF State, GoodState
<1>2. CASE w # {}
  <2> DEFINE base == [p \in Path |-> IF p \in w THEN previous.base[p] ELSE image[p]]
  <2>1. st = [previous EXCEPT !.base = base, !.unresolved = w, !.observed = i]
    BY <1>2 DEF AcceptedState
  <2>2. base \in Image
    BY DEF Image, State
  <2> HIDE DEF base
  <2>3. st \in State
    BY <2>1, <2>2 DEF State
  <2>4. /\ st.applied = previous.applied
        /\ st.base = base
        /\ st.unresolved = w
    BY <2>1 DEF State
  <2> HIDE DEF st
  <2>5. ASSUME NEW g \in Together \cup {{p} : p \in Path}
        PROVE  \E k \in hs : \A p \in g : base[p] = sn[k][p]
    <3>1. g \subseteq Path /\ (g \subseteq w \/ g \cap w = {})
      BY TogetherAssumption DEF Closed
    <3>2. CASE g \subseteq w
      <4>1. \A p \in g : base[p] = previous.base[p]
        BY <3>1, <3>2 DEF base
      <4> QED
        BY <4>1 DEF GoodState
    <3>3. CASE g \cap w = {}
      <4>1. \A p \in g : base[p] = sn[i][p]
        BY <3>1, <3>3 DEF base
      <4> QED
        BY <4>1
    <3> QED
      BY <3>1, <3>2, <3>3
  <2>6. GoodState(st, hs, sn)
    BY <1>2, <2>4, <2>5 DEF GoodState
  <2> QED
    BY <2>3, <2>6 DEF st
<1> QED
  BY <1>1, <1>2

-----------------------------------------------------------------------------
(* Records stay good while snapshots are added and become active. *)

Grows(hs, sn, hs2, sn2) ==
    /\ hs \subseteq hs2
    /\ Len(sn) \in Nat /\ Len(sn2) \in Nat /\ Len(sn) <= Len(sn2)
    /\ hs \subseteq 1 .. Len(sn)
    /\ \A i \in 1 .. Len(sn) : sn2[i] = sn[i]

LEMMA StateStaysGood ==
    ASSUME NEW st, NEW hs, NEW sn, NEW hs2, NEW sn2,
           Grows(hs, sn, hs2, sn2), GoodState(st, hs, sn)
    PROVE  GoodState(st, hs2, sn2)
<1>1. \A i \in hs : i \in hs2 /\ sn2[i] = sn[i]
  BY DEF Grows
<1>2. st.applied \in hs2 /\ sn2[st.applied] = sn[st.applied]
  BY <1>1 DEF GoodState
<1>3. ASSUME NEW g \in Together \cup {{p} : p \in Path}
      PROVE  \E i \in hs2 : \A p \in g : st.base[p] = sn2[i][p]
  <2>1. PICK i \in hs : \A p \in g : st.base[p] = sn[i][p]
    BY DEF GoodState
  <2> QED
    BY <1>1, <2>1
<1>4. st.unresolved = {} => st.base = sn2[st.applied]
  BY <1>2 DEF GoodState
<1> QED
  BY <1>2, <1>3, <1>4 DEF GoodState

LEMMA JournalStaysGood ==
    ASSUME NEW j, NEW hs, NEW sn, NEW hs2, NEW sn2,
           Grows(hs, sn, hs2, sn2), GoodJournal(j, hs, sn)
    PROVE  GoodJournal(j, hs2, sn2)
<1> SUFFICES ASSUME j # None
             PROVE  /\ j.upload \in 1 .. Len(sn2)
                    /\ GoodState(j.state, hs2, sn2)
                    /\ Closed(j.withheld)
                    /\ \A p \in Path \ j.withheld : j.after[p] = sn2[j.upload][p]
  BY DEF GoodJournal
<1>1. /\ j.upload \in 1 .. Len(sn)
      /\ GoodState(j.state, hs, sn)
      /\ Closed(j.withheld)
      /\ \A p \in Path \ j.withheld : j.after[p] = sn[j.upload][p]
  BY DEF GoodJournal
<1>2. j.upload \in 1 .. Len(sn2) /\ sn2[j.upload] = sn[j.upload]
  BY <1>1 DEF Grows
<1>3. GoodState(j.state, hs2, sn2)
  BY <1>1, StateStaysGood
<1> QED
  BY <1>1, <1>2, <1>3

LEMMA OpStaysGood ==
    ASSUME NEW o, NEW j, NEW hs, NEW sn, NEW hs2, NEW sn2,
           Grows(hs, sn, hs2, sn2), GoodOp(o, j, hs, sn)
    PROVE  GoodOp(o, j, hs2, sn2)
<1>1. o.pc \in NoTransfer => o.pc \in Headed
  BY DEF NoTransfer, Headed
<1>2. \A i \in hs : i \in hs2 /\ sn2[i] = sn[i]
  BY DEF Grows
<1>3. GoodState(o.state, hs2, sn2)
  BY StateStaysGood DEF GoodOp
<1> QED
  BY <1>1, <1>2, <1>3 DEF GoodOp

LEMMA Unmoved == IInv => Grows(heads, snaps, heads, snaps)
  BY DEF IInv, TypeOK, Grows

-----------------------------------------------------------------------------
(* A step of one device. *)

LEMMA DeviceStep ==
    ASSUME IInv, NEW d \in Device,
           NEW o \in Operation, NEW j \in Journal \cup {None}, NEW st \in State,
           op' = [op EXCEPT ![d] = o],
           journal' = [journal EXCEPT ![d] = j],
           state' = [state EXCEPT ![d] = st],
           UNCHANGED <<head, heads>>,
           local' \in [Device -> Image],
           snaps' \in Seq(Image), Len(snaps') \in Snapshot,
           Grows(heads, snaps, heads, snaps'),
           puts' \subseteq Put, \A q \in puts' : q.cand \in 1 .. Len(snaps'),
           edits' \in 0 .. MaxEdit, faults' \in 0 .. MaxFault,
           mine' \in [Device -> [Path -> Version \cup {None}]],
           GoodState(st, heads, snaps'),
           GoodJournal(j, heads, snaps'),
           GoodOp(o, j, heads, snaps')
    PROVE  IInv'
<1>1. TypeOK'
  <2>1. TypeOK /\ head' = head /\ heads' = heads
    BY DEF IInv
  <2>2. op' \in [Device -> Operation]
    BY <2>1 DEF TypeOK
  <2>3. journal' \in [Device -> Journal \cup {None}]
    BY <2>1 DEF TypeOK
  <2>4. state' \in [Device -> State]
    BY <2>1 DEF TypeOK
  <2>5. head' \in 1 .. Len(snaps') /\ heads' \subseteq 1 .. Len(snaps')
    BY <2>1 DEF TypeOK, Grows
  <2> QED
    BY <2>2, <2>3, <2>4, <2>5 DEF TypeOK
<1>2. 1 \in heads' /\ snaps'[1] = Initial /\ head' \in heads'
  <2>1. 1 \in heads /\ snaps[1] = Initial /\ head \in heads
    BY DEF IInv
  <2> QED
    BY <2>1 DEF Grows
<1>3. ASSUME NEW e \in Device
      PROVE  /\ GoodState(state'[e], heads', snaps')
             /\ GoodJournal(journal'[e], heads', snaps')
             /\ GoodOp(op'[e], journal'[e], heads', snaps')
  <2>1. CASE e = d
    <3>1. state'[e] = st /\ journal'[e] = j /\ op'[e] = o
      BY <2>1 DEF IInv, TypeOK
    <3> QED
      BY <3>1
  <2>2. CASE e # d
    <3>1. state'[e] = state[e] /\ journal'[e] = journal[e] /\ op'[e] = op[e]
      BY <2>2 DEF IInv, TypeOK
    <3>2. /\ GoodState(state[e], heads, snaps)
          /\ GoodJournal(journal[e], heads, snaps)
          /\ GoodOp(op[e], journal[e], heads, snaps)
      BY DEF IInv
    <3> QED
      BY <3>1, <3>2, StateStaysGood, JournalStaysGood, OpStaysGood
  <2> QED
    BY <2>1, <2>2
<1> QED
  BY <1>1, <1>2, <1>3 DEF IInv

LEMMA OpStep ==
    ASSUME IInv, NEW d \in Device, NEW o \in Operation,
           op' = [op EXCEPT ![d] = o],
           UNCHANGED <<disk, remote, edits, history>>, faults' \in 0 .. MaxFault,
           GoodOp(o, journal[d], heads, snaps)
    PROVE  IInv'
<1>1. /\ journal' = [journal EXCEPT ![d] = journal[d]]
      /\ state' = [state EXCEPT ![d] = state[d]]
      /\ journal[d] \in Journal \cup {None} /\ state[d] \in State
  BY DEF IInv, TypeOK, disk
<1>2. /\ GoodState(state[d], heads, snaps)
      /\ GoodJournal(journal[d], heads, snaps)
  BY DEF IInv
<1>3. snaps' = snaps /\ local' = local /\ puts' = puts /\ mine' = mine /\ edits' = edits
      /\ head' = head /\ heads' = heads
  BY DEF disk, remote, history
<1>4. TypeOK /\ \A q \in puts : q.cand \in 1 .. Len(snaps)
  BY DEF IInv
<1> QED
  BY <1>1, <1>2, <1>3, <1>4, Unmoved, DeviceStep DEF TypeOK

\* A sync that stops, or starts over, keeps nothing but its attempt count.
LEMMA BlankGood ==
    ASSUME IInv, NEW j, NEW pc \in {"idle", "observe", "reconcile"},
           pc = "reconcile" => j # None,
           NEW n \in 0 .. MaxAttempts - 1
    PROVE  Blank(pc, n) \in Operation /\ GoodOp(Blank(pc, n), j, heads, snaps)
<1>1. InitState \in State
  BY InitialAssumption, BoundAssumption DEF InitState, State, Snapshot
<1>2. GoodState(InitState, heads, snaps)
  <2>1. 1 \in heads /\ snaps[1] = Initial
    BY DEF IInv
  <2> QED
    BY <2>1 DEF GoodState, InitState
<1>3. Blank(pc, n) \in Operation
  BY <1>1, InitialAssumption DEF Blank, Operation, Phase
<1>4. GoodOp(Blank(pc, n), j, heads, snaps)
  BY <1>2 DEF Blank, GoodOp, Headed, NoTransfer, Journaled, Resumed
<1> QED
  BY <1>3, <1>4

LEMMA IdleGood ==
    ASSUME IInv, NEW j
    PROVE  Idle \in Operation /\ GoodOp(Idle, j, heads, snaps)
<1>1. 0 \in 0 .. MaxAttempts - 1
  BY BoundAssumption
<1> QED
  BY <1>1, BlankGood DEF Idle

\* Moving on to a phase that claims nothing new.
LEMMA PhaseGood ==
    ASSUME IInv, NEW d \in Device, NEW to \in Phase,
           to \in Headed => op[d].pc \in Headed,
           to \in NoTransfer => op[d].pc \in NoTransfer,
           to \in Journaled => journal[d] # None,
           to \in Resumed => op[d].pc \in Resumed
    PROVE  LET o == [op[d] EXCEPT !.pc = to]
           IN  o \in Operation /\ GoodOp(o, journal[d], heads, snaps)
<1>1. op[d] \in Operation /\ GoodOp(op[d], journal[d], heads, snaps)
  BY DEF IInv, TypeOK
<1> QED
  BY <1>1 DEF Operation, GoodOp

LEMMA GotoStep ==
    ASSUME IInv, NEW d \in Device, NEW to \in Phase, Goto(d, to),
           UNCHANGED <<disk, remote, counters, history>>,
           to \in Headed => op[d].pc \in Headed,
           to \in NoTransfer => op[d].pc \in NoTransfer,
           to \in Journaled => journal[d] # None,
           to \in Resumed => op[d].pc \in Resumed
    PROVE  IInv'
<1> DEFINE o == [op[d] EXCEPT !.pc = to]
<1>1. o \in Operation /\ GoodOp(o, journal[d], heads, snaps)
  BY PhaseGood
<1>2. op' = [op EXCEPT ![d] = o]
  BY DEF Goto
<1>3. faults' \in 0 .. MaxFault /\ edits' = edits
  BY DEF IInv, TypeOK, counters
<1> HIDE DEF o
<1> QED
  BY <1>1, <1>2, <1>3, OpStep

LEMMA StopStep ==
    ASSUME IInv, NEW d \in Device, Stop(d),
           UNCHANGED <<disk, remote, edits, history>>, faults' \in 0 .. MaxFault
    PROVE  IInv'
  BY IdleGood, OpStep DEF Stop

LEMMA CheckStep ==
    ASSUME IInv, NEW d \in Device, NEW from \in Phase, NEW to \in Phase, NEW ok \in BOOLEAN,
           Check(d, from, ok, to),
           to \in Headed => from \in Headed,
           to \in NoTransfer => from \in NoTransfer,
           to \in Journaled => from \in Journaled,
           to \in Resumed => from \in Resumed
    PROVE  IInv'
<1>1. op[d].pc = from /\ UNCHANGED <<disk, remote, counters, history>>
  BY DEF Check, At
<1>2. from \in Journaled => journal[d] # None
  BY <1>1 DEF IInv, GoodOp
<1>3. CASE ok
  <2>1. Goto(d, to)
    BY <1>3 DEF Check
  <2> QED
    BY <1>1, <1>2, <2>1, GotoStep
<1>4. CASE ~ok
  <2>1. Stop(d)
    BY <1>4 DEF Check
  <2>2. edits' = edits /\ faults' \in 0 .. MaxFault
    BY <1>1 DEF IInv, TypeOK, counters
  <2> QED
    BY <1>1, <2>1, <2>2, StopStep
<1> QED
  BY <1>3, <1>4

-----------------------------------------------------------------------------
(* Planning. *)

LEMMA PlanKeeps ==
    ASSUME IInv, NEW d \in Device, PlanStep(d)
    PROVE  IInv'
<1>1. CASE BeginSync(d)
  <2> DEFINE to == IF journal[d] = None THEN "observe" ELSE "reconcile"
  <2>1. to \in Phase /\ to \notin Headed /\ to \notin NoTransfer /\ to \notin Resumed
    BY DEF Phase, Headed, NoTransfer, Resumed
  <2>2. to \in Journaled => journal[d] # None
    BY DEF Journaled
  <2>3. Goto(d, to) /\ UNCHANGED <<disk, remote, counters, history>>
    BY <1>1 DEF BeginSync
  <2> HIDE DEF to
  <2> QED
    BY <2>1, <2>2, <2>3, GotoStep
<1>2. CASE Observe(d)
  <2> DEFINE o == [op[d] EXCEPT !.pc = "plan", !.local = local[d], !.state = state[d]]
  <2>1. op[d] \in Operation /\ local[d] \in Image /\ state[d] \in State
        /\ GoodState(state[d], heads, snaps)
    BY DEF IInv, TypeOK
  <2>2. o \in Operation
    BY <2>1 DEF Operation, Phase
  <2>3. o.pc = "plan" /\ o.state = state[d]
    BY <2>1 DEF Operation
  <2>4. op' = [op EXCEPT ![d] = o]
    BY <1>2 DEF Observe
  <2> HIDE DEF o
  <2>5. GoodOp(o, journal[d], heads, snaps)
    BY <2>1, <2>3 DEF GoodOp, Headed, NoTransfer, Journaled, Resumed
  <2>6. UNCHANGED <<disk, remote, edits, history>> /\ faults' \in 0 .. MaxFault
    BY <1>2 DEF Observe, counters, IInv, TypeOK
  <2> QED
    BY <2>2, <2>4, <2>5, <2>6, OpStep
<1>3. CASE Review(d)
  <2>1. Stop(d) /\ UNCHANGED <<disk, remote, edits, history>> /\ faults' \in 0 .. MaxFault
    BY <1>3 DEF Review, counters, IInv, TypeOK
  <2> QED
    BY <2>1, StopStep
<1>4. CASE Plan(d)
  <2> DEFINE to == IF Publishes(d, head) \/ Applies(d, head) THEN "recheck" ELSE "evidence"
             o == [op[d] EXCEPT !.head = head, !.pc = to]
  <2>1. op[d] \in Operation /\ GoodState(op[d].state, heads, snaps)
        /\ head \in heads /\ heads \subseteq 1 .. Len(snaps) /\ Len(snaps) \in Snapshot
    BY DEF IInv, TypeOK, GoodOp
  <2>2. head \in Snapshot
    BY <2>1, BoundAssumption DEF Snapshot
  <2>3. to \in {"recheck", "evidence"}
    OBVIOUS
  <2>4. to = "evidence" => ~Publishes(d, head) /\ ~Applies(d, head)
    OBVIOUS
  <2>5. op' = [op EXCEPT ![d] = o]
    BY <1>4 DEF Plan
  <2> HIDE DEF to
  <2>6. o \in Operation
    BY <2>1, <2>2, <2>3 DEF Operation, Phase
  <2>7. o.pc = to /\ o.head = head /\ o.state = op[d].state /\ o.local = op[d].local
    BY <2>1 DEF Operation
  <2> HIDE DEF o
  <2>8. GoodOp(o, journal[d], heads, snaps)
    BY <2>1, <2>3, <2>4, <2>7
       DEF GoodOp, Headed, NoTransfer, Journaled, Resumed, Publishes, Applies,
           PublicationBy, AcceptedBy, Base
  <2>9. UNCHANGED <<disk, remote, edits, history>> /\ faults' \in 0 .. MaxFault
    BY <1>4 DEF Plan, counters, IInv, TypeOK
  <2> QED
    BY <2>5, <2>6, <2>8, <2>9, OpStep
<1> QED
  BY <1>1, <1>2, <1>3, <1>4 DEF PlanStep

-----------------------------------------------------------------------------
(* Nothing to transfer. *)

LEMMA BaselineKeeps ==
    ASSUME IInv, NEW d \in Device, BaselineStep(d)
    PROVE  IInv'
<1>1. CASE CheckEvidence(d) \/ CheckInspect(d) \/ CheckWitness(d)
  <2>1. PICK from \in NoTransfer, to \in NoTransfer, ok \in BOOLEAN : Check(d, from, ok, to)
    BY <1>1 DEF CheckEvidence, CheckInspect, CheckWitness, NoTransfer, SameHead, Fresh
  <2>2. /\ from \in Phase /\ from \in Headed
        /\ to \in Phase /\ to \notin Journaled /\ to \notin Resumed
    BY DEF NoTransfer, Phase, Headed, Journaled, Resumed
  <2> QED
    BY <2>1, <2>2, CheckStep
<1>2. CASE AcceptBaseline(d)
  <2> DEFINE h == op[d].head
             b == op[d].state.base
             l == op[d].local
             w == Withheld(b, l, snaps[h])
             st == AcceptedState(op[d].state, Accepted(b, l, snaps[h]), h, w)
  <2>1. /\ op[d] \in Operation /\ op[d].pc = "accept"
        /\ GoodOp(op[d], journal[d], heads, snaps)
        /\ heads \subseteq 1 .. Len(snaps) /\ Len(snaps) \in Snapshot
        /\ snaps \in Seq(Image)
    BY <1>2 DEF AcceptBaseline, At, IInv, TypeOK
  <2>2. /\ h \in heads /\ snaps[h] \in Image /\ heads \in SUBSET Snapshot
        /\ op[d].state \in State /\ b \in Image /\ l \in Image
    BY <2>1, BoundAssumption DEF GoodOp, Headed, Snapshot, Operation, State
  <2>3. /\ GoodState(op[d].state, heads, snaps)
        /\ Publication(b, l, snaps[h]) = snaps[h]
    BY <2>1 DEF GoodOp, NoTransfer
  <2>4. /\ w \in SUBSET Path /\ Closed(w)
        /\ Accepted(b, l, snaps[h]) \in Image
        /\ \A p \in Path \ w : Accepted(b, l, snaps[h])[p] = snaps[h][p]
    BY <2>2, <2>3, MergeFacts
  <2>5. state' = [state EXCEPT ![d] = st]
    BY <1>2 DEF AcceptBaseline, AcceptedBy, WithheldBy, Base
  <2> HIDE DEF w, b, l, h
  <2>6. st \in State /\ GoodState(st, heads, snaps)
    BY <2>2, <2>3, <2>4, AcceptedStateFacts
  <2>7. /\ journal' = [journal EXCEPT ![d] = journal[d]]
        /\ journal[d] \in Journal \cup {None}
        /\ GoodJournal(journal[d], heads, snaps)
        /\ TypeOK /\ \A q \in puts : q.cand \in 1 .. Len(snaps)
    BY <1>2 DEF AcceptBaseline, IInv, TypeOK
  <2>8. /\ op' = [op EXCEPT ![d] = Idle]
        /\ Idle \in Operation /\ GoodOp(Idle, journal[d], heads, snaps)
    BY <1>2, IdleGood DEF AcceptBaseline, Stop
  <2>9. UNCHANGED <<local, snaps, head, puts, edits, faults, mine, heads>>
    BY <1>2 DEF AcceptBaseline, remote, counters, history
  <2> HIDE DEF st
  <2> QED
    BY <2>5, <2>6, <2>7, <2>8, <2>9, Unmoved, DeviceStep DEF TypeOK
<1> QED
  BY <1>1, <1>2 DEF BaselineStep

-----------------------------------------------------------------------------
(* Journals are written, completed and cleared. *)

\* Clearing the journal, and stopping or starting over.
LEMMA ClearStep ==
    ASSUME IInv, NEW d \in Device, ClearJournal(d),
           NEW pc \in {"idle", "observe"}, NEW n \in 0 .. MaxAttempts - 1,
           op' = [op EXCEPT ![d] = Blank(pc, n)],
           UNCHANGED <<local, state, snaps, head, edits, history>>,
           puts' \subseteq puts, faults' \in 0 .. MaxFault
    PROVE  IInv'
<1>1. TypeOK /\ \A q \in puts : q.cand \in 1 .. Len(snaps)
  BY DEF IInv
<1>2. /\ state' = [state EXCEPT ![d] = state[d]]
      /\ state[d] \in State /\ GoodState(state[d], heads, snaps)
  BY DEF IInv, TypeOK
<1>3. /\ journal' = [journal EXCEPT ![d] = None]
      /\ None \in Journal \cup {None} /\ GoodJournal(None, heads, snaps)
  BY DEF ClearJournal, GoodJournal
<1>4. Blank(pc, n) \in Operation /\ GoodOp(Blank(pc, n), None, heads, snaps)
  BY BlankGood
<1>5. UNCHANGED <<local, snaps, head, edits, mine, heads>>
  BY DEF history
<1>6. puts' \subseteq Put /\ \A q \in puts' : q.cand \in 1 .. Len(snaps')
  BY <1>1, <1>5 DEF TypeOK
<1>7. /\ local' \in [Device -> Image] /\ snaps' \in Seq(Image) /\ Len(snaps') \in Snapshot
      /\ edits' \in 0 .. MaxEdit /\ mine' \in [Device -> [Path -> Version \cup {None}]]
  BY <1>1, <1>5 DEF TypeOK
<1>8. /\ Grows(heads, snaps, heads, snaps')
      /\ GoodState(state[d], heads, snaps')
      /\ GoodJournal(None, heads, snaps')
      /\ GoodOp(Blank(pc, n), None, heads, snaps')
  BY <1>2, <1>3, <1>4, <1>5, Unmoved
<1> HIDE DEF Blank
<1> QED
  BY <1>2, <1>3, <1>4, <1>5, <1>6, <1>7, <1>8, DeviceStep

LEMMA ClearStopStep ==
    ASSUME IInv, NEW d \in Device, ClearJournal(d), Stop(d),
           UNCHANGED <<local, state, remote, edits, history>>, faults' \in 0 .. MaxFault
    PROVE  IInv'
<1>1. 0 \in 0 .. MaxAttempts - 1
  BY BoundAssumption
<1>2. UNCHANGED <<snaps, head, puts>>
  BY DEF remote
<1> QED
  BY <1>1, <1>2, ClearStep DEF Stop, Idle

LEMMA RetryStep ==
    ASSUME IInv, NEW d \in Device, Retry(d),
           UNCHANGED <<local, state, snaps, head, counters, history>>, puts' \subseteq puts
    PROVE  IInv'
<1>1. ClearJournal(d) /\ 0 \in 0 .. MaxAttempts - 1 /\ op[d].attempt \in 0 .. MaxAttempts - 1
  BY BoundAssumption DEF Retry, IInv, TypeOK, Operation
<1>2. edits' = edits /\ faults' \in 0 .. MaxFault
  BY DEF counters, IInv, TypeOK
<1>3. CASE op[d].attempt + 1 < MaxAttempts
  <2>1. op' = [op EXCEPT ![d] = Blank("observe", op[d].attempt + 1)]
    BY <1>3 DEF Retry
  <2>2. op[d].attempt + 1 \in 0 .. MaxAttempts - 1
    BY <1>1, <1>3, BoundAssumption
  <2> QED
    BY <1>1, <1>2, <2>1, <2>2, ClearStep
<1>4. CASE ~(op[d].attempt + 1 < MaxAttempts)
  <2>1. op' = [op EXCEPT ![d] = Blank("idle", 0)]
    BY <1>4 DEF Retry, Idle
  <2> QED
    BY <1>1, <1>2, <2>1, ClearStep
<1> QED
  BY <1>3, <1>4

LEMMA WriteJournalKeeps ==
    ASSUME IInv, NEW d \in Device, WriteJournal(d)
    PROVE  IInv'
<1> DEFINE h == op[d].head
           b == op[d].state.base
           l == op[d].local
           w == Withheld(b, l, snaps[h])
           after == Accepted(b, l, snaps[h])
           new == Publication(b, l, snaps[h])
           publish == new # snaps[h]
           upload == IF publish THEN Len(snaps) + 1 ELSE h
           j == [before |-> l, after |-> after, withheld |-> w, state |-> op[d].state,
                 expected |-> h, upload |-> upload,
                 committed |-> IF publish THEN 0 ELSE h, applyOnly |-> ~publish]
           o == [op[d] EXCEPT !.pc = "precommit"]
<1>1. /\ op[d] \in Operation /\ op[d].pc = "journal"
      /\ GoodOp(op[d], journal[d], heads, snaps)
      /\ heads \subseteq 1 .. Len(snaps) /\ Len(snaps) \in Snapshot
      /\ snaps \in Seq(Image)
  BY DEF WriteJournal, At, IInv, TypeOK
<1>2. /\ h \in heads /\ snaps[h] \in Image /\ h \in Snapshot /\ h \in 1 .. Len(snaps)
      /\ op[d].state \in State /\ b \in Image /\ l \in Image
      /\ GoodState(op[d].state, heads, snaps)
  BY <1>1, BoundAssumption DEF GoodOp, Headed, Snapshot, Operation, State
<1>3. /\ w \in SUBSET Path /\ Closed(w) /\ after \in Image /\ new \in Image
      /\ \A p \in Path \ w : after[p] = new[p]
  BY <1>2, MergeFacts
<1>4. /\ journal' = [journal EXCEPT ![d] = j]
      /\ upload <= MaxSnapshot
      /\ snaps' = IF publish THEN Append(snaps, new) ELSE snaps
      /\ Goto(d, "precommit")
      /\ UNCHANGED <<local, state, head, puts, counters, history>>
  BY DEF WriteJournal, Publishes, PublicationBy, AcceptedBy, WithheldBy, Base
<1>5. op' = [op EXCEPT ![d] = o]
  BY <1>4 DEF Goto
<1> HIDE DEF w, after, new
<1>6. /\ upload \in Snapshot /\ upload \in 1 .. Len(snaps')
      /\ snaps' \in Seq(Image) /\ Len(snaps') \in Snapshot
      /\ snaps'[upload] = new
      /\ Grows(heads, snaps, heads, snaps')
  <2>1. CASE publish
    <3>1. /\ upload = Len(snaps) + 1 /\ snaps' = Append(snaps, new)
      BY <1>4, <2>1
    <3> QED
      BY <1>1, <1>3, <1>4, <3>1, BoundAssumption DEF Snapshot, Grows
  <2>2. CASE ~publish
    <3>1. upload = h /\ snaps' = snaps /\ new = snaps[h]
      BY <1>4, <2>2
    <3> QED
      BY <1>1, <1>2, <3>1, Unmoved
  <2> QED
    BY <2>1, <2>2
<1>7. j \in Journal
  BY <1>2, <1>3, <1>6 DEF Journal
<1>8. j # None /\ j.upload = upload /\ j.state = op[d].state /\ j.withheld = w /\ j.after = after
  BY <1>7, NoneAssumption
<1> HIDE DEF j, upload
<1>9. /\ GoodState(op[d].state, heads, snaps')
      /\ GoodState(state[d], heads, snaps')
  BY <1>2, <1>6, StateStaysGood DEF IInv
<1>10. GoodJournal(j, heads, snaps')
  BY <1>3, <1>6, <1>8, <1>9 DEF GoodJournal
<1>11. o \in Operation
  BY <1>1 DEF Operation, Phase
<1>12. o.pc = "precommit" /\ o.head = h /\ o.state = op[d].state
  BY <1>1 DEF Operation
<1> HIDE DEF o
<1>13. GoodOp(o, j, heads, snaps')
  BY <1>2, <1>8, <1>9, <1>12 DEF GoodOp, Headed, NoTransfer, Journaled, Resumed
<1>14. /\ state' = [state EXCEPT ![d] = state[d]] /\ state[d] \in State
       /\ UNCHANGED <<local, head, puts, edits, faults, mine, heads>>
       /\ TypeOK
  BY <1>4 DEF IInv, TypeOK, counters, history
<1>15. puts' \subseteq Put /\ \A q \in puts' : q.cand \in 1 .. Len(snaps')
  BY <1>6, <1>14 DEF IInv, TypeOK, Grows
<1>16. /\ local' \in [Device -> Image] /\ edits' \in 0 .. MaxEdit /\ faults' \in 0 .. MaxFault
       /\ mine' \in [Device -> [Path -> Version \cup {None}]]
  BY <1>14 DEF TypeOK
<1> QED
  BY <1>4, <1>5, <1>6, <1>7, <1>9, <1>10, <1>11, <1>13, <1>14, <1>15, <1>16, DeviceStep

LEMMA PublishKeeps ==
    ASSUME IInv, NEW d \in Device, Publish(d)
    PROVE  IInv'
<1> DEFINE o == [op[d] EXCEPT !.pc = "publishing"]
           q0 == [dev |-> d, expected |-> head, cand |-> journal[d].upload]
<1>1. /\ op[d].pc = "commit" /\ journal[d] # None /\ GoodJournal(journal[d], heads, snaps)
      /\ TypeOK /\ \A q \in puts : q.cand \in 1 .. Len(snaps)
  BY DEF Publish, At, IInv, GoodOp, Journaled
<1>2. journal[d].upload \in 1 .. Len(snaps) /\ journal[d] \in Journal /\ state[d] \in State
  BY <1>1 DEF GoodJournal, TypeOK
<1>3. /\ puts' = puts \cup {q0} /\ op' = [op EXCEPT ![d] = o]
      /\ journal' = [journal EXCEPT ![d] = journal[d]]
      /\ state' = [state EXCEPT ![d] = state[d]]
      /\ UNCHANGED <<local, snaps, head, edits, faults, mine, heads>>
  BY <1>1 DEF Publish, Goto, disk, counters, history, TypeOK
<1>4. q0 \in Put
  BY <1>1, <1>2, BoundAssumption DEF Put, TypeOK, Snapshot
<1>5. puts' \subseteq Put /\ \A q \in puts' : q.cand \in 1 .. Len(snaps')
  BY <1>1, <1>2, <1>3, <1>4 DEF TypeOK
<1>6. "publishing" \in Phase /\ "publishing" \in Headed /\ op[d].pc \in Headed
      /\ "publishing" \notin NoTransfer /\ "publishing" \notin Resumed
  BY <1>1 DEF Phase, Headed, NoTransfer, Resumed
<1>7. o \in Operation /\ GoodOp(o, journal[d], heads, snaps)
  BY <1>1, <1>6, PhaseGood
<1> HIDE DEF o
<1>8. /\ GoodState(state[d], heads, snaps') /\ GoodJournal(journal[d], heads, snaps')
      /\ GoodOp(o, journal[d], heads, snaps') /\ Grows(heads, snaps, heads, snaps')
  BY <1>1, <1>3, <1>7, Unmoved DEF IInv
<1>9. /\ local' \in [Device -> Image] /\ snaps' \in Seq(Image) /\ Len(snaps') \in Snapshot
      /\ edits' \in 0 .. MaxEdit /\ faults' \in 0 .. MaxFault
      /\ mine' \in [Device -> [Path -> Version \cup {None}]]
  BY <1>1, <1>3 DEF TypeOK
<1> QED
  BY <1>2, <1>3, <1>5, <1>7, <1>8, <1>9, DeviceStep

LEMMA ConfirmPutKeeps ==
    ASSUME IInv, NEW d \in Device, ConfirmPut(d)
    PROVE  IInv'
<1> DEFINE j == [journal[d] EXCEPT !.committed = head]
           o == Blank("reconcile", 0)
<1>1. /\ op[d].pc = "publishing" /\ journal[d] # None /\ GoodJournal(journal[d], heads, snaps)
      /\ TypeOK /\ \A q \in puts : q.cand \in 1 .. Len(snaps)
  BY DEF ConfirmPut, At, IInv, GoodOp, Journaled
<1>2. /\ journal[d] \in Journal /\ head \in {0} \cup Snapshot /\ state[d] \in State
  BY <1>1, BoundAssumption DEF TypeOK, Snapshot
<1>3. /\ j \in Journal
      /\ j.upload = journal[d].upload /\ j.state = journal[d].state
      /\ j.withheld = journal[d].withheld /\ j.after = journal[d].after
  BY <1>2 DEF Journal
<1>4. /\ op' = [op EXCEPT ![d] = o] /\ journal' = [journal EXCEPT ![d] = j]
      /\ state' = [state EXCEPT ![d] = state[d]]
      /\ UNCHANGED <<local, snaps, head, puts, edits, faults, mine, heads>>
  BY <1>1 DEF ConfirmPut, TypeOK, remote, counters, history
<1> HIDE DEF j
<1>5. j # None /\ GoodJournal(j, heads, snaps)
  BY <1>1, <1>3, NoneAssumption DEF GoodJournal
<1>6. o \in Operation /\ GoodOp(o, j, heads, snaps)
  BY <1>5, BlankGood, BoundAssumption
<1> HIDE DEF o
<1>7. /\ GoodState(state[d], heads, snaps') /\ GoodJournal(j, heads, snaps')
      /\ GoodOp(o, j, heads, snaps') /\ Grows(heads, snaps, heads, snaps')
  BY <1>4, <1>5, <1>6, Unmoved DEF IInv
<1>8. /\ local' \in [Device -> Image] /\ snaps' \in Seq(Image) /\ Len(snaps') \in Snapshot
      /\ edits' \in 0 .. MaxEdit /\ faults' \in 0 .. MaxFault
      /\ puts' \subseteq Put /\ \A q \in puts' : q.cand \in 1 .. Len(snaps')
      /\ mine' \in [Device -> [Path -> Version \cup {None}]]
  BY <1>1, <1>4 DEF TypeOK
<1> QED
  BY <1>2, <1>3, <1>4, <1>6, <1>7, <1>8, DeviceStep

LEMMA CommitKeeps ==
    ASSUME IInv, NEW d \in Device, CommitStep(d)
    PROVE  IInv'
<1>1. CASE CheckLocal(d) \/ CheckHead(d)
  <2>1. PICK from \in {"recheck", "rehead"}, to \in {"rehead", "journal"}, ok \in BOOLEAN :
            Check(d, from, ok, to)
    BY <1>1 DEF CheckLocal, CheckHead, SameHead, Fresh
  <2>2. /\ from \in Phase /\ from \in Headed /\ to \in Phase
        /\ to \notin NoTransfer /\ to \notin Journaled /\ to \notin Resumed
    BY DEF NoTransfer, Phase, Headed, Journaled, Resumed
  <2> QED
    BY <2>1, <2>2, CheckStep
<1>2. CASE WriteJournal(d)
  BY <1>2, WriteJournalKeeps
<1>3. CASE NoMoreSnapshots(d) \/ UncertainPut(d)
  <2>1. Stop(d) /\ UNCHANGED <<disk, remote, edits, history>> /\ faults' \in 0 .. MaxFault
    BY <1>3 DEF NoMoreSnapshots, UncertainPut, counters, IInv, TypeOK
  <2> QED
    BY <2>1, StopStep
<1>4. CASE PreCommit(d)
  <2>1. /\ op[d].pc = "precommit" /\ Goto(d, "commit")
        /\ UNCHANGED <<disk, remote, counters, history>>
        /\ GoodOp(op[d], journal[d], heads, snaps)
    BY <1>4 DEF PreCommit, At, IInv
  <2>2. /\ "commit" \in Phase /\ op[d].pc \in Headed /\ journal[d] # None
        /\ "commit" \notin NoTransfer /\ "commit" \notin Resumed
    BY <2>1 DEF Phase, Headed, NoTransfer, Resumed, Journaled, GoodOp
  <2> QED
    BY <2>1, <2>2, GotoStep
<1>5. CASE StaleBeforeCommit(d)
  <2>1. /\ ClearJournal(d) /\ Stop(d)
        /\ UNCHANGED <<local, state, remote, edits, history>> /\ faults' \in 0 .. MaxFault
    BY <1>5 DEF StaleBeforeCommit, counters, IInv, TypeOK
  <2> QED
    BY <2>1, ClearStopStep
<1>6. CASE CommitApplyOnly(d)
  <2>1. /\ op[d].pc = "commit" /\ op' = [op EXCEPT ![d] = Blank("reconcile", 0)]
        /\ UNCHANGED <<disk, remote, edits, history>> /\ faults' \in 0 .. MaxFault
        /\ GoodOp(op[d], journal[d], heads, snaps)
    BY <1>6 DEF CommitApplyOnly, At, counters, IInv, TypeOK
  <2>2. journal[d] # None /\ 0 \in 0 .. MaxAttempts - 1
    BY <2>1, BoundAssumption DEF GoodOp, Journaled
  <2>3. /\ Blank("reconcile", 0) \in Operation
        /\ GoodOp(Blank("reconcile", 0), journal[d], heads, snaps)
    BY <2>2, BlankGood
  <2> QED
    BY <2>1, <2>3, OpStep
<1>7. CASE PublishConflict(d)
  <2>1. Retry(d) /\ UNCHANGED <<local, state, snaps, head, counters, history>> /\ puts' \subseteq puts
    BY <1>7 DEF PublishConflict, remote
  <2> QED
    BY <2>1, RetryStep
<1>8. CASE Publish(d)
  BY <1>8, PublishKeeps
<1>9. CASE ConfirmPut(d)
  BY <1>9, ConfirmPutKeeps
<1> QED
  BY <1>1, <1>2, <1>3, <1>4, <1>5, <1>6, <1>7, <1>8, <1>9 DEF CommitStep

-----------------------------------------------------------------------------
(* Recovery, and the application of a candidate. *)

LEMMA ReplaceTargetKeeps ==
    ASSUME IInv, NEW d \in Device, NEW p \in Path, ReplaceTarget(d, p)
    PROVE  IInv'
<1> DEFINE o == [op[d] EXCEPT !.pc = "applying", !.todo = op[d].todo \ {p}, !.verified = {}]
<1>1. /\ TypeOK /\ op[d] \in Operation /\ op[d].pc = "replacing"
      /\ GoodOp(op[d], journal[d], heads, snaps)
      /\ \A q \in puts : q.cand \in 1 .. Len(snaps)
  BY DEF ReplaceTarget, At, IInv, TypeOK
<1>2. journal[d] # None /\ journal[d] \in Journal /\ state[d] \in State
  BY <1>1 DEF GoodOp, Journaled, TypeOK
<1>3. op' = [op EXCEPT ![d] = o]
  BY DEF ReplaceTarget
<1>4. o \in Operation
  BY <1>1 DEF Operation, Phase
<1>5. o.pc = "applying" /\ o.state = op[d].state /\ o.head = op[d].head
  BY <1>1 DEF Operation
<1> HIDE DEF o
<1>6. GoodOp(o, journal[d], heads, snaps)
  BY <1>1, <1>2, <1>5 DEF GoodOp, Headed, NoTransfer, Journaled, Resumed
<1>7. /\ journal' = [journal EXCEPT ![d] = journal[d]]
      /\ state' = [state EXCEPT ![d] = state[d]]
      /\ UNCHANGED <<snaps, head, puts, edits, faults, mine, heads>>
  BY <1>1 DEF ReplaceTarget, TypeOK, remote, counters, history
<1>8. local' \in [Device -> Image]
  <2>1. journal[d].after[p] \in Version
    BY <1>2 DEF Journal, Image
  <2>2. local' = [local EXCEPT ![d] = [local[d] EXCEPT ![p] = journal[d].after[p]]]
    BY DEF ReplaceTarget
  <2>3. [local[d] EXCEPT ![p] = journal[d].after[p]] \in Image
    BY <1>1, <2>1 DEF TypeOK, Image
  <2> QED
    BY <1>1, <2>2, <2>3 DEF TypeOK
<1>9. /\ GoodState(state[d], heads, snaps') /\ GoodJournal(journal[d], heads, snaps')
      /\ GoodOp(o, journal[d], heads, snaps') /\ Grows(heads, snaps, heads, snaps')
  BY <1>6, <1>7, Unmoved DEF IInv
<1>10. /\ snaps' \in Seq(Image) /\ Len(snaps') \in Snapshot
       /\ edits' \in 0 .. MaxEdit /\ faults' \in 0 .. MaxFault
       /\ puts' \subseteq Put /\ \A q \in puts' : q.cand \in 1 .. Len(snaps')
       /\ mine' \in [Device -> [Path -> Version \cup {None}]]
  BY <1>1, <1>7 DEF TypeOK
<1> QED
  BY <1>2, <1>3, <1>4, <1>7, <1>8, <1>9, <1>10, DeviceStep

LEMMA RecordStateKeeps ==
    ASSUME IInv, NEW d \in Device, RecordState(d)
    PROVE  IInv'
<1> DEFINE o == [op[d] EXCEPT !.pc = "clear"]
           j == journal[d]
           h == op[d].head
           st == AcceptedState(j.state, j.after, h, j.withheld)
<1>1. /\ TypeOK /\ op[d] \in Operation /\ op[d].pc = "record"
      /\ GoodOp(op[d], j, heads, snaps) /\ GoodJournal(j, heads, snaps)
      /\ \A q \in puts : q.cand \in 1 .. Len(snaps)
  BY DEF RecordState, At, IInv, TypeOK
<1>2. j # None /\ h \in heads /\ h = j.upload
  BY <1>1 DEF GoodOp, Headed, Journaled, Resumed
<1>3. /\ j \in Journal /\ snaps[h] \in Image /\ heads \in SUBSET Snapshot
  <2>1. /\ journal[d] \in Journal \cup {None}
        /\ snaps \in Seq(Image) /\ Len(snaps) \in Snapshot /\ heads \subseteq 1 .. Len(snaps)
    BY <1>1 DEF TypeOK
  <2> HIDE DEF h, j
  <2>2. h \in 1 .. Len(snaps)
    BY <1>2, <2>1
  <2> QED
    BY <1>2, <2>1, <2>2, BoundAssumption DEF Snapshot, j
<1>4. /\ j.state \in State /\ j.after \in Image /\ j.withheld \in SUBSET Path
  BY <1>3 DEF Journal
<1>5. /\ GoodState(j.state, heads, snaps) /\ Closed(j.withheld)
      /\ \A p \in Path \ j.withheld : j.after[p] = snaps[h][p]
  BY <1>1, <1>2 DEF GoodJournal
<1>6. /\ state' = [state EXCEPT ![d] = st] /\ op' = [op EXCEPT ![d] = o]
      /\ journal' = [journal EXCEPT ![d] = j]
      /\ UNCHANGED <<local, snaps, head, puts, edits, faults, mine, heads>>
  BY <1>1 DEF RecordState, Goto, TypeOK, remote, counters, history
<1>7. "clear" \in Phase /\ op[d].pc \in Headed /\ op[d].pc \in Resumed
      /\ "clear" \notin NoTransfer
  BY <1>1 DEF Phase, Headed, NoTransfer, Resumed
<1>8. o \in Operation /\ GoodOp(o, j, heads, snaps)
  BY <1>2, <1>7, PhaseGood
<1> HIDE DEF o, h, j
<1>9. st \in State /\ GoodState(st, heads, snaps)
  BY <1>2, <1>3, <1>4, <1>5, AcceptedStateFacts
<1> HIDE DEF st
<1>10. /\ GoodState(st, heads, snaps') /\ GoodJournal(j, heads, snaps')
       /\ GoodOp(o, j, heads, snaps') /\ Grows(heads, snaps, heads, snaps')
  BY <1>1, <1>6, <1>8, <1>9, Unmoved
<1>11. /\ local' \in [Device -> Image] /\ snaps' \in Seq(Image) /\ Len(snaps') \in Snapshot
       /\ edits' \in 0 .. MaxEdit /\ faults' \in 0 .. MaxFault
       /\ puts' \subseteq Put /\ \A q \in puts' : q.cand \in 1 .. Len(snaps')
       /\ mine' \in [Device -> [Path -> Version \cup {None}]]
  BY <1>1, <1>6 DEF TypeOK
<1> QED
  BY <1>3, <1>6, <1>8, <1>9, <1>10, <1>11, DeviceStep

LEMMA RecoveryKeeps ==
    ASSUME IInv, NEW d \in Device, RecoveryStep(d)
    PROVE  IInv'
<1>0. /\ op[d] \in Operation /\ GoodOp(op[d], journal[d], heads, snaps)
      /\ head \in heads /\ head \in {0} \cup Snapshot
  BY BoundAssumption DEF IInv, TypeOK, Snapshot
<1>1. CASE ReadHead(d)
  <2> DEFINE o == [op[d] EXCEPT !.pc = "settle", !.head = head]
  <2>1. /\ op[d].pc = "reconcile" /\ op' = [op EXCEPT ![d] = o]
        /\ UNCHANGED <<disk, remote, edits, history>> /\ faults' \in 0 .. MaxFault
    BY <1>1 DEF ReadHead, At, counters, IInv, TypeOK
  <2>2. o \in Operation
    BY <1>0 DEF Operation, Phase
  <2>3. o.pc = "settle" /\ o.head = head /\ o.state = op[d].state
    BY <1>0 DEF Operation
  <2> HIDE DEF o
  <2>4. GoodOp(o, journal[d], heads, snaps)
    BY <1>0, <2>1, <2>3 DEF GoodOp, NoTransfer, Journaled, Resumed
  <2> QED
    BY <2>1, <2>2, <2>4, OpStep
<1>2. CASE DropJournal(d) \/ FinishSync(d)
  <2>1. /\ ClearJournal(d) /\ Stop(d)
        /\ UNCHANGED <<local, state, remote, edits, history>> /\ faults' \in 0 .. MaxFault
    BY <1>2 DEF DropJournal, FinishSync, counters, IInv, TypeOK
  <2> QED
    BY <2>1, ClearStopStep
<1>3. CASE StartApply(d)
  <2> DEFINE todo == {p \in Changed(journal[d]) : journal[d].after[p] # Absent
                                                     \/ local[d][p] # Absent}
             o == [op[d] EXCEPT !.pc = "applying", !.todo = todo]
  <2>1. /\ op[d].pc = "settle" /\ op' = [op EXCEPT ![d] = o]
        /\ op[d].head = journal[d].upload
        /\ UNCHANGED <<disk, remote, edits, history>> /\ faults' \in 0 .. MaxFault
    BY <1>3 DEF StartApply, Resumes, Active, At, counters, IInv, TypeOK
  <2>2. todo \in SUBSET Path
    BY DEF Changed
  <2> HIDE DEF todo
  <2>3. o \in Operation
    BY <1>0, <2>2 DEF Operation, Phase
  <2>4. o.pc = "applying" /\ o.head = op[d].head /\ o.state = op[d].state
    BY <1>0 DEF Operation
  <2> HIDE DEF o
  <2>5. GoodOp(o, journal[d], heads, snaps)
    BY <1>0, <2>1, <2>4 DEF GoodOp, Headed, NoTransfer, Journaled, Resumed
  <2> QED
    BY <2>1, <2>3, <2>5, OpStep
<1>4. CASE KeepJournal(d)
  <2>1. Stop(d) /\ UNCHANGED <<disk, remote, edits, history>> /\ faults' \in 0 .. MaxFault
    BY <1>4 DEF KeepJournal, counters, IInv, TypeOK
  <2> QED
    BY <2>1, StopStep
<1>5. ASSUME NEW p \in Path, VerifyTarget(d, p)
      PROVE  IInv'
  <2>1. /\ op[d].pc = "applying" /\ UNCHANGED <<disk, remote, edits, history>>
        /\ faults' \in 0 .. MaxFault
    BY <1>5 DEF VerifyTarget, At, counters, IInv, TypeOK
  <2>2. CASE Recognised(d, p)
    <3> DEFINE o == [op[d] EXCEPT !.pc = "replacing", !.verified = {p}]
    <3>1. op' = [op EXCEPT ![d] = o]
      BY <1>5, <2>2 DEF VerifyTarget
    <3>2. o \in Operation
      BY <1>0 DEF Operation, Phase
    <3>3. o.pc = "replacing" /\ o.head = op[d].head /\ o.state = op[d].state
      BY <1>0 DEF Operation
    <3> HIDE DEF o
    <3>4. GoodOp(o, journal[d], heads, snaps)
      BY <1>0, <2>1, <3>3 DEF GoodOp, Headed, NoTransfer, Journaled, Resumed
    <3> QED
      BY <2>1, <3>1, <3>2, <3>4, OpStep
  <2>3. CASE ~Recognised(d, p)
    <3>1. Stop(d)
      BY <1>5, <2>3 DEF VerifyTarget
    <3> QED
      BY <2>1, <3>1, StopStep
  <2> QED
    BY <2>2, <2>3
<1>6. ASSUME NEW p \in Path, ReplaceTarget(d, p)
      PROVE  IInv'
  BY <1>6, ReplaceTargetKeeps
<1>7. CASE CheckAcceptance(d)
  <2>1. /\ Check(d, "applying", SameHead(d), "record") /\ SameHead(d) \in BOOLEAN
        /\ "applying" \in Phase /\ "record" \in Phase
        /\ "applying" \in Headed /\ "applying" \in Journaled /\ "applying" \in Resumed
        /\ "record" \notin NoTransfer
    BY <1>7 DEF CheckAcceptance, SameHead, Phase, Headed, Journaled, Resumed, NoTransfer
  <2> QED
    BY <2>1, CheckStep
<1>8. CASE RecordState(d)
  BY <1>8, RecordStateKeeps
<1> QED
  BY <1>1, <1>2, <1>3, <1>4, <1>5, <1>6, <1>7, <1>8 DEF RecoveryStep

-----------------------------------------------------------------------------
(* The service, failures, and users. *)

LEMMA LandPutKeeps ==
    ASSUME IInv, NEW q \in puts, LandPut(q)
    PROVE  IInv'
<1>1. /\ TypeOK /\ q.cand \in 1 .. Len(snaps)
      /\ 1 \in heads /\ snaps[1] = Initial
      /\ \A r \in puts : r.cand \in 1 .. Len(snaps)
  BY DEF IInv
<1>2. /\ head' = q.cand /\ heads' = heads \cup {q.cand} /\ puts' = puts \ {q}
      /\ UNCHANGED <<local, state, journal, op, snaps, edits, faults, mine>>
  BY DEF LandPut, disk, counters
<1>3. TypeOK'
  BY <1>1, <1>2 DEF TypeOK
<1>4. Grows(heads, snaps, heads', snaps')
  BY <1>1, <1>2 DEF TypeOK, Grows
<1>5. ASSUME NEW d \in Device
      PROVE  /\ GoodState(state'[d], heads', snaps')
             /\ GoodJournal(journal'[d], heads', snaps')
             /\ GoodOp(op'[d], journal'[d], heads', snaps')
  <2>1. /\ GoodState(state[d], heads, snaps)
        /\ GoodJournal(journal[d], heads, snaps)
        /\ GoodOp(op[d], journal[d], heads, snaps)
    BY DEF IInv
  <2> QED
    BY <1>2, <1>4, <2>1, StateStaysGood, JournalStaysGood, OpStaysGood
<1> QED
  BY <1>1, <1>2, <1>3, <1>5 DEF IInv

\* A step that changes no record of any device.
LEMMA QuietStep ==
    ASSUME IInv, UNCHANGED <<state, journal, op, snaps, head, heads>>,
           local' \in [Device -> Image], puts' \subseteq puts,
           edits' \in 0 .. MaxEdit, faults' \in 0 .. MaxFault,
           mine' \in [Device -> [Path -> Version \cup {None}]]
    PROVE  IInv'
<1>1. TypeOK'
  BY DEF IInv, TypeOK
<1> QED
  BY <1>1 DEF IInv

LEMMA ServiceKeeps ==
    ASSUME IInv, ServiceStep
    PROVE  IInv'
<1>1. PICK q \in puts : LandPut(q) \/ RefusePut(q)
  BY DEF ServiceStep
<1>2. CASE LandPut(q)
  BY <1>2, LandPutKeeps
<1>3. CASE RefusePut(q)
  <2>1. /\ puts' \subseteq puts /\ UNCHANGED <<local, state, snaps, head, counters, history>>
    BY <1>3 DEF RefusePut
  <2>2. q.dev \in Device
    BY DEF IInv, TypeOK, Put
  <2>3. CASE Retry(q.dev)
    BY <2>1, <2>2, <2>3, RetryStep
  <2>4. CASE UNCHANGED <<journal, op>>
    <3>1. /\ TypeOK /\ UNCHANGED <<local, state, journal, op, snaps, head, heads, edits, faults, mine>>
      BY <2>1, <2>4 DEF counters, history, IInv
    <3> QED
      BY <2>1, <3>1, QuietStep DEF TypeOK
  <2> QED
    BY <1>3, <2>3, <2>4 DEF RefusePut
<1> QED
  BY <1>1, <1>2, <1>3

LEMMA FaultType ==
    ASSUME IInv, Fault
    PROVE  faults' \in 0 .. MaxFault
  BY BoundAssumption DEF IInv, TypeOK, Fault

LEMMA FailureKeeps ==
    ASSUME IInv, Failure
    PROVE  IInv'
<1>1. ASSUME NEW d \in Device, PreflightFails(d)
      PROVE  IInv'
  <2>1. /\ ClearJournal(d) /\ Stop(d) /\ Fault
        /\ UNCHANGED <<local, state, remote, edits, history>>
    BY <1>1 DEF PreflightFails
  <2> QED
    BY <2>1, FaultType, ClearStopStep
<1>2. ASSUME NEW d \in Device, Interrupt(d)
      PROVE  IInv'
  <2>1. Stop(d) /\ Fault /\ UNCHANGED <<disk, remote, edits, history>>
    BY <1>2 DEF Interrupt
  <2> QED
    BY <2>1, FaultType, StopStep
<1>3. ASSUME NEW q \in puts, LosePut(q)
      PROVE  IInv'
  <2>1. /\ Fault /\ puts' \subseteq puts /\ TypeOK
        /\ UNCHANGED <<local, state, journal, op, snaps, head, heads, edits, mine>>
    BY <1>3 DEF LosePut, disk, history, IInv
  <2> QED
    BY <2>1, FaultType, QuietStep DEF TypeOK
<1> QED
  BY <1>1, <1>2, <1>3 DEF Failure

LEMMA EditKeeps ==
    ASSUME IInv, NEW d \in Device, NEW ps \in SavedAtOnce, NEW v \in Version, Edit(d, ps, v)
    PROVE  IInv'
<1>1. /\ TypeOK /\ edits < MaxEdit /\ edits' = edits + 1
      /\ UNCHANGED <<state, journal, op, snaps, head, heads, puts, faults>>
  BY DEF Edit, remote, IInv
<1>2. /\ local' = [local EXCEPT ![d] = [p \in Path |-> IF p \in ps THEN v ELSE local[d][p]]]
      /\ mine' = [mine EXCEPT ![d] = [p \in Path |-> IF p \in ps THEN v ELSE mine[d][p]]]
  BY DEF Edit
<1>3. local' \in [Device -> Image]
  <2>1. [p \in Path |-> IF p \in ps THEN v ELSE local[d][p]] \in Image
    BY <1>1 DEF TypeOK, Image
  <2> QED
    BY <1>1, <1>2, <2>1 DEF TypeOK
<1>4. mine' \in [Device -> [Path -> Version \cup {None}]]
  <2>1. [p \in Path |-> IF p \in ps THEN v ELSE mine[d][p]] \in [Path -> Version \cup {None}]
    BY <1>1 DEF TypeOK
  <2> QED
    BY <1>1, <1>2, <2>1 DEF TypeOK
<1>5. edits' \in 0 .. MaxEdit
  BY <1>1, BoundAssumption DEF TypeOK
<1> QED
  BY <1>1, <1>3, <1>4, <1>5, QuietStep DEF TypeOK

-----------------------------------------------------------------------------
(* The invariant. *)

LEMMA InitGood == Init => IInv
<1> SUFFICES ASSUME Init
             PROVE  IInv
  OBVIOUS
<1>1. InitState \in State /\ 1 \in Snapshot /\ 0 \in 0 .. MaxAttempts - 1
  BY InitialAssumption, BoundAssumption DEF InitState, State, Snapshot
<1>2. Idle \in Operation
  BY <1>1, InitialAssumption DEF Idle, Blank, Operation, Phase
<1>3. /\ snaps = <<Initial>> /\ snaps \in Seq(Image) /\ Len(snaps) = 1 /\ snaps[1] = Initial
  BY InitialAssumption DEF Init
<1>4. TypeOK
  BY <1>1, <1>2, <1>3, InitialAssumption, BoundAssumption DEF Init, TypeOK
<1>5. GoodState(InitState, heads, snaps)
  BY <1>3 DEF Init, GoodState, InitState
<1>6. ASSUME NEW d \in Device
      PROVE  /\ GoodState(state[d], heads, snaps)
             /\ GoodJournal(journal[d], heads, snaps)
             /\ GoodOp(op[d], journal[d], heads, snaps)
  <2>1. state[d] = InitState /\ journal[d] = None /\ op[d] = Idle
    BY DEF Init
  <2>2. Idle.pc = "idle" /\ Idle.state = InitState
    BY DEF Idle, Blank
  <2> QED
    BY <1>5, <2>1, <2>2 DEF GoodJournal, GoodOp, Headed, NoTransfer, Journaled, Resumed
<1> QED
  BY <1>3, <1>4, <1>6 DEF IInv, Init

LEMMA StepGood == IInv /\ [Next]_vars => IInv'
<1> SUFFICES ASSUME IInv, [Next]_vars
             PROVE  IInv'
  OBVIOUS
<1>1. ASSUME NEW d \in Device, SyncStep(d)
      PROVE  IInv'
  BY <1>1, PlanKeeps, BaselineKeeps, CommitKeeps, RecoveryKeeps DEF SyncStep
<1>2. CASE ServiceStep
  BY <1>2, ServiceKeeps
<1>3. CASE Failure
  BY <1>3, FailureKeeps
<1>4. ASSUME NEW d \in Device, NEW ps \in SavedAtOnce, NEW v \in Version, Edit(d, ps, v)
      PROVE  IInv'
  BY <1>4, EditKeeps
<1>5. CASE UNCHANGED vars
  BY <1>5, QuietStep DEF vars, disk, remote, counters, history, IInv, TypeOK
<1> QED
  BY <1>1, <1>2, <1>3, <1>4, <1>5 DEF Next

\* The facts about state, journals and running syncs hold at every moment.
THEOREM Invariance == Spec => []IInv
<1> QED
  BY InitGood, StepGood, PTL DEF Spec

\* Every variable keeps its type.
THEOREM TypeCorrect == Spec => []TypeOK
<1>1. IInv => TypeOK
  BY DEF IInv
<1> QED
  BY <1>1, Invariance, PTL

\* However syncs interleave, stop and resume, a baseline only holds versions
\* that were active remotely, group by group from one snapshot.
THEOREM BaselineIsActive == Spec => []BaselineWasActive
<1>1. IInv => BaselineWasActive
  BY DEF IInv, GoodState, BaselineWasActive
<1> QED
  BY <1>1, Invariance, PTL

-----------------------------------------------------------------------------
(* Where the files of a device come from.  Every path holds the version of *)
(* the image a sync observed, or journaled, or accepted, unless its user   *)
(* wrote it since; only the paths the journal changes may hold a version   *)
(* that is not accepted yet.                                               *)

Observed == NoTransfer \cup {"plan", "recheck", "rehead", "journal"}
Unapplied == {"precommit", "commit", "publishing"}
Applying == {"applying", "replacing", "record"}

\* Each of the files l is the one of image, or what the user made of it, m.
Holds(l, image, m) == \A p \in Path : l[p] \in {image[p], m[p]}

\* What a journal explains of the files, and of a baseline recorded under it.
ExplainedBy(j, st, l, m) ==
    /\ \A p \in Changed(j) : p \notin j.withheld /\ j.before[p] = j.state.base[p]
    /\ \A p \in Path : \/ l[p] \in {j.before[p], m[p]} /\ l[p] \in {j.state.base[p], m[p]}
                       \/ p \in Changed(j) /\ l[p] = j.after[p]
    /\ st # j.state => Holds(l, st.base, m)

\* What an application has done so far.
AppliedBy(o, j, st, l, m) ==
    /\ st = j.state
    /\ o.todo \subseteq Changed(j)
    /\ \A p \in Changed(j) \ o.todo : l[p] \in {j.after[p], m[p]}

Traced(o, j, st, l, m) ==
    /\ j = None => Holds(l, st.base, m)
    /\ j # None => ExplainedBy(j, st, l, m)
    /\ o.pc \in Observed \cup {"observe"} => j = None
    /\ o.pc \in Observed => o.state = st /\ Holds(l, o.local, m)
    /\ o.pc \in Unapplied => st = j.state /\ Holds(l, st.base, m)
    /\ o.pc \in Applying => AppliedBy(o, j, st, l, m)
    /\ o.pc = "replacing" => o.verified \subseteq Changed(j)
    /\ o.pc = "record" => o.todo = {}
    /\ o.pc = "clear" => Holds(l, st.base, m)

TracedAt(d) == Traced(op[d], journal[d], state[d], local[d], mine[d])

AllTraced == \A d \in Device : TracedAt(d)

-----------------------------------------------------------------------------
\* The other devices.
Still(d) ==
    /\ op'[d] = op[d] /\ journal'[d] = journal[d] /\ state'[d] = state[d]
    /\ local'[d] = local[d] /\ mine'[d] = mine[d]

LEMMA StillTraced ==
    ASSUME NEW d \in Device, TracedAt(d), Still(d) PROVE TracedAt(d)'
  BY DEF TracedAt, Still

\* A sync whose phase claims nothing.
LEMMA UnclaimedTraced ==
    ASSUME NEW o, NEW j, NEW st, NEW l, NEW m,
           o.pc \in {"idle", "observe", "reconcile", "settle"},
           o.pc = "observe" => j = None,
           j = None => Holds(l, st.base, m),
           j # None => ExplainedBy(j, st, l, m)
    PROVE  Traced(o, j, st, l, m)
  BY DEF Traced, Observed, NoTransfer, Unapplied, Applying

LEMMA BlankPhase ==
    ASSUME NEW pc, NEW n PROVE Blank(pc, n).pc = pc
  BY DEF Blank

\* Stopping keeps what is on disk explained.
LEMMA StopTraced ==
    ASSUME TypeOK, NEW d \in Device, TracedAt(d), Stop(d),
           UNCHANGED <<local, state, journal, mine>>
    PROVE  TracedAt(d)'
<1>1. op'[d] = Idle /\ Idle.pc = "idle"
  BY BlankPhase DEF Stop, TypeOK, Idle
<1>2. /\ journal[d] = None => Holds(local[d], state[d].base, mine[d])
      /\ journal[d] # None => ExplainedBy(journal[d], state[d], local[d], mine[d])
  BY DEF TracedAt, Traced
<1>3. Traced(op'[d], journal[d], state[d], local[d], mine[d])
  BY <1>1, <1>2, UnclaimedTraced
<1> QED
  BY <1>3 DEF TracedAt

\* Clearing the journal needs files that are all accepted or the user's own.
LEMMA ClearTraced ==
    ASSUME TypeOK, NEW d \in Device, NEW pc \in {"idle", "observe"}, NEW n,
           ClearJournal(d), op' = [op EXCEPT ![d] = Blank(pc, n)],
           UNCHANGED <<local, state, mine>>,
           Holds(local[d], state[d].base, mine[d])
    PROVE  TracedAt(d)'
<1>1. op'[d] = Blank(pc, n) /\ journal'[d] = None /\ op'[d].pc = pc
  BY BlankPhase DEF TypeOK, ClearJournal
<1>2. Traced(op'[d], journal'[d], state[d], local[d], mine[d])
  BY <1>1, UnclaimedTraced
<1> QED
  BY <1>2 DEF TracedAt

LEMMA RetryTraced ==
    ASSUME TypeOK, NEW d \in Device, Retry(d), UNCHANGED <<local, state, mine>>,
           Holds(local[d], state[d].base, mine[d])
    PROVE  TracedAt(d)'
<1>1. PICK pc \in {"idle", "observe"}, n \in 0 .. MaxAttempts :
          op' = [op EXCEPT ![d] = Blank(pc, n)]
  <2>1. op[d].attempt + 1 \in 0 .. MaxAttempts /\ 0 \in 0 .. MaxAttempts
    BY BoundAssumption DEF TypeOK, Operation
  <2>2. \/ op' = [op EXCEPT ![d] = Blank("observe", op[d].attempt + 1)]
        \/ op' = [op EXCEPT ![d] = Blank("idle", 0)]
    BY DEF Retry, Idle
  <2> QED
    BY <2>1, <2>2
<1> QED
  BY <1>1, ClearTraced DEF Retry

\* Moving on within what was observed, or journaled.
MayGoto(d, to) ==
    \/ to = "reconcile"
    \/ to = "observe" /\ journal[d] = None
    \/ to \in Observed /\ op[d].pc \in Observed
    \/ to \in Unapplied /\ op[d].pc \in Unapplied
    \/ to = "record" /\ op[d].pc \in Applying /\ op[d].todo = {}

LEMMA GotoTraced ==
    ASSUME TypeOK, NEW d \in Device, TracedAt(d), NEW to \in Phase, Goto(d, to),
           UNCHANGED <<local, state, journal, mine>>,
           MayGoto(d, to)
    PROVE  TracedAt(d)'
<1> DEFINE o == [op[d] EXCEPT !.pc = to]
<1>1. /\ op'[d] = o /\ o.pc = to /\ o.local = op[d].local /\ o.state = op[d].state
      /\ o.todo = op[d].todo
  BY DEF Goto, TypeOK, Operation
<1> HIDE DEF o
<1>2. Traced(o, journal[d], state[d], local[d], mine[d])
  BY <1>1 DEF TracedAt, Traced, Observed, NoTransfer, Unapplied, Applying, AppliedBy, MayGoto
<1> QED
  BY <1>1, <1>2 DEF TracedAt

LEMMA CheckTraced ==
    ASSUME TypeOK, NEW d \in Device, TracedAt(d), NEW from, NEW to \in Phase, NEW ok \in BOOLEAN,
           Check(d, from, ok, to),
           \/ to \in Observed /\ from \in Observed
           \/ to \in Unapplied /\ from \in Unapplied
           \/ to = "record" /\ from \in Applying /\ op[d].todo = {}
    PROVE  TracedAt(d)'
<1>1. op[d].pc = from /\ UNCHANGED <<local, state, journal, mine>>
  BY DEF Check, At, disk, history
<1>2. CASE ok
  <2>1. Goto(d, to)
    BY <1>2 DEF Check
  <2>2. MayGoto(d, to)
    BY <1>1 DEF MayGoto
  <2> QED
    BY <1>1, <2>1, <2>2, GotoTraced
<1>3. CASE ~ok
  BY <1>1, <1>3, StopTraced DEF Check
<1> QED
  BY <1>2, <1>3

-----------------------------------------------------------------------------
(* The steps of one sync. *)

\* A step of d leaves the other devices alone.
LEMMA OthersStill ==
    ASSUME TypeOK, NEW d \in Device, SyncStep(d) \/ PreflightFails(d) \/ Interrupt(d),
           NEW e \in Device, e # d
    PROVE  Still(e)
<1> USE DEF TypeOK, Still, Goto, Stop, Check, Retry, ClearJournal, disk, remote, counters, history
<1>1. CASE PlanStep(d)
  BY <1>1 DEF PlanStep, BeginSync, Observe, Review, Plan
<1>2. CASE BaselineStep(d)
  BY <1>2 DEF BaselineStep, CheckEvidence, CheckInspect, CheckWitness, AcceptBaseline
<1>3. CASE CommitStep(d)
  <2>1. CASE CheckLocal(d) \/ CheckHead(d) \/ WriteJournal(d) \/ NoMoreSnapshots(d)
    BY <2>1 DEF CheckLocal, CheckHead, WriteJournal, NoMoreSnapshots
  <2>2. CASE PreCommit(d) \/ StaleBeforeCommit(d) \/ CommitApplyOnly(d) \/ PublishConflict(d)
    BY <2>2 DEF PreCommit, StaleBeforeCommit, CommitApplyOnly, PublishConflict
  <2>3. CASE Publish(d) \/ ConfirmPut(d) \/ UncertainPut(d)
    BY <2>3 DEF Publish, ConfirmPut, UncertainPut
  <2> QED
    BY <1>3, <2>1, <2>2, <2>3 DEF CommitStep
<1>4. CASE RecoveryStep(d)
  <2>1. CASE ReadHead(d) \/ DropJournal(d) \/ StartApply(d) \/ KeepJournal(d)
    BY <2>1 DEF ReadHead, DropJournal, StartApply, KeepJournal
  <2>2. ASSUME NEW p \in Path, VerifyTarget(d, p) \/ ReplaceTarget(d, p) PROVE Still(e)
    BY <2>2 DEF VerifyTarget, ReplaceTarget
  <2>3. CASE CheckAcceptance(d) \/ RecordState(d) \/ FinishSync(d)
    BY <2>3 DEF CheckAcceptance, RecordState, FinishSync
  <2> QED
    BY <1>4, <2>1, <2>2, <2>3 DEF RecoveryStep
<1>5. CASE PreflightFails(d) \/ Interrupt(d)
  BY <1>5 DEF PreflightFails, Interrupt
<1> QED
  BY <1>1, <1>2, <1>3, <1>4, <1>5 DEF SyncStep

LEMMA PlanTraced ==
    ASSUME TypeOK, NEW d \in Device, TracedAt(d), PlanStep(d)
    PROVE  TracedAt(d)'
<1>1. CASE BeginSync(d)
  <2> DEFINE to == IF journal[d] = None THEN "observe" ELSE "reconcile"
  <2>1. to \in Phase /\ MayGoto(d, to)
    BY DEF Phase, MayGoto
  <2>2. Goto(d, to) /\ UNCHANGED <<local, state, journal, mine>>
    BY <1>1 DEF BeginSync, disk, history
  <2> HIDE DEF to
  <2> QED
    BY <2>1, <2>2, GotoTraced
<1>2. CASE Observe(d)
  <2>1. /\ op[d].pc = "observe" /\ op'[d].pc = "plan"
        /\ op'[d].local = local[d] /\ op'[d].state = state[d]
        /\ UNCHANGED <<local, state, journal, mine>>
    BY <1>2 DEF Observe, At, TypeOK, Operation, disk, history
  <2>2. Traced(op'[d], journal[d], state[d], local[d], mine[d])
    BY <2>1 DEF TracedAt, Traced, Observed, NoTransfer, Unapplied, Applying, Holds
  <2> QED
    BY <2>1, <2>2 DEF TracedAt
<1>3. CASE Review(d)
  <2>1. Stop(d) /\ UNCHANGED <<local, state, journal, mine>>
    BY <1>3 DEF Review, disk, history
  <2> QED
    BY <2>1, StopTraced
<1>4. CASE Plan(d)
  <2>1. /\ op[d].pc = "plan" /\ op'[d].pc \in {"recheck", "evidence"}
        /\ op'[d].local = op[d].local /\ op'[d].state = op[d].state
        /\ UNCHANGED <<local, state, journal, mine>>
    BY <1>4 DEF Plan, At, TypeOK, Operation, disk, history
  <2>2. Traced(op'[d], journal[d], state[d], local[d], mine[d])
    BY <2>1 DEF TracedAt, Traced, Observed, NoTransfer, Unapplied, Applying
  <2> QED
    BY <2>1, <2>2 DEF TracedAt
<1> QED
  BY <1>1, <1>2, <1>3, <1>4 DEF PlanStep

\* The baseline an accepted image leaves.
LEMMA AcceptedBase ==
    ASSUME NEW previous \in State, NEW image \in Image, NEW i, NEW w \in SUBSET Path, NEW p \in Path
    PROVE  AcceptedState(previous, image, i, w).base[p]
               = IF p \in w THEN previous.base[p] ELSE image[p]
<1>1. CASE w = {}
  BY <1>1 DEF AcceptedState
<1>2. CASE w # {}
  BY <1>2 DEF AcceptedState, State
<1> QED
  BY <1>1, <1>2

LEMMA BaselineTraced ==
    ASSUME IInv, NEW d \in Device, TracedAt(d), BaselineStep(d)
    PROVE  TracedAt(d)'
<1>0. TypeOK
  BY DEF IInv
<1>1. CASE CheckEvidence(d) \/ CheckInspect(d) \/ CheckWitness(d)
  <2>1. PICK from \in NoTransfer, to \in NoTransfer, ok \in BOOLEAN : Check(d, from, ok, to)
    BY <1>1 DEF CheckEvidence, CheckInspect, CheckWitness, NoTransfer, SameHead, Fresh
  <2>2. to \in Phase /\ from \in Observed /\ to \in Observed
    BY DEF NoTransfer, Phase, Observed
  <2> QED
    BY <1>0, <2>1, <2>2, CheckTraced
<1>2. CASE AcceptBaseline(d)
  <2> DEFINE h == op[d].head
             b == op[d].state.base
             l == op[d].local
             w == Withheld(b, l, snaps[h])
             st == AcceptedState(op[d].state, Accepted(b, l, snaps[h]), h, w)
  <2>1. /\ op[d].pc = "accept" /\ op[d] \in Operation /\ op'[d] = Idle
        /\ state'[d] = st /\ UNCHANGED <<local, journal, mine>>
    BY <1>0, <1>2 DEF AcceptBaseline, AcceptedBy, WithheldBy, Base, At, Stop, TypeOK, history
  <2>2. /\ journal[d] = None /\ op[d].state = state[d]
        /\ Holds(local[d], l, mine[d]) /\ Holds(local[d], b, mine[d])
    BY <2>1 DEF TracedAt, Traced, Observed, NoTransfer
  <2>3. /\ b \in Image /\ l \in Image /\ op[d].state \in State /\ snaps[h] \in Image
        /\ Accepted(b, l, snaps[h]) = l
    <3>1. h \in heads /\ heads \subseteq 1 .. Len(snaps) /\ snaps \in Seq(Image)
      BY <2>1 DEF IInv, TypeOK, GoodOp, Headed
    <3> QED
      BY <2>1, <3>1 DEF IInv, GoodOp, NoTransfer, Operation, State
  <2>4. w \in SUBSET Path
    BY <2>3, MergeFacts
  <2>5. \A p \in Path : st.base[p] = IF p \in w THEN b[p] ELSE l[p]
    BY <2>3, <2>4, AcceptedBase
  <2> HIDE DEF st, w
  <2>6. Holds(local[d], st.base, mine[d])
    BY <2>2, <2>5 DEF Holds
  <2>7. Traced(Idle, None, st, local[d], mine[d])
    BY <2>6, UnclaimedTraced, BlankPhase DEF Idle
  <2> QED
    BY <2>1, <2>2, <2>7 DEF TracedAt
<1> QED
  BY <1>1, <1>2 DEF BaselineStep

\* What a merge changes was accepted, and what it publishes anew replaces what
\* was accepted.
LEMMA MergeReplacesAccepted ==
    ASSUME NEW b \in Image, NEW l \in Image, NEW r \in Image, NEW p \in Path
    PROVE  /\ Accepted(b, l, r)[p] # l[p] => p \notin Withheld(b, l, r) /\ l[p] = b[p]
           /\ Publication(b, l, r)[p] # r[p] => r[p] = b[p]
<1>1. Accepted(b, l, r)[p] # l[p] => p \in TakesRemote(b, l, r) \ Withheld(b, l, r)
  BY DEF Accepted
<1>2. p \in TakesRemote(b, l, r) => l[p] = b[p]
  BY DEF TakesRemote
<1>3. ASSUME Publication(b, l, r)[p] # r[p]
      PROVE  r[p] = b[p]
  <2>1. p \notin Withheld(b, l, r) /\ Accepted(b, l, r)[p] # r[p]
    BY <1>3 DEF Publication
  <2>2. p \notin BothChanged(b, l, r)
    BY <2>1 DEF Withheld, Conflicts
  <2>3. l[p] # r[p] /\ ~(r[p] # b[p] /\ l[p] = b[p])
    BY <2>1 DEF Accepted, TakesRemote
  <2> QED
    BY <2>2, <2>3 DEF BothChanged
<1> QED
  BY <1>1, <1>2, <1>3

LEMMA WriteJournalTraced ==
    ASSUME IInv, NEW d \in Device, TracedAt(d), WriteJournal(d)
    PROVE  TracedAt(d)'
<1> DEFINE h == op[d].head
           b == op[d].state.base
           l == op[d].local
           w == Withheld(b, l, snaps[h])
           after == Accepted(b, l, snaps[h])
           j == journal'[d]
<1>1. /\ TypeOK /\ op[d] \in Operation /\ op[d].pc = "journal"
      /\ GoodOp(op[d], journal[d], heads, snaps)
      /\ heads \subseteq 1 .. Len(snaps) /\ snaps \in Seq(Image)
  BY DEF WriteJournal, At, IInv, TypeOK
<1>2. b \in Image /\ l \in Image /\ snaps[h] \in Image
  <2>1. h \in 1 .. Len(snaps)
    BY <1>1 DEF GoodOp, Headed
  <2> QED
    BY <1>1, <2>1 DEF Operation, State
<1>3. /\ j.before = l /\ j.after = after /\ j.withheld = w /\ j.state = op[d].state
      /\ op'[d].pc = "precommit" /\ UNCHANGED <<local, state, mine>>
  BY <1>1 DEF WriteJournal, AcceptedBy, WithheldBy, Base, Goto, TypeOK, Operation, history
<1>4. /\ op[d].state = state[d]
      /\ Holds(local[d], l, mine[d]) /\ Holds(local[d], b, mine[d])
  BY <1>1 DEF TracedAt, Traced, Observed, NoTransfer
<1> HIDE DEF after, w, h
<1>5. \A p \in Changed(j) : p \notin w /\ l[p] = b[p]
  BY <1>2, <1>3, MergeReplacesAccepted DEF Changed, after, w
<1> HIDE DEF j
<1>6. ExplainedBy(j, state[d], local[d], mine[d])
  BY <1>3, <1>4, <1>5 DEF ExplainedBy, Holds
<1>7. Traced(op'[d], j, state[d], local[d], mine[d])
  BY <1>3, <1>4, <1>6 DEF Traced, Observed, NoTransfer, Unapplied, Applying
<1> QED
  BY <1>3, <1>7 DEF TracedAt, j

LEMMA CommitTraced ==
    ASSUME IInv, NEW d \in Device, TracedAt(d), CommitStep(d)
    PROVE  TracedAt(d)'
<1>0. TypeOK
  BY DEF IInv
<1>1. CASE CheckLocal(d) \/ CheckHead(d)
  <2>1. PICK from \in {"recheck", "rehead"}, to \in {"rehead", "journal"}, ok \in BOOLEAN :
            Check(d, from, ok, to)
    BY <1>1 DEF CheckLocal, CheckHead, SameHead, Fresh
  <2>2. to \in Phase /\ from \in Observed /\ to \in Observed
    BY DEF Phase, Observed
  <2> QED
    BY <1>0, <2>1, <2>2, CheckTraced
<1>2. CASE WriteJournal(d)
  BY <1>2, WriteJournalTraced
<1>3. CASE NoMoreSnapshots(d) \/ UncertainPut(d)
  <2>1. Stop(d) /\ UNCHANGED <<local, state, journal, mine>>
    BY <1>3 DEF NoMoreSnapshots, UncertainPut, disk, history
  <2> QED
    BY <1>0, <2>1, StopTraced
<1>4. CASE PreCommit(d) \/ Publish(d)
  <2>1. PICK to \in {"commit", "publishing"} : Goto(d, to)
    BY <1>4 DEF PreCommit, Publish
  <2>2. op[d].pc \in Unapplied /\ UNCHANGED <<local, state, journal, mine>>
    BY <1>4 DEF PreCommit, Publish, At, Unapplied, disk, history
  <2>3. to \in Phase /\ MayGoto(d, to)
    BY <2>2 DEF MayGoto, Unapplied, Phase
  <2> QED
    BY <1>0, <2>1, <2>2, <2>3, GotoTraced
<1>5. CASE StaleBeforeCommit(d)
  <2>1. /\ op[d].pc \in Unapplied /\ ClearJournal(d) /\ op' = [op EXCEPT ![d] = Blank("idle", 0)]
        /\ UNCHANGED <<local, state, mine>>
    BY <1>5 DEF StaleBeforeCommit, At, Unapplied, Stop, Idle, history
  <2>2. Holds(local[d], state[d].base, mine[d])
    BY <2>1 DEF TracedAt, Traced
  <2> QED
    BY <1>0, <2>1, <2>2, ClearTraced
<1>6. CASE CommitApplyOnly(d)
  <2>1. /\ op'[d].pc = "reconcile" /\ op[d].pc = "commit"
        /\ UNCHANGED <<local, state, journal, mine>>
    BY <1>0, <1>6, BlankPhase DEF CommitApplyOnly, At, TypeOK, disk, history
  <2>2. /\ journal[d] = None => Holds(local[d], state[d].base, mine[d])
        /\ journal[d] # None => ExplainedBy(journal[d], state[d], local[d], mine[d])
    BY DEF TracedAt, Traced
  <2>3. Traced(op'[d], journal[d], state[d], local[d], mine[d])
    BY <2>1, <2>2, UnclaimedTraced
  <2> QED
    BY <2>1, <2>3 DEF TracedAt
<1>7. CASE PublishConflict(d)
  <2>1. op[d].pc \in Unapplied /\ Retry(d) /\ UNCHANGED <<local, state, mine>>
    BY <1>7 DEF PublishConflict, At, Unapplied, history
  <2>2. Holds(local[d], state[d].base, mine[d])
    BY <2>1 DEF TracedAt, Traced
  <2> QED
    BY <1>0, <2>1, <2>2, RetryTraced
<1>8. CASE ConfirmPut(d)
  <2> DEFINE j == [journal[d] EXCEPT !.committed = head]
  <2>1. /\ op[d].pc = "publishing" /\ op'[d].pc = "reconcile" /\ journal'[d] = j
        /\ UNCHANGED <<local, state, mine>>
    BY <1>0, <1>8, BlankPhase DEF ConfirmPut, At, TypeOK, history
  <2>2. journal[d] # None /\ journal[d] \in Journal
    BY <1>0, <2>1 DEF IInv, GoodOp, Journaled, TypeOK
  <2>3. /\ j.before = journal[d].before /\ j.after = journal[d].after
        /\ j.withheld = journal[d].withheld /\ j.state = journal[d].state
    BY <2>2 DEF Journal
  <2>4. j \in Journal
    <3>1. head \in {0} \cup Snapshot
      BY <1>0, BoundAssumption DEF TypeOK, Snapshot
    <3> QED
      BY <2>2, <3>1 DEF Journal
  <2> HIDE DEF j
  <2>5. j # None /\ ExplainedBy(j, state[d], local[d], mine[d])
    BY <2>2, <2>3, <2>4, NoneAssumption DEF TracedAt, Traced, ExplainedBy, Changed
  <2>6. Traced(op'[d], j, state[d], local[d], mine[d])
    BY <2>1, <2>5, UnclaimedTraced
  <2> QED
    BY <2>1, <2>6 DEF TracedAt
<1> QED
  BY <1>1, <1>2, <1>3, <1>4, <1>5, <1>6, <1>7, <1>8 DEF CommitStep

-----------------------------------------------------------------------------
(* Completing a journal. *)

\* A journal is dropped only over files that are all accepted, or the user's.
LEMMA DropTraced ==
    ASSUME IInv, NEW d \in Device, TracedAt(d), DropJournal(d)
    PROVE  TracedAt(d)'
<1> DEFINE j == journal[d]
<1>1. /\ TypeOK /\ op[d].pc = "settle"
      /\ ClearJournal(d) /\ op' = [op EXCEPT ![d] = Blank("idle", 0)]
      /\ UNCHANGED <<local, state, mine>>
  BY DEF DropJournal, At, Stop, Idle, history, IInv
<1>2. j # None /\ j \in Journal /\ ExplainedBy(j, state[d], local[d], mine[d])
  BY <1>1 DEF IInv, GoodOp, Journaled, TypeOK, TracedAt, Traced
<1>3. ASSUME state[d] # j.state
      PROVE  Holds(local[d], state[d].base, mine[d])
  BY <1>2, <1>3 DEF ExplainedBy
<1>4. ASSUME Untouched(d)
      PROVE  Holds(local[d], state[d].base, mine[d])
  BY <1>2, <1>4 DEF Untouched, ExplainedBy, Holds, Changed
<1>5. ASSUME state[d] = j.state, NEW i, StateAccepts(d, i)
      PROVE  Holds(local[d], state[d].base, mine[d])
  <2>1. j.state \in State /\ j.after \in Image /\ j.withheld \in SUBSET Path
    BY <1>2 DEF Journal
  <2>2. state[d] = AcceptedState(j.state, j.after, i, j.withheld)
    BY <1>5 DEF StateAccepts
  <2>3. ASSUME NEW p \in Path
        PROVE  state[d].base[p] = IF p \in j.withheld THEN j.state.base[p] ELSE j.after[p]
    BY <2>1, <2>2, AcceptedBase
  <2> HIDE DEF j
  <2>4. Changed(j) = {}
    BY <1>2, <1>5, <2>3 DEF ExplainedBy, Changed
  <2> QED
    BY <1>2, <1>5, <2>4 DEF ExplainedBy, Holds
<1>6. Holds(local[d], state[d].base, mine[d])
  <2>1. \/ Untouched(d)
        \/ \E i : StateAccepts(d, i)
    BY DEF DropJournal, Cancels, Retires
  <2> QED
    BY <1>3, <1>4, <1>5, <2>1
<1> QED
  BY <1>1, <1>6, ClearTraced

LEMMA ReplaceTraced ==
    ASSUME IInv, NEW d \in Device, TracedAt(d), NEW p \in Path, ReplaceTarget(d, p)
    PROVE  TracedAt(d)'
<1> DEFINE j == journal[d]
           o == op'[d]
           l == local'[d]
<1>1. /\ TypeOK /\ op[d] \in Operation /\ op[d].pc = "replacing" /\ j # None
      /\ j \in Journal
  BY DEF ReplaceTarget, At, IInv, GoodOp, Journaled, TypeOK
<1>2. /\ o.pc = "applying" /\ o.todo = op[d].todo \ {p}
      /\ p \in op[d].verified
      /\ l = [local[d] EXCEPT ![p] = j.after[p]] /\ local[d] \in Image
      /\ UNCHANGED <<state, journal, mine>>
  BY <1>1 DEF ReplaceTarget, TypeOK, Operation, history
<1>3. \A r \in Path : l[r] = IF r = p THEN j.after[p] ELSE local[d][r]
  BY <1>2 DEF Image
<1>4. /\ p \in Changed(j) /\ ExplainedBy(j, state[d], local[d], mine[d])
      /\ AppliedBy(op[d], j, state[d], local[d], mine[d])
  BY <1>1, <1>2 DEF TracedAt, Traced, Applying
<1> HIDE DEF l, o
<1>5. Changed(j) \subseteq Path
  BY DEF Changed
<1> HIDE DEF j
<1>6. ExplainedBy(j, state[d], l, mine[d])
  BY <1>3, <1>4 DEF ExplainedBy, AppliedBy
<1>7. AppliedBy(o, j, state[d], l, mine[d])
  BY <1>2, <1>3, <1>4, <1>5 DEF AppliedBy
<1>8. Traced(o, j, state[d], l, mine[d])
  BY <1>1, <1>2, <1>6, <1>7 DEF Traced, Observed, NoTransfer, Unapplied, Applying
<1> QED
  BY <1>2, <1>8 DEF TracedAt, j, o, l

LEMMA RecordTraced ==
    ASSUME IInv, NEW d \in Device, TracedAt(d), RecordState(d)
    PROVE  TracedAt(d)'
<1> DEFINE j == journal[d]
           st == state'[d]
<1>1. /\ TypeOK /\ op[d].pc = "record" /\ op'[d].pc = "clear" /\ j # None /\ j \in Journal
      /\ st = AcceptedState(j.state, j.after, op[d].head, j.withheld)
      /\ UNCHANGED <<local, journal, mine>>
  BY DEF RecordState, At, Goto, IInv, GoodOp, Journaled, TypeOK, Operation, remote, history
<1>2. /\ ExplainedBy(j, state[d], local[d], mine[d])
      /\ AppliedBy(op[d], j, state[d], local[d], mine[d])
      /\ op[d].todo = {}
  BY <1>1 DEF TracedAt, Traced, Applying
<1>3. \A p \in Path : st.base[p] = IF p \in j.withheld THEN j.state.base[p] ELSE j.after[p]
  BY <1>1, AcceptedBase DEF Journal
<1> HIDE DEF j, st
<1>4. ASSUME NEW p \in Path
      PROVE  local[d][p] \in {st.base[p], mine[d][p]}
  <2>1. CASE p \in Changed(j)
    BY <1>2, <1>3, <2>1 DEF ExplainedBy, AppliedBy
  <2>2. CASE p \notin Changed(j)
    BY <1>2, <1>3, <2>2 DEF ExplainedBy, Changed
  <2> QED
    BY <2>1, <2>2
<1>5. Holds(local[d], st.base, mine[d])
  BY <1>4 DEF Holds
<1>6. ExplainedBy(j, st, local[d], mine[d])
  BY <1>2, <1>5 DEF ExplainedBy
<1>7. Traced(op'[d], j, st, local[d], mine[d])
  BY <1>1, <1>5, <1>6 DEF Traced, Observed, NoTransfer, Unapplied, Applying
<1> QED
  BY <1>1, <1>7 DEF TracedAt, j, st

LEMMA RecoveryTraced ==
    ASSUME IInv, NEW d \in Device, TracedAt(d), RecoveryStep(d)
    PROVE  TracedAt(d)'
<1>0. TypeOK
  BY DEF IInv
<1> DEFINE j == journal[d]
<1>1. CASE ReadHead(d)
  <2>1. /\ op'[d].pc = "settle" /\ UNCHANGED <<local, state, journal, mine>>
    BY <1>0, <1>1 DEF ReadHead, TypeOK, Operation, disk, history
  <2>2. /\ j = None => Holds(local[d], state[d].base, mine[d])
        /\ j # None => ExplainedBy(j, state[d], local[d], mine[d])
    BY DEF TracedAt, Traced
  <2>3. Traced(op'[d], j, state[d], local[d], mine[d])
    BY <2>1, <2>2, UnclaimedTraced
  <2> QED
    BY <2>1, <2>3 DEF TracedAt
<1>2. CASE DropJournal(d)
  BY <1>2, DropTraced
<1>3. CASE FinishSync(d)
  <2>1. /\ ClearJournal(d) /\ op' = [op EXCEPT ![d] = Blank("idle", 0)]
        /\ UNCHANGED <<local, state, mine>> /\ op[d].pc = "clear"
    BY <1>3 DEF FinishSync, Stop, Idle, At, history
  <2>2. Holds(local[d], state[d].base, mine[d])
    BY <2>1 DEF TracedAt, Traced
  <2> QED
    BY <1>0, <2>1, <2>2, ClearTraced
<1>4. CASE StartApply(d)
  <2>1. /\ op[d].pc = "settle" /\ op'[d].pc = "applying"
        /\ op'[d].todo = {p \in Changed(j) : j.after[p] # Absent \/ local[d][p] # Absent}
        /\ state[d] = j.state
        /\ UNCHANGED <<local, state, journal, mine>>
    BY <1>0, <1>4 DEF StartApply, Resumes, At, TypeOK, Operation, disk, history
  <2>2. j # None /\ ExplainedBy(j, state[d], local[d], mine[d])
    BY <2>1 DEF IInv, GoodOp, Journaled, TracedAt, Traced
  <2>3. AppliedBy(op'[d], j, state[d], local[d], mine[d])
    BY <2>1 DEF AppliedBy
  <2> HIDE DEF j
  <2>4. Traced(op'[d], j, state[d], local[d], mine[d])
    BY <2>1, <2>2, <2>3 DEF Traced, Observed, NoTransfer, Unapplied, Applying
  <2> QED
    BY <2>1, <2>4 DEF TracedAt, j
<1>5. CASE KeepJournal(d)
  <2>1. Stop(d) /\ UNCHANGED <<local, state, journal, mine>>
    BY <1>5 DEF KeepJournal, disk, history
  <2> QED
    BY <1>0, <2>1, StopTraced
<1>6. ASSUME NEW p \in Path, VerifyTarget(d, p)
      PROVE  TracedAt(d)'
  <2>1. /\ op[d].pc = "applying" /\ p \in op[d].todo
        /\ UNCHANGED <<local, state, journal, mine>>
    BY <1>6 DEF VerifyTarget, At, disk, history
  <2>2. CASE Recognised(d, p)
    <3>1. /\ op'[d].pc = "replacing" /\ op'[d].verified = {p} /\ op'[d].todo = op[d].todo
      BY <1>0, <1>6, <2>2 DEF VerifyTarget, TypeOK, Operation
    <3>2. /\ j # None /\ ExplainedBy(j, state[d], local[d], mine[d])
          /\ AppliedBy(op[d], j, state[d], local[d], mine[d])
      BY <2>1 DEF IInv, GoodOp, Journaled, TracedAt, Traced, Applying
    <3> HIDE DEF j
    <3>3. AppliedBy(op'[d], j, state[d], local[d], mine[d]) /\ p \in Changed(j)
      BY <2>1, <3>1, <3>2 DEF AppliedBy
    <3>4. Traced(op'[d], j, state[d], local[d], mine[d])
      BY <3>1, <3>2, <3>3 DEF Traced, Observed, NoTransfer, Unapplied, Applying
    <3> QED
      BY <2>1, <3>4 DEF TracedAt, j
  <2>3. CASE ~Recognised(d, p)
    <3>1. Stop(d)
      BY <1>6, <2>3 DEF VerifyTarget
    <3> QED
      BY <1>0, <2>1, <3>1, StopTraced
  <2> QED
    BY <2>2, <2>3
<1>7. ASSUME NEW p \in Path, ReplaceTarget(d, p)
      PROVE  TracedAt(d)'
  BY <1>7, ReplaceTraced
<1>8. CASE CheckAcceptance(d)
  <2>1. /\ op[d].todo = {} /\ Check(d, "applying", SameHead(d), "record")
        /\ SameHead(d) \in BOOLEAN
    BY <1>8 DEF CheckAcceptance, SameHead
  <2>2. "record" \in Phase /\ "applying" \in Applying
    BY DEF Phase, Applying
  <2> QED
    BY <1>0, <2>1, <2>2, CheckTraced
<1>9. CASE RecordState(d)
  BY <1>9, RecordTraced
<1> QED
  BY <1>1, <1>2, <1>3, <1>4, <1>5, <1>6, <1>7, <1>8, <1>9 DEF RecoveryStep

-----------------------------------------------------------------------------
(* The service, failures, and users. *)

LEMMA ServiceTraced ==
    ASSUME TypeOK, AllTraced, NEW q \in puts, LandPut(q) \/ RefusePut(q) \/ LosePut(q),
           NEW e \in Device
    PROVE  TracedAt(e)'
<1>1. CASE Still(e)
  BY <1>1, StillTraced DEF AllTraced
<1>2. CASE RefusePut(q) /\ Awaits(q.dev, q)
  <2>1. /\ q.dev \in Device /\ Retry(q.dev) /\ UNCHANGED <<local, state, mine>>
        /\ op[q.dev].pc \in Unapplied
    BY <1>2 DEF RefusePut, Awaits, At, TypeOK, Put, Unapplied, history
  <2>2. CASE e = q.dev
    <3>1. TracedAt(e) /\ Holds(local[e], state[e].base, mine[e])
      BY <2>1, <2>2 DEF AllTraced, TracedAt, Traced
    <3> QED
      BY <2>1, <2>2, <3>1, RetryTraced
  <2>3. CASE e # q.dev
    BY <1>1, <2>1, <2>3 DEF Retry, ClearJournal, Still, TypeOK
  <2> QED
    BY <2>2, <2>3
<1>3. CASE ~(RefusePut(q) /\ Awaits(q.dev, q))
  BY <1>1, <1>3 DEF LandPut, RefusePut, LosePut, Still, disk, history
<1> QED
  BY <1>2, <1>3

LEMMA FailureTraced ==
    ASSUME TypeOK, NEW d \in Device, TracedAt(d), PreflightFails(d) \/ Interrupt(d)
    PROVE  TracedAt(d)'
<1>1. CASE PreflightFails(d)
  <2>1. /\ ClearJournal(d) /\ op' = [op EXCEPT ![d] = Blank("idle", 0)]
        /\ UNCHANGED <<local, state, mine>> /\ op[d].pc \in Unapplied
    BY <1>1 DEF PreflightFails, Stop, Idle, At, Unapplied, history
  <2>2. Holds(local[d], state[d].base, mine[d])
    BY <2>1 DEF TracedAt, Traced
  <2> QED
    BY <2>1, <2>2, ClearTraced
<1>2. CASE Interrupt(d)
  <2>1. Stop(d) /\ UNCHANGED <<local, state, journal, mine>>
    BY <1>2 DEF Interrupt, disk, history
  <2> QED
    BY <2>1, StopTraced
<1> QED
  BY <1>1, <1>2

\* Editing makes files the user's own.
LEMMA EditTraced ==
    ASSUME TypeOK, AllTraced, NEW d \in Device, NEW ps, NEW v, Edit(d, ps, v), NEW e \in Device
    PROVE  TracedAt(e)'
<1>1. UNCHANGED <<state, journal, op>> /\ TracedAt(e)
  BY DEF Edit, AllTraced
<1>2. CASE e # d
  BY <1>1, <1>2, StillTraced DEF Edit, Still, TypeOK
<1>3. CASE e = d
  <2> DEFINE l == local'[d]
             m == mine'[d]
  <2>1. \A p \in Path : \/ l[p] = local[d][p] /\ m[p] = mine[d][p]
                        \/ l[p] = m[p]
    BY DEF Edit, TypeOK
  <2> HIDE DEF l, m
  <2>2. ASSUME NEW image, Holds(local[d], image, mine[d])
        PROVE  Holds(l, image, m)
    BY <2>1, <2>2 DEF Holds
  <2>3. ASSUME NEW j, NEW st, ExplainedBy(j, st, local[d], mine[d])
        PROVE  ExplainedBy(j, st, l, m)
    <3>1. \A p \in Path : \/ l[p] \in {j.before[p], m[p]} /\ l[p] \in {j.state.base[p], m[p]}
                          \/ p \in Changed(j) /\ l[p] = j.after[p]
      BY <2>1, <2>3 DEF ExplainedBy
    <3>2. st # j.state => Holds(l, st.base, m)
      BY <2>2, <2>3 DEF ExplainedBy
    <3> QED
      BY <2>3, <3>1, <3>2 DEF ExplainedBy
  <2>4. ASSUME NEW o, NEW j, NEW st, AppliedBy(o, j, st, local[d], mine[d])
        PROVE  AppliedBy(o, j, st, l, m)
    BY <2>1, <2>4 DEF AppliedBy, Changed
  <2>5. Traced(op[d], journal[d], state[d], local[d], mine[d])
    BY <1>1, <1>3 DEF TracedAt
  <2>6. Traced(op[d], journal[d], state[d], l, m)
    BY <2>2, <2>3, <2>4, <2>5 DEF Traced
  <2> QED
    BY <1>1, <1>3, <2>6 DEF TracedAt, l, m
<1> QED
  BY <1>2, <1>3

LEMMA InitTraced == Init => AllTraced
<1> SUFFICES ASSUME Init, NEW d \in Device
             PROVE  TracedAt(d)
  BY DEF AllTraced
<1>1. /\ op[d].pc = "idle" /\ journal[d] = None /\ local[d] = Initial /\ state[d].base = Initial
  BY BlankPhase DEF Init, Idle, InitState
<1>2. Holds(local[d], state[d].base, mine[d])
  BY <1>1 DEF Holds
<1> QED
  BY <1>1, <1>2, UnclaimedTraced DEF TracedAt

LEMMA StepTraced == IInv /\ AllTraced /\ [Next]_vars => AllTraced'
<1> SUFFICES ASSUME IInv, AllTraced, [Next]_vars, NEW e \in Device
             PROVE  TracedAt(e)'
  BY DEF AllTraced
<1>0. TypeOK
  BY DEF IInv
<1>1. ASSUME NEW d \in Device, SyncStep(d) \/ PreflightFails(d) \/ Interrupt(d)
      PROVE  TracedAt(e)'
  <2>1. TracedAt(d) /\ TracedAt(e)
    BY DEF AllTraced
  <2>2. CASE e = d
    BY <1>0, <1>1, <2>1, <2>2, PlanTraced, BaselineTraced, CommitTraced, RecoveryTraced,
       FailureTraced DEF SyncStep
  <2>3. CASE e # d
    BY <1>0, <1>1, <2>1, <2>3, OthersStill, StillTraced
  <2> QED
    BY <2>2, <2>3
<1>2. ASSUME NEW q \in puts, LandPut(q) \/ RefusePut(q) \/ LosePut(q)
      PROVE  TracedAt(e)'
  BY <1>0, <1>2, ServiceTraced
<1>3. ASSUME NEW d \in Device, NEW ps \in SavedAtOnce, NEW v \in Version, Edit(d, ps, v)
      PROVE  TracedAt(e)'
  BY <1>0, <1>3, EditTraced
<1>4. CASE UNCHANGED vars
  BY <1>4, StillTraced DEF vars, disk, remote, counters, history, Still, AllTraced
<1> QED
  BY <1>1, <1>2, <1>3, <1>4 DEF Next, ServiceStep, Failure

\* The bytes on disk and their origin stay traced through every step.
THEOREM TracedInvariance == Spec => []AllTraced
<1> QED
  BY InitTraced, StepTraced, Invariance, PTL DEF Spec

\* A sync that stopped halfway left the journal that explains the bytes on
\* disk which are neither accepted nor the user's own.
THEOREM JournalExplainsFiles == Spec => []UnacceptedBytesAreJournaled
<1>1. ASSUME AllTraced, NEW d \in Device, NEW p \in Path,
             local[d][p] \notin {state[d].base[p], mine[d][p]}
      PROVE  journal[d] # None /\ Recognised(d, p)
  <2>1. Traced(op[d], journal[d], state[d], local[d], mine[d])
    BY <1>1 DEF AllTraced, TracedAt
  <2>2. journal[d] # None /\ ExplainedBy(journal[d], state[d], local[d], mine[d])
    BY <1>1, <2>1 DEF Traced, Holds
  <2> QED
    BY <1>1, <2>2 DEF ExplainedBy, Holds, Recognised
<1>2. AllTraced => UnacceptedBytesAreJournaled
  BY <1>1 DEF UnacceptedBytesAreJournaled
<1> QED
  BY <1>2, TracedInvariance, PTL

-----------------------------------------------------------------------------
(* Where nobody writes outside the file queues, a file is replaced while it *)
(* still is what it was checked to be.                                      *)

Checked(o, j, l) ==
    o.pc = "replacing" => \A p \in o.verified : l[p] \in {j.before[p], j.after[p]}

CheckedAt(d) == Checked(op[d], journal[d], local[d])

AllChecked == \A d \in Device : CheckedAt(d)

\* What a step of d does to its files, and that it may only write to them where
\* it was checking them.
LEMMA SyncWrites ==
    ASSUME TypeOK, NEW d \in Device, SyncStep(d) \/ PreflightFails(d) \/ Interrupt(d)
    PROVE  \/ local' = local /\ CheckedAt(d)'
           \/ /\ \E p \in Path : ReplaceTarget(d, p)
              /\ op'[d].pc = "applying"
<1> USE DEF TypeOK, CheckedAt, Checked, Goto, Stop, Check, Retry, Idle, disk
<1> USE BlankPhase
<1> HIDE DEF Blank
<1>1. CASE PlanStep(d)
  BY <1>1 DEF PlanStep, BeginSync, Observe, Review, Plan, Operation
<1>2. CASE BaselineStep(d)
  BY <1>2 DEF BaselineStep, CheckEvidence, CheckInspect, CheckWitness, AcceptBaseline, Operation
<1>3. CASE CommitStep(d)
  <2>1. CASE CheckLocal(d) \/ CheckHead(d) \/ WriteJournal(d) \/ NoMoreSnapshots(d)
    BY <2>1 DEF CheckLocal, CheckHead, WriteJournal, NoMoreSnapshots, Operation
  <2>2. CASE PreCommit(d) \/ StaleBeforeCommit(d) \/ CommitApplyOnly(d) \/ PublishConflict(d)
    BY <2>2 DEF PreCommit, StaleBeforeCommit, CommitApplyOnly, PublishConflict, Operation
  <2>3. CASE Publish(d) \/ ConfirmPut(d) \/ UncertainPut(d)
    BY <2>3 DEF Publish, ConfirmPut, UncertainPut, Operation
  <2> QED
    BY <1>3, <2>1, <2>2, <2>3 DEF CommitStep
<1>4. CASE RecoveryStep(d)
  <2>1. CASE ReadHead(d) \/ DropJournal(d) \/ StartApply(d) \/ KeepJournal(d)
    BY <2>1 DEF ReadHead, DropJournal, StartApply, KeepJournal, Operation
  <2>2. ASSUME NEW p \in Path, VerifyTarget(d, p)
        PROVE  local' = local /\ CheckedAt(d)'
    BY <2>2 DEF VerifyTarget, Recognised, Operation
  <2>3. ASSUME NEW p \in Path, ReplaceTarget(d, p)
        PROVE  op'[d].pc = "applying"
    BY <2>3 DEF ReplaceTarget, Operation
  <2>4. CASE CheckAcceptance(d) \/ RecordState(d) \/ FinishSync(d)
    BY <2>4 DEF CheckAcceptance, RecordState, FinishSync, Operation
  <2> QED
    BY <1>4, <2>1, <2>2, <2>3, <2>4 DEF RecoveryStep
<1>5. CASE PreflightFails(d) \/ Interrupt(d)
  BY <1>5 DEF PreflightFails, Interrupt
<1> QED
  BY <1>1, <1>2, <1>3, <1>4, <1>5 DEF SyncStep

\* The service touches no file, and moves on only who waits for it.
LEMMA ServiceWrites ==
    ASSUME TypeOK, AllChecked, NEW q \in puts, LandPut(q) \/ RefusePut(q) \/ LosePut(q)
    PROVE  UNCHANGED <<local, mine>> /\ AllChecked'
<1>1. UNCHANGED <<local, mine>>
  BY DEF LandPut, RefusePut, LosePut, disk, history, counters
<1>2. ASSUME NEW e \in Device
      PROVE  CheckedAt(e)'
  <2>1. CASE op'[e] = op[e] /\ journal'[e] = journal[e]
    BY <1>1, <2>1 DEF AllChecked, CheckedAt
  <2>2. CASE RefusePut(q) /\ Retry(q.dev)
    <3>1. q.dev \in Device
      BY DEF TypeOK, Put
    <3>2. CASE e = q.dev
      BY <2>2, <3>1, <3>2, BlankPhase DEF Retry, Idle, TypeOK, CheckedAt, Checked
    <3>3. CASE e # q.dev
      BY <2>1, <2>2, <3>1, <3>3 DEF Retry, ClearJournal, TypeOK
    <3> QED
      BY <3>2, <3>3
  <2>3. CASE ~(RefusePut(q) /\ Retry(q.dev))
    BY <2>1, <2>3 DEF LandPut, RefusePut, LosePut, disk
  <2> QED
    BY <2>2, <2>3
<1> QED
  BY <1>1, <1>2 DEF AllChecked

\* The queues of the paths a sync changes are held while it writes them.
LEMMA EditWrites ==
    ASSUME ~ExternalWriters, TypeOK, AllTraced, AllChecked,
           NEW d \in Device, NEW ps, NEW v, Edit(d, ps, v)
    PROVE  AllChecked'
<1> SUFFICES ASSUME NEW e \in Device
             PROVE  CheckedAt(e)'
  BY DEF AllChecked
<1>1. UNCHANGED <<journal, op>> /\ CheckedAt(e)
  BY DEF Edit, AllChecked
<1>2. CASE e # d
  BY <1>1, <1>2 DEF Edit, TypeOK, CheckedAt
<1>3. CASE e = d
  <2>1. ASSUME op[d].pc = "replacing", NEW p \in op[d].verified
        PROVE  local'[d][p] = local[d][p]
    <3>1. p \in Changed(journal[d]) /\ p \in Path
      BY <2>1 DEF AllTraced, TracedAt, Traced, Changed
    <3>2. p \notin ps
      BY <2>1, <3>1 DEF Edit, QueueHeld
    <3> QED
      BY <3>1, <3>2 DEF Edit, TypeOK
  <2> QED
    BY <1>1, <1>3, <2>1 DEF CheckedAt, Checked
<1> QED
  BY <1>2, <1>3

\* Snapshots are immutable, and once active for ever recorded.
LEMMA HistoryGrows ==
    ASSUME IInv, [Next]_vars
    PROVE  Grows(heads, snaps, heads', snaps')
<1>1. CASE heads \subseteq heads' /\ snaps' = snaps
  BY <1>1 DEF IInv, TypeOK, Grows
<1>2. ASSUME NEW d \in Device, WriteJournal(d)
      PROVE  Grows(heads, snaps, heads', snaps')
  <2>1. /\ heads' = heads /\ snaps \in Seq(Image) /\ Len(snaps) \in Nat
        /\ heads \subseteq 1 .. Len(snaps)
        /\ op[d].head \in heads /\ op[d] \in Operation
        /\ GoodState(op[d].state, heads, snaps)
    BY <1>2, BoundAssumption DEF WriteJournal, At, IInv, TypeOK, GoodOp, Headed, history, Snapshot
  <2>2. PublicationBy(d, op[d].head) \in Image
    <3>1. op[d].head \in 1 .. Len(snaps)
      BY <2>1
    <3>2. snaps[op[d].head] \in Image /\ op[d].local \in Image /\ op[d].state.base \in Image
      BY <2>1, <3>1 DEF Operation, State
    <3> QED
      BY <3>2, MergeFacts DEF PublicationBy, Base
  <2>3. snaps' = snaps \/ snaps' = Append(snaps, PublicationBy(d, op[d].head))
    BY <1>2 DEF WriteJournal
  <2> QED
    BY <2>1, <2>2, <2>3 DEF Grows
<1>3. ASSUME NEW d \in Device, SyncStep(d), ~WriteJournal(d)
      PROVE  heads' = heads /\ snaps' = snaps
  BY <1>3 DEF SyncStep, PlanStep, BaselineStep, CommitStep, RecoveryStep, BeginSync, Observe,
     Review, Plan, CheckEvidence, CheckInspect, CheckWitness, AcceptBaseline, CheckLocal,
     CheckHead, NoMoreSnapshots, PreCommit, StaleBeforeCommit, CommitApplyOnly,
     PublishConflict, Publish, ConfirmPut, UncertainPut, ReadHead, DropJournal, StartApply,
     KeepJournal, VerifyTarget, ReplaceTarget, CheckAcceptance, RecordState, FinishSync,
     Check, remote, history
<1>4. CASE ServiceStep \/ Failure
  BY <1>1, <1>4 DEF ServiceStep, Failure, LandPut, RefusePut, LosePut, PreflightFails, Interrupt,
     remote, history
<1>5. ASSUME NEW d \in Device, NEW ps \in SavedAtOnce, NEW v \in Version, Edit(d, ps, v)
      PROVE  heads' = heads /\ snaps' = snaps
  BY <1>5 DEF Edit, remote
<1>6. CASE UNCHANGED vars
  BY <1>1, <1>6 DEF vars, remote, history
<1> QED
  BY <1>1, <1>2, <1>3, <1>4, <1>5, <1>6 DEF Next

LEMMA StepChecked ==
    ASSUME ~ExternalWriters, IInv, AllTraced, AllChecked, [Next]_vars
    PROVE  AllChecked'
<1>0. TypeOK
  BY DEF IInv
<1>1. ASSUME NEW d \in Device, SyncStep(d) \/ PreflightFails(d) \/ Interrupt(d)
      PROVE  AllChecked'
  <2> SUFFICES ASSUME NEW e \in Device
               PROVE  CheckedAt(e)'
    BY DEF AllChecked
  <2>1. CASE e = d
    BY <1>0, <1>1, <2>1, SyncWrites DEF CheckedAt, Checked
  <2>2. CASE e # d
    BY <1>0, <1>1, <2>2, OthersStill DEF AllChecked, CheckedAt, Still
  <2> QED
    BY <2>1, <2>2
<1>2. ASSUME NEW q \in puts, LandPut(q) \/ RefusePut(q) \/ LosePut(q)
      PROVE  AllChecked'
  BY <1>0, <1>2, ServiceWrites
<1>3. ASSUME NEW d \in Device, NEW ps \in SavedAtOnce, NEW v \in Version, Edit(d, ps, v)
      PROVE  AllChecked'
  BY <1>0, <1>3, EditWrites
<1>4. CASE UNCHANGED vars
  BY <1>4 DEF vars, disk, AllChecked, CheckedAt
<1> QED
  BY <1>1, <1>2, <1>3, <1>4 DEF Next, ServiceStep, Failure

\* What a replacement overwrites was accepted, hence active once.
LEMMA ReplacesAccepted ==
    ASSUME IInv, AllTraced, AllChecked, NEW d \in Device, NEW p \in Path, ReplaceTarget(d, p)
    PROVE  /\ journal[d] # None /\ state[d] = journal[d].state
           /\ \/ local[d][p] = journal[d].after[p]
              \/ /\ local[d][p] = state[d].base[p]
                 /\ p \in Changed(journal[d])
<1>1. /\ op[d].pc = "replacing" /\ p \in op[d].verified
      /\ TracedAt(d) /\ CheckedAt(d)
  BY DEF ReplaceTarget, At, AllTraced, AllChecked
<1>2. /\ journal[d] # None /\ ExplainedBy(journal[d], state[d], local[d], mine[d])
      /\ state[d] = journal[d].state
      /\ p \in Changed(journal[d])
  BY <1>1 DEF TracedAt, Traced, IInv, GoodOp, Journaled, Applying, AppliedBy
<1>3. local[d][p] \in {journal[d].before[p], journal[d].after[p]}
  BY <1>1 DEF CheckedAt, Checked
<1> QED
  BY <1>2, <1>3 DEF ExplainedBy

\* The version d's user wrote last is the file, or an active snapshot's.
Kept(d, p) ==
    mine[d][p] \in Content => \/ local[d][p] = mine[d][p]
                              \/ \E i \in heads : snaps[i][p] = mine[d][p]

LEMMA StepKeeps ==
    ASSUME IInv, AllTraced, AllChecked, [Next]_vars,
           NEW e \in Device, NEW r \in Path, Kept(e, r)
    PROVE  Kept(e, r)'
<1>0. TypeOK /\ Grows(heads, snaps, heads', snaps')
  BY HistoryGrows DEF IInv
<1>1. CASE local'[e][r] = local[e][r] /\ mine'[e][r] = mine[e][r]
  BY <1>0, <1>1 DEF Kept, Grows
<1>2. ASSUME NEW d \in Device, SyncStep(d) \/ PreflightFails(d) \/ Interrupt(d)
      PROVE  Kept(e, r)'
  <2>1. CASE e # d
    BY <1>0, <1>1, <1>2, <2>1, OthersStill DEF Still
  <2>2. mine' = mine
    <3>1. CASE PreflightFails(d) \/ Interrupt(d)
      BY <3>1 DEF PreflightFails, Interrupt, history
    <3>2. CASE SyncStep(d)
      BY <3>2 DEF SyncStep, PlanStep, BaselineStep, CommitStep, RecoveryStep, BeginSync,
         Observe, Review, Plan, CheckEvidence, CheckInspect, CheckWitness, AcceptBaseline,
         CheckLocal, CheckHead, WriteJournal, NoMoreSnapshots, PreCommit, StaleBeforeCommit,
         CommitApplyOnly, PublishConflict, Publish, ConfirmPut, UncertainPut, ReadHead,
         DropJournal, StartApply, KeepJournal, VerifyTarget, ReplaceTarget,
         CheckAcceptance, RecordState, FinishSync, Check, history
    <3> QED
      BY <1>2, <3>1, <3>2
  <2>3. ASSUME NEW p \in Path, ReplaceTarget(d, p), e = d
        PROVE  Kept(e, r)'
    <3>1. local'[d] = [local[d] EXCEPT ![p] = journal[d].after[p]] /\ local[d] \in Image
      BY <1>0, <2>3 DEF ReplaceTarget, TypeOK
    <3>2. CASE r # p
      BY <1>1, <2>2, <2>3, <3>1, <3>2 DEF Image
    <3>3. CASE r = p /\ local[d][p] = journal[d].after[p]
      BY <1>1, <2>2, <2>3, <3>1, <3>3 DEF Image
    <3>4. CASE r = p /\ local[d][p] = state[d].base[p]
      <4>1. \E i \in heads : state[d].base[p] = snaps[i][p]
        <5>1. {p} \in Together \cup {{s} : s \in Path}
          OBVIOUS
        <5>2. GoodState(state[d], heads, snaps)
          BY DEF IInv
        <5> QED
          BY <5>1, <5>2 DEF GoodState
      <4>2. mine[d][p] \in Content => \E i \in heads : snaps[i][p] = mine[d][p]
        BY <2>3, <3>4, <4>1 DEF Kept
      <4> QED
        BY <1>0, <2>2, <2>3, <3>4, <4>2 DEF Kept, Grows
    <3> QED
      BY <2>3, <3>2, <3>3, <3>4, ReplacesAccepted
  <2> QED
    BY <1>0, <1>1, <1>2, <2>1, <2>2, <2>3, SyncWrites
<1>3. ASSUME NEW q \in puts, LandPut(q) \/ RefusePut(q) \/ LosePut(q)
      PROVE  Kept(e, r)'
  BY <1>0, <1>1, <1>3, ServiceWrites
<1>4. ASSUME NEW d \in Device, NEW ps \in SavedAtOnce, NEW v \in Version, Edit(d, ps, v)
      PROVE  Kept(e, r)'
  <2>1. CASE e = d /\ r \in ps
    BY <1>0, <1>4, <2>1 DEF Edit, TypeOK, Kept
  <2>2. CASE e # d \/ r \notin ps
    BY <1>0, <1>1, <1>4, <2>2 DEF Edit, TypeOK
  <2> QED
    BY <2>1, <2>2
<1>5. CASE UNCHANGED vars
  BY <1>1, <1>5 DEF vars, disk, history
<1> QED
  BY <1>2, <1>3, <1>4, <1>5 DEF Next, ServiceStep, Failure

\* What a running sync has checked of a file still holds when it replaces it,
\* where nobody writes outside the file queues.
THEOREM CheckedInvariance == ~ExternalWriters /\ Spec => []AllChecked
<1> SUFFICES ASSUME ~ExternalWriters
             PROVE  Spec => []AllChecked
  OBVIOUS
<1>1. Init => AllChecked
  BY BlankPhase DEF Init, AllChecked, CheckedAt, Checked, Idle
<1>2. IInv /\ AllTraced /\ AllChecked /\ [Next]_vars => AllChecked'
  BY StepChecked
<1> QED
  BY <1>1, <1>2, Invariance, TracedInvariance, PTL DEF Spec

\* No version a user wrote is lost: it still is the file, or a snapshot that
\* was active once holds it (merge-apply.ts, under the file queues).
THEOREM VersionsAreKept == ~ExternalWriters /\ Spec => []NoVersionLost
<1>1. Init => NoVersionLost
  BY NoContentAssumption DEF Init, NoVersionLost, Version
<1>2. IInv /\ AllTraced /\ AllChecked /\ NoVersionLost /\ [Next]_vars => NoVersionLost'
  <2> SUFFICES ASSUME IInv, AllTraced, AllChecked, NoVersionLost, [Next]_vars,
                      NEW d \in Device, NEW p \in Path
               PROVE  Kept(d, p)'
    BY DEF NoVersionLost, Kept
  <2> QED
    BY StepKeeps DEF NoVersionLost, Kept
<1> QED
  BY <1>1, <1>2, Invariance, TracedInvariance, CheckedInvariance, PTL DEF Spec

-----------------------------------------------------------------------------
(* The chain of heads.  A candidate is published once, so that the pointer  *)
(* never returns to a head; while it stays where a pending publication      *)
(* expects it, the device that sent it accepts nothing that publication     *)
(* would not replace.                                                       *)

MayPublish(d) == op[d].pc \in {"precommit", "commit"} /\ ~journal[d].applyOnly

\* Snapshot c differs from snapshot h only where h is the accepted baseline b.
OnlyOver(sn, c, h, b) == \A p \in Path : sn[c][p] # sn[h][p] => b[p] = sn[h][p]

PendingAt(q) ==
    /\ q.expected \in heads /\ q.cand \notin heads
    /\ head = q.expected =>
           /\ op[q.dev].pc \in Headed => op[q.dev].head = head
           /\ OnlyOver(snaps, q.cand, head, state[q.dev].base)

CandidateAt(d) ==
    /\ MayPublish(d) =>
           /\ journal[d].upload \notin heads
           /\ \A q \in puts : q.cand # journal[d].upload
           /\ OnlyOver(snaps, journal[d].upload, journal[d].expected, journal[d].state.base)
    /\ op[d].pc \in Unapplied => op[d].head = journal[d].expected

Distinct ==
    /\ \A q, r \in puts : q.cand = r.cand => q = r
    /\ \A d, e \in Device : MayPublish(d) /\ MayPublish(e) /\ d # e =>
                                journal[d].upload # journal[e].upload

Chain ==
    /\ \A q \in puts : PendingAt(q)
    /\ \A d \in Device : CandidateAt(d)
    /\ Distinct

\* A step of d that neither writes a journal nor publishes.
Tame(d) ==
    /\ UNCHANGED <<snaps, head, heads>> /\ puts' \subseteq puts
    /\ MayPublish(d)' => MayPublish(d) /\ journal'[d] = journal[d]
    /\ op'[d].pc \in Unapplied =>
           op[d].pc \in Unapplied /\ journal'[d] = journal[d] /\ op'[d].head = op[d].head
    /\ op'[d].pc \in Headed =>
           op'[d].head = head \/ (op[d].pc \in Headed /\ op'[d].head = op[d].head)

Quiet(e) == op'[e] = op[e] /\ journal'[e] = journal[e] /\ state'[e] = state[e]

\* A baseline that moves, moves to the head.
Agrees(d) ==
    \A p \in Path : state[d].base[p] = snaps[head][p] => state'[d].base[p] = snaps[head][p]

LEMMA TameChain ==
    ASSUME TypeOK, Chain, NEW d \in Device, Tame(d),
           \A q \in puts : q.dev = d /\ head = q.expected => Agrees(d),
           \A e \in Device : e # d => Quiet(e)
    PROVE  Chain'
<1>1. UNCHANGED <<snaps, head, heads>> /\ puts' \subseteq puts
  BY DEF Tame
<1>2. ASSUME NEW q \in puts'
      PROVE  PendingAt(q)'
  <2>1. q \in puts /\ PendingAt(q) /\ q.dev \in Device
    BY <1>1 DEF Chain, TypeOK, Put
  <2>2. CASE q.dev = d
    BY <1>1, <2>1, <2>2 DEF PendingAt, Tame, OnlyOver, Agrees
  <2>3. CASE q.dev # d
    BY <1>1, <2>1, <2>3 DEF PendingAt, Quiet
  <2> QED
    BY <2>2, <2>3
<1>3. ASSUME NEW e \in Device
      PROVE  CandidateAt(e)' /\ (MayPublish(e)' => MayPublish(e) /\ journal'[e] = journal[e])
  <2>1. CandidateAt(e)
    BY DEF Chain
  <2>2. CASE e = d
    BY <1>1, <2>1, <2>2 DEF CandidateAt, Tame
  <2>3. CASE e # d
    BY <1>1, <2>1, <2>3 DEF CandidateAt, Quiet, MayPublish
  <2> QED
    BY <2>2, <2>3
<1>4. Distinct'
  BY <1>1, <1>3 DEF Chain, Distinct
<1> QED
  BY <1>2, <1>3, <1>4 DEF Chain

LEMMA PlanTame ==
    ASSUME TypeOK, NEW d \in Device, PlanStep(d) \/ PreflightFails(d) \/ Interrupt(d)
    PROVE  Tame(d) /\ state' = state
<1> USE DEF Tame, MayPublish, TypeOK, Operation, Goto, Stop, disk, remote, counters, history, At,
            Headed, Unapplied
<1>0. Idle.pc = "idle"
  BY BlankPhase DEF Idle
<1>1. CASE BeginSync(d)
  BY <1>1 DEF BeginSync
<1>2. CASE Observe(d)
  BY <1>2 DEF Observe
<1>3. CASE Review(d)
  BY <1>0, <1>3 DEF Review
<1>4. CASE Plan(d)
  BY <1>4 DEF Plan
<1>5. CASE PreflightFails(d) \/ Interrupt(d)
  BY <1>0, <1>5 DEF PreflightFails, Interrupt
<1> QED
  BY <1>1, <1>2, <1>3, <1>4, <1>5 DEF PlanStep

LEMMA CommitTame ==
    ASSUME TypeOK, NEW d \in Device, CommitStep(d), ~WriteJournal(d), ~Publish(d)
    PROVE  Tame(d) /\ state' = state
<1> USE DEF Tame, MayPublish, TypeOK, Operation, Goto, Stop, disk, remote, counters, history, At,
            Headed, Unapplied
<1>0. Idle.pc = "idle" /\ \A pc, n : Blank(pc, n).pc = pc
  BY BlankPhase DEF Idle
<1>1. CASE CheckLocal(d) \/ CheckHead(d)
  BY <1>0, <1>1 DEF CheckLocal, CheckHead, Check
<1>2. CASE NoMoreSnapshots(d) \/ UncertainPut(d)
  BY <1>0, <1>2 DEF NoMoreSnapshots, UncertainPut
<1>3. CASE PreCommit(d)
  BY <1>3 DEF PreCommit
<1>4. CASE StaleBeforeCommit(d)
  BY <1>0, <1>4 DEF StaleBeforeCommit
<1>5. CASE CommitApplyOnly(d) \/ ConfirmPut(d)
  <2>1. /\ op'[d].pc = "reconcile" /\ UNCHANGED <<snaps, head, heads, puts, state>>
    BY <1>0, <1>5 DEF CommitApplyOnly, ConfirmPut
  <2> QED
    BY <2>1
<1>6. CASE PublishConflict(d)
  <2>1. op'[d].pc \in {"observe", "idle"} /\ UNCHANGED <<snaps, head, heads, puts, state>>
    BY <1>0, <1>6 DEF PublishConflict, Retry
  <2> QED
    BY <2>1
<1> QED
  BY <1>1, <1>2, <1>3, <1>4, <1>5, <1>6 DEF CommitStep

LEMMA RecoveryTame ==
    ASSUME TypeOK, NEW d \in Device, RecoveryStep(d)
    PROVE  Tame(d) /\ (state' = state \/ RecordState(d))
<1> USE DEF Tame, MayPublish, TypeOK, Operation, Goto, Stop, disk, remote, counters, history, At,
            Headed, Unapplied
<1>0. Idle.pc = "idle"
  BY BlankPhase DEF Idle
<1>1. CASE ReadHead(d)
  BY <1>1 DEF ReadHead
<1>2. CASE DropJournal(d) \/ KeepJournal(d) \/ FinishSync(d)
  BY <1>0, <1>2 DEF DropJournal, KeepJournal, FinishSync
<1>3. CASE StartApply(d)
  BY <1>3 DEF StartApply
<1>4. ASSUME NEW p \in Path, VerifyTarget(d, p)
      PROVE  Tame(d) /\ state' = state
  BY <1>0, <1>4 DEF VerifyTarget
<1>5. ASSUME NEW p \in Path, ReplaceTarget(d, p)
      PROVE  Tame(d) /\ state' = state
  BY <1>5 DEF ReplaceTarget
<1>6. CASE CheckAcceptance(d)
  BY <1>0, <1>6 DEF CheckAcceptance, Check
<1>7. CASE RecordState(d)
  BY <1>7 DEF RecordState
<1> QED
  BY <1>1, <1>2, <1>3, <1>4, <1>5, <1>6, <1>7 DEF RecoveryStep

LEMMA BaselineTame ==
    ASSUME TypeOK, NEW d \in Device, BaselineStep(d)
    PROVE  Tame(d) /\ (state' = state \/ AcceptBaseline(d))
<1> USE DEF Tame, MayPublish, TypeOK, Operation, Goto, Stop, disk, remote, counters, history, At,
            Headed, Unapplied
<1>0. Idle.pc = "idle"
  BY BlankPhase DEF Idle
<1>1. CASE CheckEvidence(d) \/ CheckInspect(d) \/ CheckWitness(d)
  BY <1>0, <1>1 DEF CheckEvidence, CheckInspect, CheckWitness, Check
<1>2. CASE AcceptBaseline(d)
  BY <1>0, <1>2 DEF AcceptBaseline
<1> QED
  BY <1>1, <1>2 DEF BaselineStep

\* A baseline recorded while the head stays where d read it agrees with it.
LEMMA BaselineAgrees ==
    ASSUME IInv, AllTraced, NEW d \in Device, AcceptBaseline(d) \/ RecordState(d),
           op[d].head = head
    PROVE  Agrees(d)
<1>0. /\ TypeOK /\ GoodOp(op[d], journal[d], heads, snaps) /\ TracedAt(d)
      /\ snaps[head] \in Image
  <2>1. head \in 1 .. Len(snaps) /\ snaps \in Seq(Image)
    BY DEF IInv, TypeOK
  <2> QED
    BY <2>1 DEF IInv, AllTraced
<1>1. CASE AcceptBaseline(d)
  <2> DEFINE b == op[d].state.base
             l == op[d].local
             image == Accepted(b, l, snaps[head])
             w == Withheld(b, l, snaps[head])
  <2>1. /\ op[d].pc = "accept" /\ op[d] \in Operation
        /\ state'[d] = AcceptedState(op[d].state, image, head, w)
    BY <1>0, <1>1 DEF AcceptBaseline, AcceptedBy, WithheldBy, Base, At, TypeOK
  <2>2. /\ b \in Image /\ l \in Image /\ op[d].state \in State
        /\ Publication(b, l, snaps[head]) = snaps[head] /\ op[d].state = state[d]
    BY <1>0, <2>1 DEF GoodOp, NoTransfer, Operation, State, TracedAt, Traced, Observed
  <2>3. /\ w \in SUBSET Path /\ image \in Image
        /\ \A p \in Path \ w : image[p] = snaps[head][p]
    BY <1>0, <2>2, MergeFacts
  <2> HIDE DEF image, w
  <2>4. \A p \in Path : state'[d].base[p] = IF p \in w THEN b[p] ELSE image[p]
    BY <2>1, <2>2, <2>3, AcceptedBase
  <2> QED
    BY <2>2, <2>3, <2>4 DEF Agrees
<1>2. CASE RecordState(d)
  <2> DEFINE j == journal[d]
  <2>1. /\ op[d].pc = "record" /\ j # None /\ j \in Journal /\ head = j.upload
        /\ state'[d] = AcceptedState(j.state, j.after, head, j.withheld)
    BY <1>0, <1>2 DEF RecordState, At, TypeOK, GoodOp, Journaled, Resumed
  <2>2. /\ j.state = state[d]
        /\ \A p \in Path \ j.withheld : j.after[p] = snaps[head][p]
    BY <1>0, <2>1 DEF IInv, GoodJournal, TracedAt, Traced, Applying, AppliedBy
  <2>3. j.state \in State /\ j.after \in Image /\ j.withheld \in SUBSET Path
    BY <2>1 DEF Journal
  <2> HIDE DEF j
  <2>4. \A p \in Path : state'[d].base[p]
                            = IF p \in j.withheld THEN j.state.base[p] ELSE j.after[p]
    BY <2>1, <2>3, AcceptedBase
  <2> QED
    BY <2>2, <2>4 DEF Agrees
<1> QED
  BY <1>1, <1>2

LEMMA WriteJournalChain ==
    ASSUME IInv, Chain, NEW d \in Device, WriteJournal(d)
    PROVE  Chain'
<1> DEFINE h == op[d].head
           b == op[d].state.base
           l == op[d].local
           new == Publication(b, l, snaps[h])
           j == journal'[d]
<1>1. /\ TypeOK /\ op[d] \in Operation /\ op[d].pc = "journal"
      /\ GoodOp(op[d], journal[d], heads, snaps)
      /\ heads \subseteq 1 .. Len(snaps) /\ snaps \in Seq(Image) /\ Len(snaps) \in Nat
  BY BoundAssumption DEF WriteJournal, At, IInv, TypeOK, Snapshot
<1>2. /\ h \in heads /\ h \in 1 .. Len(snaps) /\ snaps[h] \in Image /\ b \in Image /\ l \in Image
  <2>1. h \in heads /\ h \in 1 .. Len(snaps)
    BY <1>1 DEF GoodOp, Headed
  <2> QED
    BY <1>1, <2>1 DEF Operation, State
<1>3. /\ j.state = op[d].state /\ j.expected = h /\ (~j.applyOnly => new # snaps[h])
      /\ new # snaps[h] => j.upload = Len(snaps) + 1
      /\ snaps' = IF new # snaps[h] THEN Append(snaps, new) ELSE snaps
      /\ op'[d].pc = "precommit" /\ op'[d].head = h
      /\ UNCHANGED <<head, heads, puts, state>>
      /\ \A e \in Device : e # d => op'[e] = op[e] /\ journal'[e] = journal[e]
  BY <1>1 DEF WriteJournal, Publishes, PublicationBy, AcceptedBy, WithheldBy, Base, Goto,
     TypeOK, Operation, history
<1>4. new \in Image /\ \A p \in Path : new[p] # snaps[h][p] => snaps[h][p] = b[p]
  <2>1. new \in Image
    BY <1>2, MergeFacts
  <2>2. \A p \in Path : new[p] # snaps[h][p] => snaps[h][p] = b[p]
    BY <1>2, MergeReplacesAccepted
  <2> QED
    BY <2>1, <2>2
<1> HIDE DEF new, h, b, j
<1>5. \A i \in 1 .. Len(snaps) : snaps'[i] = snaps[i]
  BY <1>1, <1>3, <1>4
<1>6. MayPublish(d)' => j.upload = Len(snaps) + 1 /\ snaps'[j.upload] = new
  <2>1. MayPublish(d)' => ~j.applyOnly
    BY DEF MayPublish, j
  <2>2. new # snaps[h] => j.upload = Len(snaps) + 1 /\ snaps' = Append(snaps, new)
    BY <1>3
  <2> QED
    BY <1>1, <1>3, <1>4, <2>1, <2>2
<1>7. ASSUME NEW q \in puts'
      PROVE  PendingAt(q)'
  <2>1. q \in puts /\ PendingAt(q) /\ q.dev \in Device /\ q.cand \in 1 .. Len(snaps)
        /\ head \in 1 .. Len(snaps)
    BY <1>1, <1>3 DEF Chain, IInv, TypeOK, Put
  <2>2. op'[q.dev].pc \in Headed => op[q.dev].pc \in Headed /\ op'[q.dev].head = op[q.dev].head
    BY <1>1, <1>3, <2>1 DEF Headed, h
  <2> QED
    BY <1>3, <1>5, <2>1, <2>2 DEF PendingAt, OnlyOver
<1>8. ASSUME NEW e \in Device
      PROVE  CandidateAt(e)'
  <2>1. CASE e = d
    <3>1. MayPublish(d)' => j.upload \notin heads /\ \A q \in puts : q.cand # j.upload
      BY <1>1, <1>6 DEF IInv
    <3>2. MayPublish(d)' => OnlyOver(snaps', j.upload, h, b)
      BY <1>2, <1>4, <1>5, <1>6 DEF OnlyOver
    <3> QED
      BY <1>3, <2>1, <3>1, <3>2 DEF CandidateAt, j, b
  <2>2. CASE e # d
    <3>1. CandidateAt(e) /\ op'[e] = op[e] /\ journal'[e] = journal[e]
      BY <1>3, <2>2 DEF Chain
    <3>2. MayPublish(e) => /\ journal[e].upload \in 1 .. Len(snaps)
                           /\ journal[e].expected \in 1 .. Len(snaps)
      <4>1. ASSUME MayPublish(e)
            PROVE  /\ journal[e] # None
                   /\ journal[e].upload \in 1 .. Len(snaps)
                   /\ journal[e].expected \in 1 .. Len(snaps)
        <5>1. /\ GoodOp(op[e], journal[e], heads, snaps)
              /\ GoodJournal(journal[e], heads, snaps)
          BY DEF IInv
        <5>2. op[e].pc \in Unapplied /\ op[e].pc \in Headed /\ journal[e] # None
          BY <4>1, <5>1 DEF MayPublish, Unapplied, Headed, GoodOp, Journaled
        <5>3. op[e].head = journal[e].expected /\ op[e].head \in heads
          BY <3>1, <5>1, <5>2 DEF CandidateAt, GoodOp
        <5> QED
          BY <1>1, <5>1, <5>2, <5>3 DEF GoodJournal
      <4> QED
        BY <4>1
    <3> QED
      BY <1>3, <1>5, <3>1, <3>2 DEF CandidateAt, MayPublish, OnlyOver
  <2> QED
    BY <2>1, <2>2
<1>9. Distinct'
  <2>1. ASSUME NEW e \in Device, e # d, MayPublish(e)'
        PROVE  MayPublish(e) /\ journal'[e] = journal[e] /\ journal[e].upload \in 1 .. Len(snaps)
    <3>1. MayPublish(e) /\ journal'[e] = journal[e]
      BY <1>3, <2>1 DEF MayPublish
    <3>2. journal[e] # None
      BY <3>1 DEF MayPublish, IInv, GoodOp, Journaled
    <3> QED
      BY <3>1, <3>2 DEF IInv, GoodJournal
  <2>2. \A e \in Device : e # d /\ MayPublish(d)' /\ MayPublish(e)' =>
            journal'[e].upload # journal'[d].upload
    BY <1>1, <1>6, <2>1 DEF j
  <2> QED
    BY <1>3, <2>1, <2>2 DEF Chain, Distinct
<1> QED
  BY <1>7, <1>8, <1>9 DEF Chain

LEMMA PublishChain ==
    ASSUME IInv, AllTraced, Chain, NEW d \in Device, Publish(d)
    PROVE  Chain'
<1>0. PICK q0 : q0 = [dev |-> d, expected |-> head, cand |-> journal[d].upload]
  OBVIOUS
<1>1. /\ TypeOK /\ op[d].pc = "commit" /\ head = journal[d].expected /\ head \in heads
      /\ MayPublish(d) /\ op'[d].pc = "publishing" /\ op'[d].head = op[d].head
      /\ puts' = puts \cup {q0}
      /\ UNCHANGED <<state, journal, snaps, head, heads>>
      /\ \A e \in Device : e # d => op'[e] = op[e]
  BY <1>0 DEF Publish, At, Goto, IInv, TypeOK, Operation, MayPublish, disk, history
<1>2. /\ CandidateAt(d) /\ op[d].head = head
      /\ state[d] = journal[d].state
  BY <1>1 DEF Chain, CandidateAt, Unapplied, AllTraced, TracedAt, Traced
<1>3. q0.dev = d /\ q0.expected = head /\ q0.cand = journal[d].upload
  BY <1>0
<1>4. PendingAt(q0)'
  BY <1>1, <1>2, <1>3 DEF PendingAt, CandidateAt
<1>5. ASSUME NEW q \in puts
      PROVE  PendingAt(q)' /\ q.cand # q0.cand
  <2>1. PendingAt(q) /\ q.dev \in Device
    BY <1>1 DEF Chain, TypeOK, Put
  <2>2. op[d].pc \in Headed
    BY <1>1 DEF Headed
  <2>3. op'[q.dev].pc \in Headed => op[q.dev].pc \in Headed /\ op'[q.dev].head = op[q.dev].head
    BY <1>1, <2>1, <2>2
  <2> QED
    BY <1>1, <1>2, <1>3, <2>1, <2>3 DEF PendingAt, CandidateAt
<1>6. ASSUME NEW e \in Device
      PROVE  CandidateAt(e)' /\ (MayPublish(e)' => MayPublish(e) /\ e # d)
  <2>1. CASE e = d
    <3>1. ~MayPublish(d)' /\ op[d].head = journal[d].expected
      BY <1>1, <1>2 DEF MayPublish
    <3> QED
      BY <1>1, <2>1, <3>1 DEF CandidateAt
  <2>2. CASE e # d
    <3>1. CandidateAt(e) /\ op'[e] = op[e] /\ journal'[e] = journal[e]
          /\ (MayPublish(e)' <=> MayPublish(e))
      BY <1>1, <2>2 DEF Chain, MayPublish
    <3>2. MayPublish(e) => q0.cand # journal[e].upload
      BY <1>1, <1>3, <2>2 DEF Chain, Distinct
    <3> QED
      BY <1>1, <2>2, <3>1, <3>2 DEF CandidateAt
  <2> QED
    BY <2>1, <2>2
<1>7. Distinct'
  BY <1>1, <1>5, <1>6 DEF Chain, Distinct
<1> QED
  BY <1>1, <1>4, <1>5, <1>6, <1>7 DEF Chain

LEMMA LandPutChain ==
    ASSUME IInv, Chain, NEW q \in puts, LandPut(q)
    PROVE  Chain'
<1>1. /\ head' = q.cand /\ heads' = heads \cup {q.cand} /\ puts' = puts \ {q}
      /\ UNCHANGED <<state, journal, op, snaps>> /\ q.cand \notin heads
  BY DEF LandPut, Chain, PendingAt, disk
<1>2. ASSUME NEW r \in puts'
      PROVE  PendingAt(r)'
  <2>1. r \in puts /\ r # q /\ PendingAt(r) /\ r.cand # q.cand
    BY <1>1 DEF Chain, Distinct
  <2> QED
    BY <1>1, <2>1 DEF PendingAt
<1>3. ASSUME NEW e \in Device
      PROVE  CandidateAt(e)'
  BY <1>1 DEF Chain, CandidateAt, MayPublish
<1>4. Distinct'
  BY <1>1 DEF Chain, Distinct, MayPublish
<1> QED
  BY <1>2, <1>3, <1>4 DEF Chain

\* A step after which no record of any device has changed.
LEMMA RecordsChain ==
    ASSUME Chain, UNCHANGED <<state, journal, op, snaps, head, heads>>, puts' \subseteq puts
    PROVE  Chain'
<1>1. \A q \in puts' : PendingAt(q)'
  BY DEF Chain, PendingAt
<1>2. \A e \in Device : CandidateAt(e)'
  BY DEF Chain, CandidateAt, MayPublish
<1>3. Distinct'
  BY DEF Chain, Distinct, MayPublish
<1> QED
  BY <1>1, <1>2, <1>3 DEF Chain

LEMMA RefusePutChain ==
    ASSUME IInv, Chain, NEW q \in puts, RefusePut(q)
    PROVE  Chain'
<1>1. /\ TypeOK /\ puts' \subseteq puts /\ UNCHANGED <<state, snaps, head, heads>>
      /\ q.dev \in Device
  BY DEF RefusePut, IInv, TypeOK, Put, history
<1>2. CASE Retry(q.dev)
  <2>1. /\ op'[q.dev].pc \in {"observe", "idle"}
        /\ \A e \in Device : e # q.dev => Quiet(e)
    BY <1>1, <1>2, BlankPhase DEF Retry, ClearJournal, Idle, TypeOK, Quiet
  <2>2. Tame(q.dev) /\ Agrees(q.dev)
    BY <1>1, <2>1 DEF Tame, Agrees, MayPublish, Unapplied, Headed
  <2> QED
    BY <1>1, <2>1, <2>2, TameChain
<1>3. CASE UNCHANGED <<journal, op>>
  BY <1>1, <1>3, RecordsChain
<1> QED
  BY <1>2, <1>3 DEF RefusePut

LEMMA InitChain == Init => Chain
<1> SUFFICES ASSUME Init
             PROVE  Chain
  OBVIOUS
<1>1. puts = {} /\ \A d \in Device : op[d].pc = "idle"
  BY BlankPhase DEF Init, Idle
<1> QED
  BY <1>1 DEF Chain, CandidateAt, Distinct, MayPublish, Unapplied

LEMMA SyncChain ==
    ASSUME IInv, AllTraced, Chain, NEW d \in Device,
           SyncStep(d) \/ PreflightFails(d) \/ Interrupt(d)
    PROVE  Chain'
<1>0. TypeOK /\ GoodOp(op[d], journal[d], heads, snaps)
  BY DEF IInv
<1>1. CASE WriteJournal(d)
  BY <1>1, WriteJournalChain
<1>2. CASE Publish(d)
  BY <1>2, PublishChain
<1>3. CASE ~WriteJournal(d) /\ ~Publish(d)
  <2>1. Tame(d) /\ (state' = state \/ AcceptBaseline(d) \/ RecordState(d))
    BY <1>0, <1>3, PlanTame, CommitTame, RecoveryTame, BaselineTame DEF SyncStep
  <2>2. \A e \in Device : e # d => Quiet(e)
    BY <1>0, OthersStill DEF Still, Quiet
  <2>3. ASSUME NEW q \in puts, q.dev = d, head = q.expected
        PROVE  Agrees(d)
    <3>1. CASE state' = state
      BY <3>1 DEF Agrees
    <3>2. CASE AcceptBaseline(d) \/ RecordState(d)
      <4>1. op[d].pc \in Headed
        BY <3>2 DEF AcceptBaseline, RecordState, At, Headed
      <4>2. op[d].head = head
        BY <2>3, <4>1 DEF Chain, PendingAt
      <4> QED
        BY <3>2, <4>2, BaselineAgrees
    <3> QED
      BY <2>1, <3>1, <3>2
  <2> QED
    BY <1>0, <2>1, <2>2, <2>3, TameChain
<1> QED
  BY <1>1, <1>2, <1>3

LEMMA StepChain == IInv /\ AllTraced /\ Chain /\ [Next]_vars => Chain'
<1> SUFFICES ASSUME IInv, AllTraced, Chain, [Next]_vars
             PROVE  Chain'
  OBVIOUS
<1>1. ASSUME NEW d \in Device, SyncStep(d) \/ PreflightFails(d) \/ Interrupt(d)
      PROVE  Chain'
  BY <1>1, SyncChain
<1>2. ASSUME NEW q \in puts, LandPut(q) \/ RefusePut(q)
      PROVE  Chain'
  BY <1>2, LandPutChain, RefusePutChain
<1>3. ASSUME NEW q \in puts, LosePut(q)
      PROVE  Chain'
  BY <1>3, RecordsChain DEF LosePut, disk, history
<1>4. ASSUME NEW d \in Device, NEW ps \in SavedAtOnce, NEW v \in Version, Edit(d, ps, v)
      PROVE  Chain'
  BY <1>4, RecordsChain DEF Edit, remote
<1>5. CASE UNCHANGED vars
  BY <1>5, RecordsChain DEF vars, disk, remote, history
<1> QED
  BY <1>1, <1>2, <1>3, <1>4, <1>5 DEF Next, ServiceStep, Failure

\* Every publication under way replaces a version its sender has accepted.
THEOREM ChainInvariance == Spec => []Chain
<1> QED
  BY InitChain, StepChain, Invariance, TracedInvariance, PTL DEF Spec

\* Who takes a publication off, and when the head is its candidate afterwards.
LEMMA OnlyLandingMovesHead ==
    ASSUME IInv, Chain, [Next]_vars, head' # head
    PROVE  \E q \in puts : LandPut(q)
<1>1. ASSUME NEW d \in Device, SyncStep(d) \/ PreflightFails(d) \/ Interrupt(d)
      PROVE  head' = head
  <2>1. CASE WriteJournal(d) \/ Publish(d) \/ PreflightFails(d) \/ Interrupt(d)
    BY <2>1 DEF WriteJournal, Publish, PreflightFails, Interrupt, remote
  <2>2. CASE ~(WriteJournal(d) \/ Publish(d) \/ PreflightFails(d) \/ Interrupt(d))
    <3>1. Tame(d)
      BY <1>1, <2>2, PlanTame, CommitTame, RecoveryTame, BaselineTame DEF SyncStep, IInv
    <3> QED
      BY <3>1 DEF Tame
  <2> QED
    BY <2>1, <2>2
<1>2. ASSUME NEW q \in puts, RefusePut(q) \/ LosePut(q)
      PROVE  head' = head
  BY <1>2 DEF RefusePut, LosePut
<1>3. ASSUME NEW d \in Device, NEW ps \in SavedAtOnce, NEW v \in Version, Edit(d, ps, v)
      PROVE  head' = head
  BY <1>3 DEF Edit, remote
<1>4. CASE UNCHANGED vars
  BY <1>4 DEF vars, remote
<1> QED
  BY <1>1, <1>2, <1>3, <1>4 DEF Next, ServiceStep, Failure

\* A publication replaces only versions its publisher had accepted, even one
\* that lands after its sender gave up or started over.
THEOREM PublicationReplacesAccepted == Spec => PublicationOverwritesOnlyAccepted
<1>1. ASSUME IInv, Chain, [Next]_vars, NEW q \in puts \ puts', head' = q.cand, NEW p \in Path,
             snaps[head'][p] # snaps[head][p]
      PROVE  state[q.dev].base[p] = snaps[head][p]
  <2>1. PendingAt(q) /\ head' # head
    BY <1>1 DEF Chain, IInv, PendingAt
  <2>2. PICK r \in puts : LandPut(r)
    BY <1>1, <2>1, OnlyLandingMovesHead
  <2>3. r = q
    BY <1>1, <2>2 DEF LandPut, Chain, Distinct
  <2>4. head = q.expected
    BY <2>2, <2>3 DEF LandPut
  <2> QED
    BY <1>1, <2>1, <2>4 DEF PendingAt, OnlyOver
<1>2. IInv /\ Chain /\ [Next]_vars =>
          [\A q \in puts \ puts' : head' = q.cand =>
              \A p \in Path : snaps[head'][p] # snaps[head][p] =>
                                  state[q.dev].base[p] = snaps[head][p]]_vars
  BY <1>1
<1> QED
  BY <1>2, Invariance, ChainInvariance, PTL DEF Spec, PublicationOverwritesOnlyAccepted

-----------------------------------------------------------------------------
(* The merged transfer implements ThreeWaySync. *)

SharedImages == {snaps[i] : i \in heads}
Baselines == [d \in Device |-> state[d].base]

\* What an abstract step sees of one that changes no head, and no baseline.
LEMMA SharedSame ==
    ASSUME IInv, [Next]_vars, heads' = heads
    PROVE  SharedImages' = SharedImages
<1>1. \A i \in heads : snaps'[i] = snaps[i]
  BY HistoryGrows DEF IInv, Grows
<1> QED
  BY <1>1 DEF SharedImages

LEMMA RemoteSame ==
    ASSUME IInv, [Next]_vars, head' = head
    PROVE  snaps'[head'] = snaps[head]
<1>1. head \in heads
  BY DEF IInv
<1> QED
  BY <1>1, HistoryGrows DEF Grows

LEMMA Stutters ==
    ASSUME IInv, [Next]_vars, UNCHANGED <<local, state, head, heads>>
    PROVE  [Abstract!Next]_(Abstract!vars)
<1>1. SharedImages' = SharedImages /\ snaps'[head'] = snaps[head] /\ Baselines' = Baselines
  BY SharedSame, RemoteSame DEF Baselines
<1> QED
  BY <1>1 DEF Abstract!vars, SharedImages, Baselines

\* A replacement installs a version of an active image.
LEMMA ReplaceInstalls ==
    ASSUME IInv, AllTraced, AllChecked, NEW d \in Device, NEW p \in Path, ReplaceTarget(d, p),
           [Next]_vars
    PROVE  [Abstract!Next]_(Abstract!vars)
<1>1. /\ op[d].pc = "replacing" /\ TypeOK /\ GoodOp(op[d], journal[d], heads, snaps)
      /\ local' = [local EXCEPT ![d][p] = journal[d].after[p]]
      /\ UNCHANGED <<state, head, heads, snaps>>
  BY DEF ReplaceTarget, At, IInv, remote, history
<1>2. /\ journal[d] # None /\ state[d] = journal[d].state
      /\ \/ local[d][p] = journal[d].after[p]
         \/ local[d][p] = state[d].base[p] /\ p \in Changed(journal[d])
  BY ReplacesAccepted
<1>3. CASE local[d][p] = journal[d].after[p]
  <2>1. local' = local
    BY <1>1, <1>3 DEF TypeOK, Image
  <2> QED
    BY <1>1, <2>1, Stutters
<1>4. CASE local[d][p] = state[d].base[p] /\ p \in Changed(journal[d])
  <2> DEFINE i == journal[d].upload
  <2>1. i \in heads
    BY <1>1 DEF GoodOp, Headed, Resumed
  <2>2. journal[d].after[p] = snaps[i][p]
    BY <1>2, <1>4 DEF IInv, GoodJournal, AllTraced, TracedAt, Traced, ExplainedBy
  <2>3. snaps[i] \in SharedImages /\ local' = [local EXCEPT ![d][p] = snaps[i][p]]
        /\ Baselines[d] = state[d].base /\ Baselines' = Baselines
        /\ SharedImages' = SharedImages
    BY <1>1, <2>1, <2>2 DEF SharedImages, Baselines
  <2> HIDE DEF i
  <2>4. Abstract!Install(d, p, snaps[i])
    BY <1>1, <1>4, <2>3 DEF Abstract!Install, SharedImages, Baselines
  <2> QED
    BY <2>3, <2>4 DEF Abstract!Next, SharedImages
<1> QED
  BY <1>2, <1>3, <1>4

\* Recording a baseline accepts an active image, up to what was withheld.
Records(d, previous, image, i, w) ==
    /\ i \in heads /\ w \in SUBSET Path /\ image \in Image /\ previous \in State
    /\ previous.base = state[d].base
    /\ state' = [state EXCEPT ![d] = AcceptedState(previous, image, i, w)]
    /\ \A p \in Path \ w : image[p] = snaps[i][p]
    /\ local' = local /\ head' = head /\ heads' = heads

LEMMA RecordAccepts ==
    ASSUME IInv, [Next]_vars, NEW d \in Device, NEW previous, NEW image, NEW i, NEW w,
           Records(d, previous, image, i, w)
    PROVE  [Abstract!Next]_(Abstract!vars)
<1> USE DEF Records
<1> DEFINE base == [p \in Path |-> IF p \in w THEN state[d].base[p] ELSE snaps[i][p]]
<1>1. AcceptedState(previous, image, i, w).base = base
  <2>1. CASE w = {}
    <3>1. AcceptedState(previous, image, i, w).base = image
      BY <2>1 DEF AcceptedState
    <3> QED
      BY <2>1, <3>1 DEF Image
  <2>2. CASE w # {}
    <3>1. AcceptedState(previous, image, i, w).base
              = [p \in Path |-> IF p \in w THEN previous.base[p] ELSE image[p]]
      BY <2>2 DEF AcceptedState, State
    <3> QED
      BY <3>1
  <2> QED
    BY <2>1, <2>2
<1> HIDE DEF base
<1>2. Baselines' = [Baselines EXCEPT ![d] = base]
  BY <1>1 DEF Baselines, IInv, TypeOK
<1>3. snaps[i] \in SharedImages /\ Baselines[d] = state[d].base
  BY DEF SharedImages, Baselines
<1>4. local' = local /\ snaps'[head'] = snaps[head] /\ SharedImages' = SharedImages
  BY SharedSame, RemoteSame
<1>5. Abstract!Accept(d, snaps[i], w)
  BY <1>2, <1>3, <1>4 DEF Abstract!Accept, SharedImages, Baselines, base
<1> QED
  BY <1>3, <1>5 DEF Abstract!Next, SharedImages

LEMMA BaselineAccepts ==
    ASSUME IInv, AllTraced, [Next]_vars, NEW d \in Device, AcceptBaseline(d) \/ RecordState(d)
    PROVE  [Abstract!Next]_(Abstract!vars)
<1>0. /\ TypeOK /\ GoodOp(op[d], journal[d], heads, snaps) /\ TracedAt(d)
      /\ heads \subseteq 1 .. Len(snaps) /\ snaps \in Seq(Image)
  BY DEF IInv, TypeOK, AllTraced
<1> DEFINE h == op[d].head
<1>1. CASE AcceptBaseline(d)
  <2> DEFINE b == op[d].state.base
             l == op[d].local
             image == Accepted(b, l, snaps[h])
             w == Withheld(b, l, snaps[h])
  <2>1. /\ op[d].pc = "accept" /\ op[d] \in Operation
        /\ state' = [state EXCEPT ![d] = AcceptedState(op[d].state, image, h, w)]
        /\ UNCHANGED <<local, head, heads>>
    BY <1>0, <1>1 DEF AcceptBaseline, AcceptedBy, WithheldBy, Base, At, TypeOK, remote, history
  <2>2. /\ h \in heads /\ b \in Image /\ l \in Image /\ op[d].state \in State
        /\ Publication(b, l, snaps[h]) = snaps[h] /\ op[d].state = state[d]
    BY <1>0, <2>1 DEF GoodOp, NoTransfer, Headed, Operation, State, TracedAt, Traced, Observed
  <2>3. snaps[h] \in Image
    <3>1. h \in 1 .. Len(snaps)
      BY <1>0, <2>2
    <3> HIDE DEF h
    <3> QED
      BY <1>0, <3>1
  <2>4. /\ w \in SUBSET Path /\ image \in Image
        /\ \A p \in Path \ w : image[p] = snaps[h][p]
    BY <2>2, <2>3, MergeFacts
  <2>5. PICK previous, im, i, kept :
            previous = op[d].state /\ im = image /\ i = h /\ kept = w
    OBVIOUS
  <2> HIDE DEF image, w, h
  <2>6. Records(d, previous, im, i, kept)
    BY <2>1, <2>2, <2>4, <2>5 DEF Records
  <2> QED
    BY <2>6, RecordAccepts
<1>2. CASE RecordState(d)
  <2> DEFINE j == journal[d]
  <2>1. /\ op[d].pc = "record" /\ j # None /\ j \in Journal /\ h = j.upload /\ h \in heads
        /\ state' = [state EXCEPT ![d] = AcceptedState(j.state, j.after, h, j.withheld)]
        /\ UNCHANGED <<local, head, heads>>
    BY <1>0, <1>2 DEF RecordState, At, TypeOK, GoodOp, Journaled, Resumed, Headed, remote, history
  <2>2. /\ j.state = state[d]
        /\ \A p \in Path \ j.withheld : j.after[p] = snaps[h][p]
    BY <1>0, <2>1 DEF IInv, GoodJournal, TracedAt, Traced, Applying, AppliedBy
  <2>3. /\ j.state \in State /\ j.after \in Image /\ j.withheld \in SUBSET Path
        /\ j.state.base = state[d].base
    BY <2>1, <2>2 DEF Journal
  <2>4. PICK previous, image, i, w :
            previous = j.state /\ image = j.after /\ i = h /\ w = j.withheld
    OBVIOUS
  <2> HIDE DEF j, h
  <2>5. Records(d, previous, image, i, w)
    BY <2>1, <2>2, <2>3, <2>4 DEF Records
  <2> QED
    BY <2>5, RecordAccepts
<1> QED
  BY <1>1, <1>2

\* A PUT that lands publishes, over nothing its sender had not accepted.
LEMMA LandPutPublishes ==
    ASSUME IInv, Chain, NEW q \in puts, LandPut(q)
    PROVE  [Abstract!Next]_(Abstract!vars)
<1>0. PICK image : image = snaps[q.cand]
  OBVIOUS
<1>1. /\ head = q.expected /\ head' = q.cand /\ heads' = heads \cup {q.cand}
      /\ UNCHANGED <<local, state, snaps>> /\ q.dev \in Device
  BY DEF LandPut, IInv, TypeOK, Put, disk
<1>2. image \in Abstract!Image
  BY <1>0 DEF IInv, TypeOK, Image, Abstract!Image, Version, Abstract!Version
<1>3. \A p \in Path : image[p] # snaps[head][p] => snaps[head][p] = Baselines[q.dev][p]
  BY <1>0, <1>1 DEF Chain, PendingAt, OnlyOver, Baselines
<1>4. /\ snaps'[head'] = image /\ SharedImages' = SharedImages \cup {image}
      /\ Baselines' = Baselines
  BY <1>0, <1>1 DEF SharedImages, Baselines
<1>5. Abstract!Publish(q.dev, image)
  BY <1>1, <1>3, <1>4 DEF Abstract!Publish, SharedImages, Baselines
<1> QED
  BY <1>1, <1>2, <1>5 DEF Abstract!Next

LEMMA EditEdits ==
    ASSUME IInv, NEW d \in Device, NEW ps \in SavedAtOnce, NEW v \in Version, Edit(d, ps, v)
    PROVE  [Abstract!Next]_(Abstract!vars)
<1>1. ps \in SUBSET Path /\ v \in Abstract!Version
  BY TogetherAssumption DEF SavedAtOnce, Version, Abstract!Version
<1>2. /\ local' = [local EXCEPT ![d] = [p \in Path |-> IF p \in ps THEN v ELSE local[d][p]]]
      /\ UNCHANGED <<state, snaps, head, heads>>
  BY DEF Edit, remote
<1>3. Abstract!Edit(d, ps, v)
  BY <1>2 DEF Abstract!Edit
<1> QED
  BY <1>1, <1>3 DEF Abstract!Next

LEMMA StepImplements ==
    ASSUME IInv, AllTraced, AllChecked, Chain, [Next]_vars
    PROVE  [Abstract!Next]_(Abstract!vars)
<1>0. TypeOK
  BY DEF IInv
<1>1. ASSUME NEW d \in Device, SyncStep(d) \/ PreflightFails(d) \/ Interrupt(d)
      PROVE  [Abstract!Next]_(Abstract!vars)
  <2>1. CASE WriteJournal(d) \/ Publish(d)
    BY <2>1, Stutters DEF WriteJournal, Publish, disk, history
  <2>2. CASE AcceptBaseline(d) \/ RecordState(d)
    BY <2>2, BaselineAccepts
  <2>3. ASSUME NEW p \in Path, ReplaceTarget(d, p)
        PROVE  [Abstract!Next]_(Abstract!vars)
    BY <2>3, ReplaceInstalls
  <2>4. CASE /\ ~(WriteJournal(d) \/ Publish(d) \/ AcceptBaseline(d) \/ RecordState(d))
             /\ \A p \in Path : ~ReplaceTarget(d, p)
    <3>1. UNCHANGED <<head, heads, state>>
      BY <1>0, <1>1, <2>4, PlanTame, CommitTame, RecoveryTame, BaselineTame DEF SyncStep, Tame
    <3>2. local' = local
      BY <1>0, <1>1, <2>4, SyncWrites
    <3> QED
      BY <3>1, <3>2, Stutters
  <2> QED
    BY <2>1, <2>2, <2>3, <2>4
<1>2. ASSUME NEW q \in puts, LandPut(q)
      PROVE  [Abstract!Next]_(Abstract!vars)
  BY <1>2, LandPutPublishes
<1>3. ASSUME NEW q \in puts, RefusePut(q) \/ LosePut(q)
      PROVE  [Abstract!Next]_(Abstract!vars)
  BY <1>3, Stutters DEF RefusePut, LosePut, disk, history
<1>4. ASSUME NEW d \in Device, NEW ps \in SavedAtOnce, NEW v \in Version, Edit(d, ps, v)
      PROVE  [Abstract!Next]_(Abstract!vars)
  BY <1>4, EditEdits
<1>5. CASE UNCHANGED vars
  BY <1>5, Stutters DEF vars, disk, remote, history
<1> QED
  BY <1>1, <1>2, <1>3, <1>4, <1>5 DEF Next, ServiceStep, Failure

LEMMA InitImplements == Init => Abstract!Init
<1> SUFFICES ASSUME Init
             PROVE  Abstract!Init
  OBVIOUS
<1>1. /\ Baselines = [d \in Device |-> Initial]
      /\ snaps[head] = Initial /\ SharedImages = {Initial}
      /\ local = [d \in Device |-> Initial]
  BY DEF Init, Baselines, SharedImages, InitState
<1> QED
  BY <1>1 DEF Abstract!Init, Baselines, SharedImages

\* The merged transfer is a three-way synchronisation, where nobody writes
\* outside the file queues (merged-sync.ts, merge-apply.ts).
THEOREM MergedSyncImplements == ~ExternalWriters /\ Spec => ImplementsThreeWaySync
<1>1. IInv /\ AllTraced /\ AllChecked /\ Chain /\ [Next]_vars => [Abstract!Next]_(Abstract!vars)
  BY StepImplements
<1> QED
  BY <1>1, InitImplements, Invariance, TracedInvariance, CheckedInvariance, ChainInvariance, PTL
     DEF Spec, ImplementsThreeWaySync, Abstract!Spec
=============================================================================
