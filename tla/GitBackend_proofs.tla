-------------------------- MODULE GitBackend_proofs --------------------------
(***************************************************************************)
(* A Git branch keeps the promise of RemoteHead and a complete history,    *)
(* for any number of devices and snapshots.                                *)
(*                                                                         *)
(* The argument: a snapshot has at most one publication under way, either  *)
(* at its publisher or in a push, and none once it was active or rejected. *)
(* A commit under way extends the line of the commit its lease names, and  *)
(* lines of commits that were active never change.                         *)
(***************************************************************************)
EXTENDS GitBackend, SequenceTheorems, TLAPS

Unsent(d) == op[d].pc \in {"fetch", "commit", "push"}

\* Every snapshot has at most one publication under way.
OnePublication ==
    /\ \A d \in Device : Unsent(d) =>
        /\ op[d].new \in used \ (ever \cup rejected)
        /\ \A e \in Device : Unsent(e) /\ op[e].new = op[d].new => e = d
        /\ \A p \in pushes : p.new # op[d].new
    /\ \A p \in pushes :
        /\ p.new \in used \ (ever \cup rejected)
        /\ \A q \in pushes : q.new = p.new => q = p

\* Leases are on commits that were active, and commits extend them.
LinesGrow ==
    /\ branch \in ever \cup {None}
    /\ \A d \in Device : op[d].expected \in ever \cup {None}
    /\ \A d \in Device : At(d, "push") =>
        line[op[d].new] = Append(Line(op[d].expected), op[d].new)
    /\ \A p \in pushes :
        p.lease \in ever \cup {None} /\ line[p.new] = Append(Line(p.lease), p.new)

\* The branch is the line of everything that was active, in its order.
HistoryIsTheLine ==
    /\ Line(branch) = order
    /\ ever = {order[i] : i \in DOMAIN order}
    /\ \A i, j \in DOMAIN order : order[i] = order[j] => i = j
    /\ \A i \in DOMAIN Line(branch) : SubSeq(Line(branch), 1, i) = line[Line(branch)[i]]

IInv ==
    /\ TypeOK /\ OnePublication /\ LinesGrow /\ HistoryIsTheLine
    /\ published \subseteq ever

USE NoneAssumption, MaxListedAssumption

-----------------------------------------------------------------------------
\* The line of a commit is a sequence of snapshots.
LEMMA LineType == ASSUME TypeOK, NEW c \in Snapshot \cup {None} PROVE Line(c) \in Seq(Snapshot)
  BY DEF TypeOK, Line

\* The invariant holds of an empty branch.
LEMMA InitIInv == Init => IInv
<1> SUFFICES ASSUME Init PROVE IInv
  OBVIOUS
<1>1. TypeOK BY DEF Init, TypeOK, Operation, Idle, At
<1>2. OnePublication BY DEF Init, OnePublication, Unsent, Idle
<1>3. LinesGrow BY DEF Init, LinesGrow, At, Idle
<1>4. HistoryIsTheLine
  BY DEF Init, Line, HistoryIsTheLine
<1>5. QED BY <1>1, <1>2, <1>3, <1>4 DEF Init, IInv

-----------------------------------------------------------------------------
\* What a step of device d does to op.
OnlyOf(d) ==
    /\ op' \in [Device -> Operation]
    /\ \A e \in Device \ {d} : op'[e] = op[e]

\* Go changes the program counter of one device.
LEMMA GoFacts ==
    ASSUME TypeOK, NEW d \in Device,
           NEW pc \in {"fetch", "commit", "push", "await", "verify"}, Go(d, pc)
    PROVE  /\ OnlyOf(d)
           /\ op'[d].pc = pc /\ op'[d].new = op[d].new /\ op'[d].expected = op[d].expected
  BY DEF TypeOK, Operation, Go, OnlyOf

\* Finish clears the publication of one device.
LEMMA FinishFacts ==
    ASSUME TypeOK, NEW d \in Device, Finish(d)
    PROVE  OnlyOf(d) /\ op'[d] = Idle /\ op'[d].pc = "idle"
  BY DEF TypeOK, Operation, Finish, Idle, OnlyOf

\* Report keeps what one device publishes.
LEMMA ErrorFacts ==
    ASSUME TypeOK, NEW d \in Device, NEW error \in BOOLEAN, Report(d, error)
    PROVE  /\ OnlyOf(d)
           /\ op'[d].pc = "verify" /\ op'[d].new = op[d].new /\ op'[d].expected = op[d].expected
  BY DEF TypeOK, Operation, Report, OnlyOf

\* The answer to a push changes nothing but what its sender, if it still
\* waits, is about to verify.
LEMMA AnswerFacts ==
    ASSUME TypeOK, NEW p \in pushes, NEW error \in BOOLEAN, Answered(p, error)
    PROVE  /\ op' \in [Device -> Operation]
           /\ \A e \in Device :
               /\ op'[e].new = op[e].new /\ op'[e].expected = op[e].expected
               /\ op'[e] = op[e] \/ (op[e].pc = "await" /\ op'[e].pc = "verify")
<1>1. CASE UNCHANGED op BY <1>1 DEF TypeOK
<1>2. CASE Awaits(p) /\ Report(p.by, error)
  <2>1. p.by \in Device BY DEF TypeOK
  <2>2. op[p.by].pc = "await" BY <1>2 DEF Awaits, At
  <2>3. QED BY <1>2, <2>1, <2>2, ErrorFacts DEF OnlyOf
<1>3. QED BY <1>1, <1>2 DEF Answered

\* Every step keeps the types (TypeOK).
LEMMA TypeStep == ASSUME TypeOK, OnePublication, [Next]_vars PROVE TypeOK'
<1> USE DEF TypeOK, At, Remote, Told, OnlyOf
<1>1. CASE UNCHANGED vars BY <1>1 DEF vars
<1>2. ASSUME NEW d \in Device, NEW s \in Snapshot, Begin(d, s) PROVE TypeOK'
  BY <1>2 DEF Begin, Operation, Idle
<1>3. ASSUME NEW d \in Device, Fetch(d) PROVE TypeOK'
  <2>1. CASE branch = op[d].expected BY <1>3, <2>1, GoFacts DEF Fetch
  <2>2. CASE branch # op[d].expected BY <1>3, <2>2, FinishFacts DEF Fetch
  <2>3. QED BY <2>1, <2>2
<1>4. ASSUME NEW d \in Device, CreateCommit(d) PROVE TypeOK'
  <2>1. op[d].expected \in Snapshot \cup {None} /\ op[d].new \in Snapshot
    BY <1>4 DEF CreateCommit, Operation
  <2>2. Append(Line(op[d].expected), op[d].new) \in Seq(Snapshot) BY <2>1, LineType
  <2>3. QED BY <1>4, <2>2, GoFacts DEF CreateCommit
<1>5. ASSUME NEW d \in Device, Abort(d) PROVE TypeOK'
  BY <1>5, FinishFacts DEF Abort
<1>6. ASSUME NEW d \in Device, Push(d) PROVE TypeOK'
  <2>1. op[d].new \in used /\ op[d].expected \in Snapshot \cup {None}
    BY <1>6 DEF Push, Operation
  <2>2. pushes' \subseteq [by : Device, new : Snapshot, lease : Snapshot \cup {None}]
    BY <1>6, <2>1 DEF Push
  <2>3. op' \in [Device -> Operation] /\ op'[d].pc = "await" /\ op'[d].new = op[d].new
    BY <1>6, GoFacts DEF Push
  <2>4. \A e \in Device : IF At(e, "idle")' THEN op'[e] = Idle ELSE op'[e].new \in used
    BY <1>6, <2>1, <2>3, GoFacts DEF Push
  <2>5. QED BY <1>6, <2>2, <2>3, <2>4 DEF Push
<1>7. ASSUME NEW d \in Device, PushError(d) PROVE TypeOK'
  BY <1>7, ErrorFacts DEF PushError
<1>8. ASSUME NEW d \in Device, Verify(d) PROVE TypeOK'
  BY <1>8, FinishFacts DEF Verify
<1>9. ASSUME NEW d \in Device, OutcomeUnknown(d) \/ Crash(d) PROVE TypeOK'
  BY <1>9, FinishFacts DEF OutcomeUnknown, Crash
<1>10. ASSUME NEW p \in pushes, Refuse(p) PROVE TypeOK'
  BY <1>10, AnswerFacts DEF Refuse
<1>11. ASSUME NEW p \in pushes, Receive(p) PROVE TypeOK'
  <2>1. /\ branch' = p.new /\ ever' = ever \cup {p.new} /\ pushes' = pushes \ {p}
        /\ order' = Append(order, p.new)
        /\ Answered(p, FALSE) /\ Told /\ UNCHANGED line
    BY <1>11 DEF Receive
  <2>2. op' \in [Device -> Operation] BY <2>1, AnswerFacts
  <2>3. \A e \in Device : IF At(e, "idle")' THEN op'[e] = Idle ELSE op'[e].new \in used
    BY <2>1, AnswerFacts
  <2>4. p.new \in used /\ p.new \in Snapshot BY DEF OnePublication
  <2>5. QED BY <2>1, <2>2, <2>3, <2>4
<1>12. QED
  BY <1>1, <1>2, <1>3, <1>4, <1>5, <1>6, <1>7, <1>8, <1>9, <1>10, <1>11 DEF Next, DeviceStep

-----------------------------------------------------------------------------
\* A step that only ends publications.
LEMMA FewerPublications ==
    ASSUME OnePublication, pushes' \subseteq pushes, UNCHANGED <<used, rejected>>,
           \A d \in Device : Unsent(d)' => Unsent(d) /\ op'[d].new = op[d].new,
           NEW gone, gone \subseteq {q.new : q \in pushes}, ever' = ever \cup gone,
           \A p \in pushes' : p.new \notin gone
    PROVE  OnePublication'
  BY DEF OnePublication

\* No step begins a second publication of a snapshot.
LEMMA OnePublicationStep == ASSUME IInv, [Next]_vars PROVE OnePublication'
<1> USE DEF IInv, OnePublication, Unsent, At, Remote, Told, OnlyOf
<1>1. CASE UNCHANGED vars BY <1>1 DEF vars
<1>2. ASSUME NEW d \in Device, NEW s \in Snapshot, Begin(d, s) PROVE OnePublication'
  BY <1>2 DEF Begin, TypeOK
<1>3. ASSUME NEW d \in Device, Fetch(d) PROVE OnePublication'
  BY <1>3, GoFacts, FinishFacts DEF Fetch
<1>4. ASSUME NEW d \in Device, CreateCommit(d) PROVE OnePublication'
  BY <1>4, GoFacts DEF CreateCommit
<1>5. ASSUME NEW d \in Device, Abort(d) \/ OutcomeUnknown(d) \/ Crash(d) PROVE OnePublication'
  BY <1>5, FinishFacts DEF Abort, OutcomeUnknown, Crash
<1>6. ASSUME NEW d \in Device, Push(d) PROVE OnePublication'
  BY <1>6, GoFacts DEF Push
<1>7. ASSUME NEW d \in Device, PushError(d) PROVE OnePublication'
  <2>1. \A e \in Device : Unsent(e)' => Unsent(e) /\ op'[e].new = op[e].new
    BY <1>7, ErrorFacts DEF PushError
  <2>2. QED BY <1>7, <2>1, FewerPublications DEF PushError
<1>8. ASSUME NEW d \in Device, Verify(d) PROVE OnePublication'
  BY <1>8, FinishFacts DEF Verify
<1>9. ASSUME NEW p \in pushes, Refuse(p) PROVE OnePublication'
  <2>1. \A e \in Device : Unsent(e)' => Unsent(e) /\ op'[e].new = op[e].new
    BY <1>9, AnswerFacts DEF Refuse
  <2>2. ever' = ever \cup {} BY <1>9 DEF Refuse
  <2>3. QED BY <1>9, <2>1, <2>2, FewerPublications DEF Refuse
<1>10. ASSUME NEW p \in pushes, Receive(p) PROVE OnePublication'
  <2>1. \A e \in Device : Unsent(e)' => Unsent(e) /\ op'[e].new = op[e].new
    BY <1>10, AnswerFacts DEF Receive
  <2>2. {p.new} \subseteq {q.new : q \in pushes} /\ \A q \in pushes' : q.new \notin {p.new}
    BY <1>10 DEF Receive
  <2>3. QED BY <1>10, <2>1, <2>2, FewerPublications DEF Receive
<1>11. QED
  BY <1>1, <1>2, <1>3, <1>4, <1>5, <1>6, <1>7, <1>8, <1>9, <1>10 DEF Next, DeviceStep

-----------------------------------------------------------------------------
\* A new commit changes no line but its own.
LEMMA CreateCommitFacts ==
    ASSUME IInv, NEW d \in Device, CreateCommit(d)
    PROVE  /\ \A c \in ever \cup {None} : Line(c)' = Line(c)
           /\ line'[op[d].new] = Append(Line(op[d].expected), op[d].new)
           /\ \A c \in Snapshot \ {op[d].new} : line'[c] = line[c]
           /\ op[d].new \in Snapshot \ ever
<1>1. op[d].new \in Snapshot \ ever
  BY DEF IInv, OnePublication, Unsent, CreateCommit, At, TypeOK
<1>2. /\ line'[op[d].new] = Append(Line(op[d].expected), op[d].new)
      /\ \A c \in Snapshot \ {op[d].new} : line'[c] = line[c]
  BY <1>1 DEF CreateCommit, IInv, TypeOK
<1>3. \A c \in ever \cup {None} : Line(c)' = Line(c)
  BY <1>1, <1>2 DEF Line, IInv, TypeOK
<1>4. QED BY <1>1, <1>2, <1>3

\* Lines change only where line does.
LEMMA SameLines == ASSUME UNCHANGED line, NEW c PROVE Line(c)' = Line(c)
  BY DEF Line

\* A step that builds and sends no commit.
LEMMA SameCommits ==
    ASSUME LinesGrow, UNCHANGED line, pushes' \subseteq pushes,
           ever \subseteq ever', branch' \in ever' \cup {None},
           \A d \in Device : op'[d].expected \in ever \cup {None},
           \A d \in Device : At(d, "push")' =>
               At(d, "push") /\ op'[d].new = op[d].new /\ op'[d].expected = op[d].expected
    PROVE  LinesGrow'
  BY DEF LinesGrow, Line

\* Every commit under way keeps extending the commit its lease names.
LEMMA LinesGrowStep == ASSUME IInv, [Next]_vars PROVE LinesGrow'
<1> USE DEF IInv, LinesGrow, At, Remote, Told, OnlyOf
<1>1. CASE UNCHANGED vars BY <1>1, SameLines DEF vars
<1>2. ASSUME NEW d \in Device, NEW s \in Snapshot, Begin(d, s) PROVE LinesGrow'
  <2>1. /\ UNCHANGED <<branch, line, pushes, ever>>
        /\ op'[d].pc = "fetch" /\ op'[d].expected = branch
        /\ \A e \in Device \ {d} : op'[e] = op[e]
    BY <1>2 DEF Begin, TypeOK
  <2>2. \A e \in Device : op'[e].expected \in ever \cup {None} BY <2>1
  <2>3. \A e \in Device : At(e, "push")' => op'[e] = op[e] /\ At(e, "push") BY <2>1
  <2>4. QED BY <2>1, <2>2, <2>3, SameCommits
<1>3. ASSUME NEW d \in Device, Fetch(d) PROVE LinesGrow'
  <2>1. CASE branch = op[d].expected
    BY <1>3, <2>1, GoFacts, SameCommits DEF Fetch
  <2>2. CASE branch # op[d].expected
    BY <1>3, <2>2, FinishFacts, SameCommits DEF Fetch, Idle
  <2>3. QED BY <2>1, <2>2
<1>4. ASSUME NEW d \in Device, CreateCommit(d) PROVE LinesGrow'
  <2>1. OnlyOf(d) /\ op'[d].pc = "push" /\ op'[d].new = op[d].new /\ op'[d].expected = op[d].expected
    BY <1>4, GoFacts DEF CreateCommit
  <2>2. At(d, "push")' => (line[op[d].new] = Append(Line(op[d].expected), op[d].new))'
    BY <1>4, <2>1, CreateCommitFacts
  <2>3. ASSUME NEW e \in Device, At(e, "push")', e # d
        PROVE  (line[op[e].new] = Append(Line(op[e].expected), op[e].new))'
    <3>1. op'[e] = op[e] /\ At(e, "push") /\ op[e].expected \in ever \cup {None} BY <2>1, <2>3
    <3>2. op[e].new \in Snapshot \ {op[d].new}
      BY <1>4, <2>3, <3>1 DEF OnePublication, Unsent, CreateCommit, TypeOK
    <3>3. line'[op[e].new] = line[op[e].new] /\ Line(op[e].expected)' = Line(op[e].expected)
      BY <1>4, <3>1, <3>2, CreateCommitFacts DEF Line
    <3>4. QED BY <3>1, <3>3
  <2>4. ASSUME NEW p \in pushes
        PROVE  p.lease \in ever \cup {None} /\ line'[p.new] = Append(Line(p.lease)', p.new)
    <3>1. p.new \in Snapshot \ {op[d].new} /\ p.lease \in ever \cup {None}
      BY <1>4 DEF OnePublication, Unsent, CreateCommit, TypeOK
    <3>2. QED BY <1>4, <3>1, CreateCommitFacts
  <2>5. QED BY <1>4, <2>1, <2>2, <2>3, <2>4 DEF CreateCommit
<1>5. ASSUME NEW d \in Device, Abort(d) \/ OutcomeUnknown(d) \/ Crash(d) PROVE LinesGrow'
  BY <1>5, FinishFacts, SameLines DEF Abort, OutcomeUnknown, Crash, Idle
<1>6. ASSUME NEW d \in Device, Push(d) PROVE LinesGrow'
  <2>1. OnlyOf(d) /\ op'[d].pc = "await" /\ op'[d].expected = op[d].expected
    BY <1>6, GoFacts DEF Push
  <2>2. \A e \in Device : op'[e].expected \in ever \cup {None} BY <2>1
  <2>3. \A e \in Device : At(e, "push")' => op'[e] = op[e] /\ At(e, "push") BY <2>1
  <2>4. \A c : Line(c)' = Line(c) BY <1>6, SameLines DEF Push
  <2>5. \A p \in pushes' :
            p.lease \in ever \cup {None} /\ line'[p.new] = Append(Line(p.lease), p.new)
    BY <1>6 DEF Push
  <2>6. UNCHANGED <<branch, line, ever>> BY <1>6 DEF Push
  <2>7. \A e \in Device : At(e, "push")' =>
            line'[op'[e].new] = Append(Line(op[e].expected), op'[e].new)
    BY <2>3, <2>6
  <2>8. QED BY <2>2, <2>3, <2>4, <2>5, <2>6, <2>7 DEF Line
<1>7. ASSUME NEW d \in Device, PushError(d) PROVE LinesGrow'
  BY <1>7, ErrorFacts, SameCommits DEF PushError
<1>8. ASSUME NEW d \in Device, Verify(d) PROVE LinesGrow'
  BY <1>8, FinishFacts, SameLines DEF Verify, Idle
<1>9. ASSUME NEW p \in pushes, Refuse(p) \/ Receive(p) PROVE LinesGrow'
  <2>1. PICK error \in BOOLEAN : Answered(p, error) BY <1>9 DEF Refuse, Receive
  <2>2. \A d \in Device :
            /\ op'[d].expected \in ever \cup {None}
            /\ At(d, "push")' =>
                   At(d, "push") /\ op'[d].new = op[d].new /\ op'[d].expected = op[d].expected
    BY <2>1, AnswerFacts
  <2>3. /\ UNCHANGED line /\ pushes' \subseteq pushes /\ ever \subseteq ever'
        /\ branch' \in ever' \cup {None}
    BY <1>9 DEF Refuse, Receive
  <2>4. QED BY <2>2, <2>3, SameCommits
<1>10. QED
  BY <1>1, <1>2, <1>3, <1>4, <1>5, <1>6, <1>7, <1>8, <1>9 DEF Next, DeviceStep

-----------------------------------------------------------------------------
\* A push that holds its lease appends its commit to the history.
LEMMA ReceiveKeepsHistory ==
    ASSUME IInv, NEW p \in pushes, Receive(p) PROVE HistoryIsTheLine'
<1> DEFINE old == Line(branch)
           new == Line(branch)'
<1>1. new = Append(old, p.new) /\ old \in Seq(Snapshot) /\ p.new \in Snapshot \ ever
  BY LineType DEF IInv, Receive, Told, LinesGrow, OnePublication, TypeOK, Line
<1>2. Len(new) = Len(old) + 1 /\ Len(old) \in Nat BY <1>1
<1>3. ever' = ever \cup {p.new} /\ line' = line /\ order' = Append(order, p.new) BY DEF Receive
<1>4. old = order BY DEF IInv, HistoryIsTheLine
<1>5. new = order' BY <1>1, <1>3, <1>4
<1>6. /\ \A i \in 1 .. Len(old) : new[i] = old[i] /\ old[i] \in ever
      /\ new[Len(old) + 1] = p.new
      /\ DOMAIN new = 1 .. Len(old) + 1 /\ DOMAIN old = 1 .. Len(old)
  <2>1. \A i \in 1 .. Len(old) : new[i] = old[i] BY <1>1
  <2>2. new[Len(old) + 1] = p.new BY <1>1
  <2>3. DOMAIN new = 1 .. Len(old) + 1 /\ DOMAIN old = 1 .. Len(old) BY <1>1
  <2>4. \A i \in 1 .. Len(old) : old[i] \in ever BY <1>4, <2>3 DEF IInv, HistoryIsTheLine
  <2>5. QED BY <2>1, <2>2, <2>3, <2>4
<1>7. ever' = {new[i] : i \in DOMAIN new}
  <2>1. ever = {old[i] : i \in 1 .. Len(old)} BY <1>4, <1>6 DEF IInv, HistoryIsTheLine
  <2>2. {new[i] : i \in DOMAIN new} = {old[i] : i \in 1 .. Len(old)} \cup {p.new}
    <3> HIDE DEF new, old
    <3>1. DOMAIN new = (1 .. Len(old)) \cup {Len(old) + 1} BY <1>2, <1>6
    <3>2. QED BY <1>6, <3>1
  <2>3. QED BY <1>3, <2>1, <2>2
<1>8. \A i, j \in DOMAIN new : new[i] = new[j] => i = j
  <2>1. \A i, j \in 1 .. Len(old) : old[i] = old[j] => i = j
    BY <1>4, <1>6 DEF IInv, HistoryIsTheLine
  <2>2. QED BY <1>1, <1>2, <1>6, <2>1
<1>9. ASSUME NEW i \in DOMAIN new PROVE SubSeq(new, 1, i) = line'[new[i]]
  <2>1. CASE i = Len(old) + 1
    <3>1. SubSeq(new, 1, i) = new BY <1>1, <1>2, <2>1
    <3>2. new[i] = p.new /\ line[p.new] = new
      BY <1>1, <2>1 DEF IInv, LinesGrow, Receive
    <3>3. QED BY <3>1, <3>2, <1>3
  <2>2. CASE i \in 1 .. Len(old)
    <3>1. SubSeq(new, 1, i) = SubSeq(old, 1, i) BY <1>1, <2>2
    <3>2. new[i] = old[i] BY <1>1, <2>2
    <3>3. QED BY <3>1, <3>2, <1>1, <1>3, <2>2 DEF IInv, HistoryIsTheLine
  <2>3. QED BY <1>1, <1>2, <2>1, <2>2
<1>10. QED BY <1>5, <1>7, <1>8, <1>9 DEF HistoryIsTheLine

\* Every other step leaves the history as it is.
LEMMA HistoryStep == ASSUME IInv, [Next]_vars PROVE HistoryIsTheLine'
<1>1. ASSUME UNCHANGED <<branch, line, ever, order>> PROVE HistoryIsTheLine'
  BY <1>1 DEF IInv, HistoryIsTheLine, Line
<1>2. ASSUME NEW d \in Device, CreateCommit(d) PROVE HistoryIsTheLine'
  <2>1. branch' = branch /\ ever' = ever /\ order' = order /\ Line(branch)' = Line(branch)
    BY <1>2, CreateCommitFacts DEF CreateCommit, Remote, IInv, LinesGrow, Line
  <2>2. \A i \in DOMAIN Line(branch) : Line(branch)[i] \in ever /\ line'[Line(branch)[i]] = line[Line(branch)[i]]
    <3>1. \A i \in DOMAIN Line(branch) : Line(branch)[i] \in ever
      BY DEF IInv, HistoryIsTheLine
    <3>2. \A c \in ever : line'[c] = line[c]
      BY <1>2, CreateCommitFacts DEF IInv, TypeOK
    <3>3. QED BY <3>1, <3>2
  <2>3. QED BY <2>1, <2>2 DEF IInv, HistoryIsTheLine
<1>3. ASSUME NEW p \in pushes, Receive(p) PROVE HistoryIsTheLine'
  BY <1>3, ReceiveKeepsHistory
<1>4. QED
  BY <1>1, <1>2, <1>3 DEF Next, DeviceStep, vars, Begin, Fetch, Abort, Push, PushError, Verify,
     OutcomeUnknown, Crash, Refuse, Remote

-----------------------------------------------------------------------------
\* A device is told "published" only of the branch it reads.
LEMMA ConfirmedStep == ASSUME IInv, [Next]_vars PROVE (published \subseteq ever)'
<1>1. ASSUME UNCHANGED published, ever \subseteq ever' PROVE (published \subseteq ever)'
  BY <1>1 DEF IInv
<1>2. ASSUME NEW d \in Device, Verify(d) PROVE (published \subseteq ever)'
  BY <1>2, NoneAssumption DEF Verify, Remote, IInv, LinesGrow, TypeOK, At
<1>3. QED
  BY <1>1, <1>2 DEF Next, DeviceStep, vars, Begin, Fetch, CreateCommit, Abort, Push, PushError,
     OutcomeUnknown, Crash, Refuse, Receive, Remote, Told

\* The invariant is inductive.
LEMMA NextIInv == IInv /\ [Next]_vars => IInv'
<1> SUFFICES ASSUME IInv, [Next]_vars PROVE IInv'
  OBVIOUS
<1>1. TypeOK' BY TypeStep DEF IInv
<1>2. QED BY <1>1, OnePublicationStep, LinesGrowStep, HistoryStep, ConfirmedStep DEF IInv

\* The invariant holds of every behavior of the branch.
THEOREM IInvHolds == Spec => []IInv
  BY InitIInv, NextIInv, PTL DEF Spec

\* Type correctness of the publication to a Git branch (TypeOK).
THEOREM GitTypeCorrect == Spec => []TypeOK
<1>1. IInv => TypeOK BY DEF IInv
<1>2. QED BY <1>1, IInvHolds, PTL

\* A part of a sequence without repetitions has none.
LEMMA NewestHasNoRepetition ==
    ASSUME NEW s \in Seq(Snapshot),
           \A i, j \in DOMAIN s : s[i] = s[j] => i = j,
           NEW i \in DOMAIN Newest(s), NEW j \in DOMAIN Newest(s), Newest(s)[i] = Newest(s)[j]
    PROVE  i = j
<1>1. CASE Len(s) <= MaxListed BY <1>1 DEF Newest
<1>2. CASE Len(s) > MaxListed
  <2> DEFINE first == Len(s) - MaxListed + 1
  <2>1. first \in 1 .. Len(s) /\ Len(s) \in Nat BY <1>2
  <2>2. Newest(s) = SubSeq(s, first, Len(s)) BY <1>2 DEF Newest
  <2>3. /\ i \in 1 .. MaxListed /\ j \in 1 .. MaxListed
        /\ Newest(s)[i] = s[first + i - 1] /\ Newest(s)[j] = s[first + j - 1]
    BY <2>1, <2>2
  <2>4. first + i - 1 \in DOMAIN s /\ first + j - 1 \in DOMAIN s BY <2>1, <2>3
  <2>5. first + i - 1 = first + j - 1 BY <2>3, <2>4
  <2>6. QED BY <2>1, <2>3, <2>5
<1>3. QED BY <1>1, <1>2

\* listHistory shows the newest of the snapshots that were ever active, in their
\* order, and each of them, and no other, can be named by its id, whichever pushes
\* arrive late (HistoryIsComplete).
THEOREM GitHistoryIsComplete == Spec => []HistoryIsComplete
<1>1. ASSUME IInv PROVE HistoryIsComplete
  <2>1. Listed = Newest(order) BY <1>1 DEF IInv, HistoryIsTheLine, Listed
  <2>2. \A i, j \in DOMAIN Listed : Listed[i] = Listed[j] => i = j
    BY <1>1, <2>1, NewestHasNoRepetition DEF IInv, TypeOK, HistoryIsTheLine
  <2>3. QED BY <2>1, <2>2 DEF HistoryIsComplete, Resolves
<1>2. IInv => HistoryIsComplete BY <1>1
<1>3. QED BY <1>2, IInvHolds, PTL

\* What was reported as published stands on the branch, right behind the
\* head its publisher had reviewed (PublishedStandsBehindReviewed).
THEOREM GitPublishedStandsBehindReviewed == Spec => []PublishedStandsBehindReviewed
<1>1. ASSUME IInv PROVE PublishedStandsBehindReviewed
  <2>1. SUFFICES ASSUME NEW s \in published
                 PROVE \E i \in DOMAIN Line(branch) : SubSeq(Line(branch), 1, i) = line[s]
    BY DEF PublishedStandsBehindReviewed
  <2>2. PICK i \in DOMAIN Line(branch) : Line(branch)[i] = s
    BY <1>1 DEF IInv, HistoryIsTheLine
  <2>3. QED BY <1>1, <2>2 DEF IInv, HistoryIsTheLine
<1>2. IInv => PublishedStandsBehindReviewed BY <1>1
<1>3. QED BY <1>2, IInvHolds, PTL

-----------------------------------------------------------------------------
(* Refinement: what a step does to the publications under way. *)

OfDevice(d) == [new |-> op[d].new, expected |-> op[d].expected]
OfPush(p) == [new |-> p.new, expected |-> p.lease]

\* The publications under way are those of the devices and of the pushes.
LEMMA PendingIs ==
    Pending = {OfDevice(d) : d \in {e \in Device : Unsent(e)}} \cup {OfPush(p) : p \in pushes}
  BY DEF Pending, OfDevice, OfPush, Unsent

\* The same, after a step.
LEMMA PendingIsPrime ==
    Pending' = {OfDevice(d)' : d \in {e \in Device : Unsent(e)'}} \cup {OfPush(p) : p \in pushes'}
  BY DEF Pending, OfDevice, OfPush, Unsent

\* No device begins or ends a publication.
SameUnsent ==
    \A d \in Device : (Unsent(d)' <=> Unsent(d)) /\ (Unsent(d) => OfDevice(d)' = OfDevice(d))

\* Nothing begins or ends: the publications stay.
LEMMA SamePending == ASSUME SameUnsent, UNCHANGED pushes PROVE Pending' = Pending
<1>1. {OfDevice(d)' : d \in {e \in Device : Unsent(e)'}} = {OfDevice(d) : d \in {e \in Device : Unsent(e)}}
  BY DEF SameUnsent
<1>2. QED BY <1>1, PendingIs, PendingIsPrime

\* A device that gives up ends its publication and no other.
LEMMA DeviceEnds ==
    ASSUME OnePublication, NEW d \in Device, Unsent(d), ~Unsent(d)', OnlyOf(d), UNCHANGED pushes
    PROVE  /\ Pending' = Pending \ {OfDevice(d)}
           /\ Pending' = {q \in Pending : q.new # op[d].new}
<1>1. \A e \in Device \ {d} : (Unsent(e)' <=> Unsent(e)) /\ OfDevice(e)' = OfDevice(e)
  BY DEF OnlyOf, Unsent, OfDevice
<1>2. \A e \in Device \ {d} : Unsent(e) => OfDevice(e).new # op[d].new /\ OfDevice(e) # OfDevice(d)
  BY DEF OnePublication, OfDevice
<1>3. \A p \in pushes : OfPush(p).new # op[d].new /\ OfPush(p) # OfDevice(d)
  BY DEF OnePublication, OfDevice, OfPush
<1>4. OfDevice(d).new = op[d].new BY DEF OfDevice
<1>5. QED BY <1>1, <1>2, <1>3, <1>4, PendingIs, PendingIsPrime

\* A push that is received or refused ends its publication and no other.
LEMMA PushEnds ==
    ASSUME OnePublication, NEW p \in pushes, SameUnsent, pushes' = pushes \ {p}
    PROVE  OfPush(p) \in Pending /\ Pending' = Pending \ {OfPush(p)}
<1>1. \A d \in Device : Unsent(d) => OfDevice(d) # OfPush(p)
  BY DEF OnePublication, OfDevice, OfPush
<1>2. \A q \in pushes \ {p} : OfPush(q) # OfPush(p)
  BY DEF OnePublication, OfPush
<1>3. QED BY <1>1, <1>2, PendingIs, PendingIsPrime DEF SameUnsent

\* Sending a push hands the publication over to the network.
LEMMA PushMoves ==
    ASSUME TypeOK, NEW d \in Device, Push(d) PROVE Pending' = Pending
<1>1. OnlyOf(d) /\ Unsent(d) /\ ~Unsent(d)'
  BY GoFacts DEF Push, Unsent, At
<1>2. \A e \in Device \ {d} : (Unsent(e)' <=> Unsent(e)) /\ OfDevice(e)' = OfDevice(e)
  BY <1>1 DEF OnlyOf, Unsent, OfDevice
<1> DEFINE p == [by |-> d, new |-> op[d].new, lease |-> op[d].expected]
<1>3. pushes' = pushes \cup {p} BY DEF Push
<1>4. OfPush(p) = OfDevice(d) BY DEF OfPush, OfDevice
<1>5. QED
  <2> HIDE DEF p
  <2>1. QED BY <1>1, <1>2, <1>3, <1>4, PendingIs, PendingIsPrime

\* Beginning a publication adds one.
LEMMA BeginAdds ==
    ASSUME TypeOK, NEW d \in Device, NEW s \in Snapshot, Begin(d, s)
    PROVE  Pending' = Pending \cup {[new |-> s, expected |-> branch]}
<1>1. OnlyOf(d) /\ ~Unsent(d) /\ Unsent(d)' /\ OfDevice(d)' = [new |-> s, expected |-> branch]
  BY DEF Begin, TypeOK, Operation, OnlyOf, Unsent, At, OfDevice
<1>2. \A e \in Device \ {d} : (Unsent(e)' <=> Unsent(e)) /\ OfDevice(e)' = OfDevice(e)
  BY <1>1 DEF OnlyOf, Unsent, OfDevice
<1>3. pushes' = pushes BY DEF Begin, Remote
<1>4. QED BY <1>1, <1>2, <1>3, PendingIs, PendingIsPrime

\* A device that stops without an answer is a Forget, or nothing.
LEMMA FinishEnds ==
    ASSUME IInv, NEW d \in Device, Finish(d), UNCHANGED <<branch, ever, pushes, used, published, rejected>>
    PROVE  [Promise!Next]_Promise!vars
<1>1. OnlyOf(d) /\ ~Unsent(d)' BY FinishFacts DEF IInv, Unsent
<1>2. CASE Unsent(d)
  <2>1. Pending' = Pending \ {OfDevice(d)} BY <1>1, <1>2, DeviceEnds DEF IInv
  <2>2. OfDevice(d) \in Promise!Publication
    BY <1>2 DEF IInv, TypeOK, Operation, OnePublication, OfDevice, Promise!Publication
  <2>3. Promise!Forget(OfDevice(d)) BY <2>1 DEF Promise!Forget
  <2>4. QED BY <2>2, <2>3 DEF Promise!Next
<1>3. CASE ~Unsent(d)
  <2>1. SameUnsent BY <1>1, <1>3 DEF SameUnsent, OnlyOf, Unsent, OfDevice
  <2>2. QED BY <2>1, SamePending DEF Promise!vars
<1>4. QED BY <1>2, <1>3

\* Every step is a step of RemoteHead, or none.
LEMMA RefinementStep == ASSUME IInv, [Next]_vars PROVE [Promise!Next]_Promise!vars
<1> USE DEF IInv
<1>1. CASE UNCHANGED vars
  <2>1. SameUnsent BY <1>1 DEF vars, SameUnsent, Unsent, OfDevice
  <2>2. QED BY <1>1, <2>1, SamePending DEF vars, Promise!vars
<1>2. ASSUME NEW d \in Device, NEW s \in Snapshot, Begin(d, s) PROVE [Promise!Next]_Promise!vars
  <2> DEFINE q == [new |-> s, expected |-> branch]
  <2>1. q \in Promise!Publication BY DEF TypeOK, Promise!Publication
  <2>2. Promise!Ask(q) BY <1>2, BeginAdds DEF Begin, Remote, Promise!Ask
  <2>3. QED BY <2>1, <2>2 DEF Promise!Next
<1>3. ASSUME NEW d \in Device, Fetch(d) PROVE [Promise!Next]_Promise!vars
  <2>1. CASE branch = op[d].expected
    <3>1. SameUnsent
      BY <1>3, <2>1, GoFacts DEF Fetch, SameUnsent, OnlyOf, Unsent, OfDevice, At
    <3>2. QED BY <1>3, <2>1, <3>1, SamePending DEF Fetch, Remote, Promise!vars
  <2>2. CASE branch # op[d].expected
    <3>1. Unsent(d) /\ ~Unsent(d)' /\ OnlyOf(d)
      BY <1>3, <2>2, FinishFacts DEF Fetch, Unsent, At
    <3>2. op[d].new \in used \ ever /\ op[d].new \in Snapshot
      BY <3>1 DEF OnePublication, TypeOK
    <3>3. Promise!Reject(op[d].new)
      BY <1>3, <2>2, <3>1, <3>2, DeviceEnds DEF Fetch, Remote, Promise!Reject
    <3>4. QED BY <3>2, <3>3 DEF Promise!Next
  <2>3. QED BY <2>1, <2>2
<1>4. ASSUME NEW d \in Device, CreateCommit(d) PROVE [Promise!Next]_Promise!vars
  <2>1. SameUnsent
    BY <1>4, GoFacts DEF CreateCommit, SameUnsent, OnlyOf, Unsent, OfDevice, At
  <2>2. QED BY <1>4, <2>1, SamePending DEF CreateCommit, Remote, Told, Promise!vars
<1>5. ASSUME NEW d \in Device, Abort(d) \/ OutcomeUnknown(d) \/ Crash(d)
      PROVE  [Promise!Next]_Promise!vars
  BY <1>5, FinishEnds DEF Abort, OutcomeUnknown, Crash, Remote, Told
<1>6. ASSUME NEW d \in Device, Push(d) PROVE [Promise!Next]_Promise!vars
  BY <1>6, PushMoves DEF Push, Told, Promise!vars
<1>7. ASSUME NEW d \in Device, PushError(d) PROVE [Promise!Next]_Promise!vars
  <2>1. SameUnsent
    BY <1>7, ErrorFacts DEF PushError, SameUnsent, OnlyOf, Unsent, OfDevice, At
  <2>2. QED BY <1>7, <2>1, SamePending DEF PushError, Remote, Told, Promise!vars
<1>8. ASSUME NEW d \in Device, Verify(d) PROVE [Promise!Next]_Promise!vars
  <2>1. OnlyOf(d) /\ ~Unsent(d) /\ ~Unsent(d)'
    BY <1>8, FinishFacts DEF Verify, Unsent, At
  <2>2. SameUnsent BY <2>1 DEF SameUnsent, OnlyOf, Unsent, OfDevice
  <2>3. Pending' = Pending BY <1>8, <2>2, SamePending DEF Verify, Remote
  <2>4. CASE branch = op[d].new
    <3>1. op[d].new \in ever /\ op[d].new \in Snapshot
      BY <1>8, <2>4, NoneAssumption DEF Verify, LinesGrow, TypeOK, At
    <3>2. Promise!Confirm(op[d].new)
      BY <1>8, <2>3, <2>4, <3>1 DEF Verify, Remote, Promise!Confirm
    <3>3. QED BY <3>1, <3>2 DEF Promise!Next
  <2>5. CASE branch # op[d].new
    BY <1>8, <2>3, <2>5 DEF Verify, Remote, Promise!vars
  <2>6. QED BY <2>4, <2>5
<1>9. ASSUME NEW p \in pushes, Refuse(p) \/ Receive(p) PROVE [Promise!Next]_Promise!vars
  <2>1. PICK error \in BOOLEAN : Answered(p, error) BY <1>9 DEF Refuse, Receive
  <2>2. SameUnsent BY <2>1, AnswerFacts DEF SameUnsent, Unsent, OfDevice
  <2>3. OfPush(p) \in Pending /\ Pending' = Pending \ {OfPush(p)}
    BY <1>9, <2>2, PushEnds DEF Refuse, Receive
  <2>4. OfPush(p) \in Promise!Publication
    BY DEF TypeOK, OfPush, Promise!Publication
  <2>5. CASE Refuse(p)
    <3>1. Promise!Forget(OfPush(p)) BY <2>3, <2>5 DEF Refuse, Told, Promise!Forget
    <3>2. QED BY <2>4, <3>1 DEF Promise!Next
  <2>6. CASE Receive(p)
    <3>1. Promise!Replace(OfPush(p))
      BY <2>3, <2>6 DEF Receive, Told, OfPush, Promise!Replace
    <3>2. QED BY <2>4, <3>1 DEF Promise!Next
  <2>7. QED BY <1>9, <2>5, <2>6
<1>10. QED
  BY <1>1, <1>2, <1>3, <1>4, <1>5, <1>6, <1>7, <1>8, <1>9 DEF Next, DeviceStep

\* Publication to a Git branch (git-backend.ts) implements RemoteHead: the
\* head is replaced only while it is the reviewed one, and answers stay true.
THEOREM GitKeepsPromise == Spec => ImplementsRemoteHead
<1>1. Init => Promise!Init
  <2>1. Init => Pending = {} BY DEF Init, Pending, Idle
  <2>2. QED BY <2>1 DEF Init, Promise!Init
<1>2. IInv /\ [Next]_vars => [Promise!Next]_Promise!vars BY RefinementStep
<1>3. QED BY <1>1, <1>2, IInvHolds, PTL DEF Spec, ImplementsRemoteHead, Promise!Spec

-----------------------------------------------------------------------------
(* What a caller may conclude from an answer: an invariant of RemoteHead,  *)
(* seen through the refinement.                                            *)

\* A snapshot has one publication, which is pending, active or given up.
OneOutcome ==
    /\ used \subseteq Snapshot /\ ever \cup rejected \subseteq used
    /\ Pending \subseteq Promise!Publication
    /\ \A q \in Pending : q.new \in used \ (ever \cup rejected)
    /\ \A q, r \in Pending : q.new = r.new => q = r
    /\ Promise!AnswersAreTrue

LEMMA OneOutcomeInit == Promise!Init => OneOutcome
  BY DEF Promise!Init, OneOutcome, Promise!AnswersAreTrue

LEMMA OneOutcomeStep == ASSUME OneOutcome, [Promise!Next]_Promise!vars PROVE OneOutcome'
<1> USE DEF OneOutcome, Promise!AnswersAreTrue, Promise!Publication
<1>1. CASE UNCHANGED Promise!vars BY <1>1 DEF Promise!vars
<1>2. ASSUME NEW q \in Promise!Publication, Promise!Ask(q) PROVE OneOutcome'
  BY <1>2 DEF Promise!Ask
<1>3. ASSUME NEW q \in Promise!Publication, Promise!Replace(q) PROVE OneOutcome'
  BY <1>3 DEF Promise!Replace
<1>4. ASSUME NEW q \in Promise!Publication, Promise!Forget(q) PROVE OneOutcome'
  BY <1>4 DEF Promise!Forget
<1>5. ASSUME NEW s \in Snapshot, Promise!Confirm(s) PROVE OneOutcome'
  BY <1>5 DEF Promise!Confirm
<1>6. ASSUME NEW s \in Snapshot, Promise!Reject(s) PROVE OneOutcome'
  BY <1>6 DEF Promise!Reject
<1>7. QED BY <1>1, <1>2, <1>3, <1>4, <1>5, <1>6 DEF Promise!Next

\* Who was told "rejected" never becomes active, who was told "published" was
\* active: publishSnapshot of git-backend.ts (AnswersAreTrue of RemoteHead).
THEOREM GitAnswersStayTrue == Spec => []Promise!AnswersAreTrue
<1>1. OneOutcome => Promise!AnswersAreTrue BY DEF OneOutcome
<1>2. QED
  BY OneOutcomeInit, OneOutcomeStep, <1>1, GitKeepsPromise, PTL DEF ImplementsRemoteHead, Promise!Spec
=============================================================================
