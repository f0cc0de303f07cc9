------------------------ MODULE PointerBackend_proofs ------------------------
(***************************************************************************)
(* An object store that honours conditions keeps the promise of            *)
(* RemoteHead, and a history that lists what was active, for any number of *)
(* devices and snapshots and any limit of the history.                     *)
(*                                                                         *)
(* The argument: a store that ignores conditions is given nothing; a       *)
(* snapshot has at most one publication under way, at its publisher or in  *)
(* a PUT; and a list on its way to the store extends the one it replaces.  *)
(***************************************************************************)
EXTENDS PointerBackend, FiniteSetTheorems, SequenceTheorems, TLAPS

\* A store that ignores conditions is only probed.
OnlyProbed ==
    store = "lax" =>
        latest = None /\ requests = {} /\ \A d \in Device : op[d].pc \in {"idle", "probe"}

Unsent(d) == op[d].pc \in {"probe", "stage", "compare", "commit"}
Pointers == {r \in requests : r.file = "latest"}

\* Every snapshot has at most one publication under way.
OnePublication ==
    /\ \A d \in Device : Unsent(d) =>
        /\ op[d].new \in used \ (ever \cup rejected)
        /\ \A e \in Device : Unsent(e) /\ op[e].new = op[d].new => e = d
        /\ \A r \in Pointers : r.new # op[d].new
    /\ \A r \in Pointers :
        /\ r.new \in used \ (ever \cup rejected)
        /\ \A q \in Pointers : q.new = r.new => q = r

\* Whatever is about to name a snapshot, the snapshot is stored.
NamedWillBeStored ==
    /\ NamedIsStored
    /\ \A d \in Device :
        /\ ~At(d, "idle") /\ ~At(d, "probe") /\ ~At(d, "stage") => op[d].new \in stored
        /\ At(d, "append") => Entries(op[d].seen) \subseteq stored
    /\ \A r \in requests :
        IF r.file = "latest" THEN r.new \in stored ELSE Entries(r.new) \subseteq stored

Distinct(list) ==
    \A i, j \in DOMAIN Listed(list) : Listed(list)[i] = Listed(list)[j] => i = j

WasActive(list) == Entries(list) \subseteq ever /\ Distinct(list)

\* Whatever is about to become the history lists what was active, and
\* extends the list it replaces.
HistoryWillBeGood ==
    /\ latest \in ever \cup {None} /\ WasActive(history)
    /\ \A d \in Device :
        /\ op[d].pc \in {"list", "append"} => op[d].new \in ever
        /\ At(d, "append") => WasActive(op[d].seen) /\ op[d].new \notin Entries(op[d].seen)
    /\ \A r \in requests : r.file = "history" =>
        WasActive(r.new) /\ \E s \in Snapshot : r.new = Extended(r.match, s)

IInv == TypeOK /\ OnlyProbed /\ OnePublication /\ NamedWillBeStored /\ HistoryWillBeGood

USE NoneAssumption

-----------------------------------------------------------------------------
(* Histories. *)

\* A history is a sequence that is not too long.
LEMMA ListsAre == Lists = {l \in Seq(Snapshot) : Len(l) <= Limit}
<1>1. ASSUME NEW l \in Lists PROVE l \in Seq(Snapshot) /\ Len(l) <= Limit
  <2>1. PICK n \in 0 .. Limit : l \in [1 .. n -> Snapshot] BY DEF Lists
  <2>2. n \in Nat /\ n <= Limit BY <2>1, LimitAssumption
  <2>3. QED BY <2>1, <2>2
<1>2. ASSUME NEW l \in Seq(Snapshot), Len(l) <= Limit PROVE l \in Lists
  <2>1. Len(l) \in 0 .. Limit /\ l \in [1 .. Len(l) -> Snapshot] BY <1>2, LimitAssumption
  <2>2. QED BY <2>1 DEF Lists
<1>3. QED BY <1>1, <1>2

LEMMA ListedType ==
    ASSUME NEW list \in Lists \cup {None}
    PROVE  Listed(list) \in Seq(Snapshot) /\ Len(Listed(list)) \in 0 .. Limit
  BY ListsAre, LimitAssumption DEF Listed

\* Extended appends a snapshot and drops the oldest of a full history.
LEMMA ExtendedIs ==
    ASSUME NEW list \in Lists \cup {None}, NEW s \in Snapshot,
           NEW k \in {0, 1}, k = IF Len(Listed(list)) < Limit THEN 0 ELSE 1
    PROVE  LET old == Listed(list)
               new == Extended(list, s)
           IN  /\ new \in Lists /\ Listed(new) = new
               /\ DOMAIN new = 1 .. Len(old) + 1 - k
               /\ \A i \in 1 .. Len(old) + 1 - k :
                      new[i] = IF i + k = Len(old) + 1 THEN s ELSE old[i + k]
<1> DEFINE old == Listed(list)
           all == Append(old, s)
           new == Extended(list, s)
<1>1. old \in Seq(Snapshot) /\ Len(old) \in 0 .. Limit /\ Limit \in Nat
  BY ListedType, LimitAssumption
<1>2. all \in Seq(Snapshot) /\ Len(all) = Len(old) + 1 /\ Len(all) \in Nat
  BY <1>1
<1>3. new = SubSeq(all, 1 + k, Len(all))
  BY <1>1, <1>2 DEF Extended
<1>4. \A i \in 1 .. Len(all) : all[i] = IF i = Len(old) + 1 THEN s ELSE old[i]
  BY <1>1
<1>5. new \in Seq(Snapshot) /\ Len(new) = Len(old) + 1 - k
  <2> HIDE DEF all, new, old
  <2>1. 1 + k \in Int /\ Len(all) \in Int /\ \A i \in 1 + k .. Len(all) : all[i] \in Snapshot
    BY <1>1, <1>2
  <2>2. new \in Seq(Snapshot) /\ Len(new) = IF 1 + k <= Len(all) THEN Len(all) - (1 + k) + 1 ELSE 0
    BY <1>3, <2>1, SubSeqProperties
  <2>3. Len(all) - (1 + k) + 1 = Len(old) + 1 - k BY <1>1, <1>2
  <2>4. 1 + k <= Len(all) \/ Len(old) + 1 - k = 0 BY <1>1, <1>2
  <2>5. QED BY <2>2, <2>3, <2>4
<1>6. \A i \in 1 .. Len(new) : new[i] = all[i + k]
  BY <1>1, <1>2, <1>3, <1>5
<1>7. new \in Lists /\ Listed(new) = new
  BY <1>1, <1>5, ListsAre DEF Listed
<1>8. QED BY <1>1, <1>2, <1>4, <1>5, <1>6, <1>7

LEMMA ExtendedFacts ==
    ASSUME NEW list \in Lists \cup {None}, NEW s \in Snapshot
    PROVE  LET new == Extended(list, s)
           IN  /\ new \in Lists
               /\ Entries(new) \subseteq Entries(list) \cup {s}
               /\ Distinct(list) /\ s \notin Entries(list) => Distinct(new)
               /\ Len(Listed(list)) < Limit => Entries(list) \subseteq Entries(new)
               /\ Entries(list) \ {Listed(list)[1]} \subseteq Entries(new)
<1> DEFINE old == Listed(list)
           new == Extended(list, s)
           k == IF Len(old) < Limit THEN 0 ELSE 1
           n == Len(old)
<1>1. n \in Nat /\ k \in {0, 1} /\ (k = 0 <=> n < Limit) /\ DOMAIN old = 1 .. n
  BY ListedType, LimitAssumption
<1>2. /\ new \in Lists /\ Listed(new) = new /\ DOMAIN new = 1 .. n + 1 - k
      /\ \A i \in 1 .. n + 1 - k : new[i] = IF i + k = n + 1 THEN s ELSE old[i + k]
  BY <1>1, ExtendedIs
<1>3. Entries(new) = {new[i] : i \in 1 .. n + 1 - k} /\ Entries(list) = {old[i] : i \in 1 .. n}
  BY <1>1, <1>2 DEF Entries
<1> HIDE DEF old, new, k, n
<1>4. Entries(new) \subseteq Entries(list) \cup {s}
  <2>1. SUFFICES ASSUME NEW i \in 1 .. n + 1 - k PROVE new[i] \in Entries(list) \cup {s}
    BY <1>3
  <2>2. i + k = n + 1 \/ i + k \in 1 .. n BY <1>1
  <2>3. QED BY <1>2, <1>3, <2>2
<1>5. \A i \in 1 .. n : i > k => old[i] \in Entries(new)
  <2>1. SUFFICES ASSUME NEW i \in 1 .. n, i > k PROVE old[i] \in Entries(new)
    OBVIOUS
  <2>2. i - k \in 1 .. n + 1 - k /\ (i - k) + k = i /\ i # n + 1 BY <1>1, <2>1
  <2>3. new[i - k] = old[i] BY <1>2, <2>2
  <2>4. QED BY <1>3, <2>2, <2>3
<1>6. n < Limit => Entries(list) \subseteq Entries(new)
  BY <1>1, <1>3, <1>5
<1>7. Entries(list) \ {old[1]} \subseteq Entries(new)
  <2>1. \A i \in 1 .. n : old[i] # old[1] => i > k BY <1>1
  <2>2. QED BY <1>3, <1>5, <2>1
<1>8. ASSUME Distinct(list), s \notin Entries(list) PROVE Distinct(new)
  <2>1. \A i, j \in 1 .. n : old[i] = old[j] => i = j
    BY <1>1, <1>8 DEF Distinct, old
  <2>2. \A i \in 1 .. n : old[i] # s BY <1>3, <1>8
  <2>3. ASSUME NEW i \in 1 .. n + 1 - k, NEW j \in 1 .. n + 1 - k, new[i] = new[j] PROVE i = j
    <3>1. (i + k = n + 1 \/ i + k \in 1 .. n) /\ (j + k = n + 1 \/ j + k \in 1 .. n) BY <1>1
    <3>2. new[i] = (IF i + k = n + 1 THEN s ELSE old[i + k]) /\ new[j] = (IF j + k = n + 1 THEN s ELSE old[j + k])
      BY <1>2
    <3>3. i + k = j + k BY <2>1, <2>2, <2>3, <3>1, <3>2
    <3>4. QED BY <1>1, <3>3
  <2>4. QED BY <1>2, <2>3 DEF Distinct
<1>9. QED BY <1>2, <1>4, <1>6, <1>7, <1>8 DEF old, new, n

\* A list without repetitions is as long as its set of entries is large.
LEMMA DistinctCardinality ==
    ASSUME NEW list \in Lists \cup {None}, Distinct(list)
    PROVE  Cardinality(Entries(list)) = Len(Listed(list))
<1> DEFINE l == Listed(list)
<1>1. Len(l) \in Nat /\ l \in [1 .. Len(l) -> Entries(list)]
  BY ListedType DEF Entries
<1>2. l \in Bijection(1 .. Len(l), Entries(list))
  <2>1. l \in Injection(1 .. Len(l), Entries(list))
    BY <1>1 DEF Distinct, Injection, IsInjective
  <2>2. l \in Surjection(1 .. Len(l), Entries(list))
    BY <1>1 DEF Entries, Surjection
  <2>3. QED BY <2>1, <2>2 DEF Bijection
<1>3. QED BY <1>1, <1>2, FS_CountingElements DEF ExistsBijection

-----------------------------------------------------------------------------
\* The invariant holds of an empty store.
LEMMA InitIInv == Init => IInv
<1> SUFFICES ASSUME Init PROVE IInv
  OBVIOUS
<1> USE DEF Init
<1>1. TypeOK BY DEF TypeOK, Operation, Idle, At
<1>2. OnlyProbed BY DEF OnlyProbed, Idle
<1>3. OnePublication BY DEF OnePublication, Unsent, Pointers, Idle
<1>4. Listed(history) = <<>> /\ Entries(history) = {} BY DEF Listed, Entries
<1>5. NamedWillBeStored BY <1>4 DEF NamedWillBeStored, NamedIsStored, At, Idle
<1>6. HistoryWillBeGood
  <2>1. WasActive(history) BY <1>4 DEF WasActive, Distinct
  <2>2. QED BY <2>1 DEF HistoryWillBeGood, At, Idle
<1>7. QED BY <1>1, <1>2, <1>3, <1>5, <1>6 DEF IInv

-----------------------------------------------------------------------------
\* What a step of device d does to op.
OnlyOf(d) ==
    /\ op' \in [Device -> Operation]
    /\ \A e \in Device \ {d} : op'[e] = op[e]

\* Go changes the program counter of one device.
LEMMA GoFacts ==
    ASSUME TypeOK, NEW d \in Device,
           NEW pc \in {"stage", "compare", "commit", "await", "verify", "list"}, Go(d, pc)
    PROVE  /\ OnlyOf(d)
           /\ op'[d].pc = pc /\ op'[d].new = op[d].new /\ op'[d].expected = op[d].expected
  BY DEF TypeOK, Operation, Go, OnlyOf

\* Finish clears the publication of one device.
LEMMA FinishFacts ==
    ASSUME TypeOK, NEW d \in Device, Finish(d)
    PROVE  OnlyOf(d) /\ op'[d] = Idle /\ op'[d].pc = "idle"
  BY DEF TypeOK, Operation, Finish, Idle, OnlyOf

\* See remembers a history for one device.
LEMMA SeeFacts ==
    ASSUME TypeOK, NEW d \in Device, See(d, "append", history)
    PROVE  /\ OnlyOf(d)
           /\ op'[d].pc = "append" /\ op'[d].new = op[d].new /\ op'[d].seen = history
<1> DEFINE start == [op[d] EXCEPT !.pc = "append", !.seen = history]
<1>1. op[d] \in Operation /\ history \in Lists \cup {None} BY DEF TypeOK
<1>2. start \in Operation BY <1>1 DEF Operation
<1>3. start.pc = "append" /\ start.new = op[d].new /\ start.seen = history
  BY <1>1 DEF Operation
<1>4. op' = [op EXCEPT ![d] = start] BY DEF See
<1> HIDE DEF start
<1>5. QED BY <1>2, <1>3, <1>4 DEF TypeOK, OnlyOf

\* Begin and Repair start an operation of one device.
LEMMA StartFacts ==
    ASSUME TypeOK, NEW d \in Device, NEW start \in Operation, op' = [op EXCEPT ![d] = start]
    PROVE  OnlyOf(d) /\ op'[d] = start
  BY DEF TypeOK, OnlyOf

\* An answer reaches the device that waits for it, if any.
LEMMA AnswerFacts ==
    ASSUME TypeOK, NEW r \in requests, UNCHANGED op \/ (Awaits(r) /\ (Go(r.by, "verify") \/ Finish(r.by)))
    PROVE  /\ op' \in [Device -> Operation]
           /\ \A e \in Device :
               \/ op'[e] = op[e]
               \/ op[e].pc = "await" /\ op'[e] = Idle
               \/ /\ op[e].pc = "await" /\ op'[e].pc = "verify"
                  /\ op'[e].new = op[e].new
<1>1. CASE UNCHANGED op BY <1>1 DEF TypeOK
<1>2. CASE Awaits(r) /\ (Go(r.by, "verify") \/ Finish(r.by))
  <2>1. r.by \in Device BY DEF TypeOK, Request
  <2>2. op[r.by].pc = "await" BY <1>2 DEF Awaits, At
  <2>3. QED BY <1>2, <2>1, <2>2, GoFacts, FinishFacts DEF OnlyOf
<1>3. QED BY <1>1, <1>2

\* Every step keeps the types (TypeOK).
LEMMA TypeStep == ASSUME IInv, [Next]_vars PROVE TypeOK'
<1> USE DEF IInv, TypeOK, At, Store, Told, OnlyOf
<1>1. CASE UNCHANGED vars BY <1>1 DEF vars
<1>2. ASSUME NEW d \in Device, NEW s \in Snapshot, Begin(d, s) PROVE TypeOK'
  <2>1. [pc |-> "probe", new |-> s, expected |-> latest, seen |-> None] \in Operation
    BY DEF Operation
  <2>2. QED BY <1>2, <2>1, StartFacts DEF Begin
<1>3. ASSUME NEW d \in Device, Probe(d) \/ Compare(d) PROVE TypeOK'
  BY <1>3, GoFacts, FinishFacts DEF Probe, Compare
<1>4. ASSUME NEW d \in Device, Stage(d) PROVE TypeOK'
  BY <1>4, GoFacts DEF Stage
<1>5. ASSUME NEW d \in Device, Abort(d) \/ Timeout(d) \/ Crash(d) PROVE TypeOK'
  BY <1>5, FinishFacts DEF Abort, Timeout, Crash
<1>6. ASSUME NEW d \in Device, Commit(d) PROVE TypeOK'
  <2>1. op[d].new \in Snapshot /\ op[d].expected \in Snapshot \cup {None}
    BY <1>6 DEF Commit, Operation
  <2>2. PutLatest(d) \in Request BY <2>1 DEF PutLatest, Request
  <2>3. QED BY <1>6, <2>2, GoFacts DEF Commit
<1>7. ASSUME NEW d \in Device, Verify(d) PROVE TypeOK'
  BY <1>7, GoFacts, FinishFacts DEF Verify
<1>8. ASSUME NEW d \in Device, ReadHistory(d) PROVE TypeOK'
  BY <1>8, SeeFacts, FinishFacts DEF ReadHistory
<1>9. ASSUME NEW d \in Device, WriteHistory(d) PROVE TypeOK'
  <2>1. op[d].new \in Snapshot /\ op[d].seen \in Lists \cup {None}
    BY <1>9 DEF WriteHistory, Operation
  <2>2. Extended(op[d].seen, op[d].new) \in Lists BY <2>1, ExtendedFacts
  <2>3. PutHistory(d, Extended(op[d].seen, op[d].new)) \in Request
    BY <2>1, <2>2 DEF PutHistory, Request
  <2>4. QED BY <1>9, <2>3, FinishFacts DEF WriteHistory
<1>10. ASSUME NEW d \in Device, Repair(d) PROVE TypeOK'
  <2>1. [pc |-> "list", new |-> latest, expected |-> None, seen |-> None] \in Operation
    BY DEF Operation
  <2>2. QED BY <1>10, <2>1, StartFacts DEF Repair, HistoryWillBeGood
<1>11. ASSUME NEW r \in requests, Refuse(r) PROVE TypeOK'
  <2>1. Awaits(r) => r.new \in used
    BY DEF Awaits, OnePublication, Pointers
  <2>2. rejected' \subseteq used /\ UNCHANGED <<store, latest, history, stored, ever, used, published>>
    BY <1>11, <2>1 DEF Refuse
  <2>3. op' \in [Device -> Operation] /\ \A e \in Device : op'[e] = op[e] \/ op'[e] = Idle
            \/ (op[e].pc = "await" /\ op'[e].pc = "verify" /\ op'[e].new = op[e].new)
    BY <1>11, AnswerFacts DEF Refuse
  <2>4. \A e \in Device : IF op'[e].pc = "idle" THEN op'[e] = Idle ELSE op'[e].new \in used'
    BY <2>2, <2>3 DEF Idle
  <2>5. QED BY <1>11, <2>2, <2>3, <2>4 DEF Refuse
<1>12. ASSUME NEW r \in requests, Serve(r) PROVE TypeOK'
  <2>1. IF r.file = "latest" THEN r.new \in used /\ r.new \in Snapshot ELSE r.new \in Lists
    BY DEF OnePublication, Pointers, Request
  <2>2. op' \in [Device -> Operation] /\ \A e \in Device : op'[e] = op[e] \/ op'[e] = Idle
            \/ (op[e].pc = "await" /\ op'[e].pc = "verify" /\ op'[e].new = op[e].new)
    BY <1>12, AnswerFacts DEF Serve
  <2>3. \A e \in Device : IF op'[e].pc = "idle" THEN op'[e] = Idle ELSE op'[e].new \in used'
    BY <1>12, <2>2 DEF Serve, Idle
  <2>4. QED BY <1>12, <2>1, <2>2, <2>3 DEF Serve
<1>13. QED
  BY <1>1, <1>2, <1>3, <1>4, <1>5, <1>6, <1>7, <1>8, <1>9, <1>10, <1>11, <1>12 DEF Next, DeviceStep

-----------------------------------------------------------------------------
\* The store answers: a device that waits verifies, is refused, or hears nothing.
LEMMA ServeFacts ==
    ASSUME IInv, NEW r \in requests, Serve(r) \/ Refuse(r)
    PROVE  /\ store = "strict" /\ (Serve(r) => Holds(r)) /\ store' = store
           /\ requests' = requests \ {r} /\ Pointers' = Pointers \ {r}
           /\ op' \in [Device -> Operation]
           /\ \A e \in Device :
               \/ op'[e] = op[e]
               \/ op[e].pc = "await" /\ op'[e] = Idle
               \/ op[e].pc = "await" /\ op'[e].pc = "verify" /\ op'[e].new = op[e].new
<1>1. store = "strict" BY DEF IInv, OnlyProbed, TypeOK
<1>2. (Serve(r) => Holds(r)) /\ store' = store /\ requests' = requests \ {r}
  BY <1>1 DEF Serve, Refuse, Store
<1>3. Pointers' = Pointers \ {r} BY <1>2 DEF Pointers
<1>4. UNCHANGED op \/ (Awaits(r) /\ (Go(r.by, "verify") \/ Finish(r.by)))
  BY DEF Serve, Refuse
<1>5. QED BY <1>1, <1>2, <1>3, <1>4, AnswerFacts DEF IInv

\* Nothing but probes reaches a store that ignores conditions.
LEMMA OnlyProbedStep == ASSUME IInv, [Next]_vars PROVE OnlyProbed'
<1> USE DEF IInv, OnlyProbed, At, Store, Told, OnlyOf
<1>1. CASE UNCHANGED vars BY <1>1 DEF vars
<1>2. ASSUME NEW d \in Device, NEW s \in Snapshot, Begin(d, s) PROVE OnlyProbed'
  BY <1>2 DEF Begin, TypeOK
<1>3. ASSUME NEW d \in Device, Probe(d) PROVE OnlyProbed'
  BY <1>3, FinishFacts DEF Probe
<1>4. ASSUME NEW d \in Device, Stage(d) \/ Compare(d) \/ Commit(d) \/ Verify(d) \/ ReadHistory(d)
                               \/ WriteHistory(d) \/ Repair(d)
      PROVE  OnlyProbed'
  <2>1. store # "lax" BY <1>4 DEF Stage, Compare, Commit, Verify, ReadHistory, WriteHistory, Repair
  <2>2. store' = store BY <1>4 DEF Stage, Compare, Commit, Verify, ReadHistory, WriteHistory, Repair
  <2>3. QED BY <2>1, <2>2
<1>5. ASSUME NEW d \in Device, Abort(d) \/ Timeout(d) \/ Crash(d) PROVE OnlyProbed'
  BY <1>5, FinishFacts DEF Abort, Timeout, Crash
<1>6. ASSUME NEW r \in requests, Serve(r) \/ Refuse(r) PROVE OnlyProbed'
  BY <1>6, ServeFacts
<1>7. QED BY <1>1, <1>2, <1>3, <1>4, <1>5, <1>6 DEF Next, DeviceStep

-----------------------------------------------------------------------------
\* A step that only ends publications, of the snapshots in gone.
LEMMA FewerPublications ==
    ASSUME OnePublication, Pointers' \subseteq Pointers, UNCHANGED used, NEW gone,
           (ever \cup rejected)' \subseteq ever \cup rejected \cup gone,
           \A d \in Device : Unsent(d)' =>
               Unsent(d) /\ op'[d].new = op[d].new /\ op[d].new \notin gone,
           \A r \in Pointers' : r.new \notin gone
    PROVE  OnePublication'
  BY DEF OnePublication

\* A step that begins no publication and makes no snapshot active.
LEMMA NoNewPublication ==
    ASSUME OnePublication, Pointers' = Pointers, UNCHANGED <<used, ever, rejected>>,
           \A d \in Device : Unsent(d)' => Unsent(d) /\ op'[d].new = op[d].new
    PROVE  OnePublication'
  BY DEF OnePublication

\* No step begins a second publication of a snapshot.
LEMMA OnePublicationStep == ASSUME IInv, [Next]_vars PROVE OnePublication'
<1> USE DEF IInv, At, Store, Told, OnlyOf
<1>1. CASE UNCHANGED vars BY <1>1 DEF vars, OnePublication, Unsent, Pointers
<1>2. ASSUME NEW d \in Device, NEW s \in Snapshot, Begin(d, s) PROVE OnePublication'
  <2>1. op' \in [Device -> Operation] /\ op'[d].new = s /\ \A e \in Device \ {d} : op'[e] = op[e]
    BY <1>2 DEF Begin, TypeOK, Operation
  <2>2. Pointers' = Pointers BY <1>2 DEF Begin, Pointers
  <2>3. \A e \in Device \ {d} : op'[e].new = op[e].new /\ (Unsent(e)' <=> Unsent(e))
    BY <2>1 DEF Unsent
  <2>4. s \notin used /\ used' = used \cup {s} /\ UNCHANGED <<ever, rejected>>
    BY <1>2 DEF Begin
  <2>5. ever \subseteq used /\ rejected \subseteq used BY DEF TypeOK
  <2>6. QED BY <2>1, <2>2, <2>3, <2>4, <2>5 DEF OnePublication
<1>3. ASSUME NEW d \in Device,
             Probe(d) \/ Stage(d) \/ Abort(d) \/ Timeout(d) \/ Verify(d) \/ Crash(d)
      PROVE  OnePublication'
  <2>1. \A e \in Device : Unsent(e)' => Unsent(e) /\ op'[e].new = op[e].new
    BY <1>3, GoFacts, FinishFacts DEF Probe, Stage, Abort, Timeout, Verify, Crash, Unsent
  <2>2. UNCHANGED <<used, requests, ever, rejected>>
    BY <1>3 DEF Probe, Stage, Abort, Timeout, Verify, Crash
  <2>3. Pointers' = Pointers BY <2>2 DEF Pointers
  <2>4. QED BY <2>1, <2>2, <2>3, NoNewPublication
<1>4. ASSUME NEW d \in Device, ReadHistory(d) \/ WriteHistory(d) \/ Repair(d)
      PROVE  OnePublication'
  <2>1. \A e \in Device : Unsent(e)' => Unsent(e) /\ op'[e].new = op[e].new
    <3>1. CASE ReadHistory(d) BY <3>1, SeeFacts, FinishFacts DEF ReadHistory, Unsent
    <3>2. CASE WriteHistory(d) BY <3>2, FinishFacts DEF WriteHistory, Unsent
    <3>3. CASE Repair(d) BY <3>3 DEF Repair, Unsent, TypeOK
    <3>4. QED BY <1>4, <3>1, <3>2, <3>3
  <2>2. UNCHANGED <<used, ever, rejected>> BY <1>4 DEF ReadHistory, WriteHistory, Repair
  <2>3. Pointers' = Pointers BY <1>4 DEF ReadHistory, WriteHistory, Repair, PutHistory, Pointers
  <2>4. QED BY <2>1, <2>2, <2>3, NoNewPublication
<1>5. ASSUME NEW d \in Device, Compare(d) PROVE OnePublication'
  <2> DEFINE gone == IF latest = op[d].expected THEN {} ELSE {op[d].new}
  <2>1. \A e \in Device : Unsent(e)' => Unsent(e) /\ op'[e].new = op[e].new /\ op[e].new \notin gone
    BY <1>5, GoFacts, FinishFacts DEF Compare, Unsent, OnePublication
  <2>2. Pointers' = Pointers /\ UNCHANGED <<used, ever>> /\ rejected' = rejected \cup gone
    BY <1>5 DEF Compare, Pointers
  <2>3. \A r \in Pointers : r.new \notin gone
    BY <1>5 DEF Compare, OnePublication, Unsent
  <2> HIDE DEF gone
  <2>4. QED BY <2>1, <2>2, <2>3, FewerPublications
<1>6. ASSUME NEW d \in Device, Commit(d) PROVE OnePublication'
  <2>1. Pointers' = Pointers \cup {PutLatest(d)} /\ PutLatest(d).new = op[d].new
    BY <1>6 DEF Commit, PutLatest, Pointers
  <2>2. OnlyOf(d) /\ op'[d].pc = "await" BY <1>6, GoFacts DEF Commit
  <2>3. UNCHANGED <<used, ever, rejected>> /\ Unsent(d) BY <1>6 DEF Commit, Unsent
  <2>4. QED BY <2>1, <2>2, <2>3 DEF OnePublication, Unsent
<1>7. ASSUME NEW r \in requests, Serve(r) \/ Refuse(r) PROVE OnePublication'
  <2> DEFINE gone == IF r \in Pointers THEN {r.new} ELSE {}
  <2>1. \A e \in Device : Unsent(e)' => Unsent(e) /\ op'[e].new = op[e].new /\ op[e].new \notin gone
    <3>1. \A e \in Device : Unsent(e)' => op'[e] = op[e] BY <1>7, ServeFacts DEF Unsent, Idle
    <3>2. QED BY <3>1 DEF OnePublication, Unsent
  <2>2. Pointers' \subseteq Pointers /\ \A p \in Pointers' : p.new \notin gone
    BY <1>7, ServeFacts DEF OnePublication
  <2>3. UNCHANGED used /\ (ever \cup rejected)' \subseteq ever \cup rejected \cup gone
    BY <1>7 DEF Serve, Refuse, Pointers, Awaits
  <2> HIDE DEF gone
  <2>4. QED BY <2>1, <2>2, <2>3, FewerPublications
<1>8. QED BY <1>1, <1>2, <1>3, <1>4, <1>5, <1>6, <1>7 DEF Next, DeviceStep

-----------------------------------------------------------------------------
\* No step names a snapshot that is not stored.
LEMMA NamedStep == ASSUME IInv, [Next]_vars PROVE NamedWillBeStored'
<1> USE DEF IInv, NamedWillBeStored, NamedIsStored, At, Store, Told, OnlyOf
<1> SUFFICES ASSUME ~UNCHANGED vars PROVE NamedWillBeStored'
  BY DEF vars, Entries, Listed
<1>1. ASSUME UNCHANGED <<latest, history, requests>>, stored \subseteq stored',
             NEW d \in Device, OnlyOf(d),
             ~At(d, "idle")' /\ ~At(d, "probe")' /\ ~At(d, "stage")' => op'[d].new \in stored',
             At(d, "append")' => Entries(op'[d].seen) \subseteq stored'
      PROVE  NamedWillBeStored'
  BY <1>1 DEF Entries, Listed
<1>2. ASSUME NEW d \in Device, NEW s \in Snapshot, Begin(d, s) PROVE NamedWillBeStored'
  <2>1. OnlyOf(d) /\ op'[d].pc = "probe"
    BY <1>2 DEF Begin, TypeOK, Operation
  <2>2. QED BY <1>1, <1>2, <2>1 DEF Begin
<1>3. ASSUME NEW d \in Device, Probe(d) \/ Compare(d) \/ Verify(d) PROVE NamedWillBeStored'
  BY <1>1, <1>3, GoFacts, FinishFacts DEF Probe, Compare, Verify
<1>4. ASSUME NEW d \in Device, Stage(d) PROVE NamedWillBeStored'
  BY <1>1, <1>4, GoFacts DEF Stage
<1>5. ASSUME NEW d \in Device, Abort(d) \/ Timeout(d) \/ Crash(d) PROVE NamedWillBeStored'
  BY <1>1, <1>5, FinishFacts DEF Abort, Timeout, Crash
<1>6. ASSUME NEW d \in Device, ReadHistory(d) PROVE NamedWillBeStored'
  BY <1>1, <1>6, SeeFacts, FinishFacts DEF ReadHistory
<1>7. ASSUME NEW d \in Device, Repair(d) PROVE NamedWillBeStored'
  <2>1. OnlyOf(d) /\ op'[d].pc = "list" /\ op'[d].new = latest
    BY <1>7 DEF Repair, TypeOK, Operation
  <2>2. QED BY <1>1, <1>7, <2>1 DEF Repair
<1>8. ASSUME NEW d \in Device, NEW r, requests' = requests \cup {r}, UNCHANGED <<latest, history, stored>>,
             IF r.file = "latest" THEN r.new \in stored ELSE Entries(r.new) \subseteq stored,
             OnlyOf(d), At(d, "await")' \/ At(d, "idle")', At(d, "await")' => op'[d].new \in stored
      PROVE  NamedWillBeStored'
  BY <1>8 DEF Entries, Listed
<1>9. ASSUME NEW d \in Device, Commit(d) PROVE NamedWillBeStored'
  <2>1. op[d].new \in stored BY <1>9 DEF Commit
  <2>2. OnlyOf(d) /\ op'[d].pc = "await" /\ op'[d].new = op[d].new BY <1>9, GoFacts DEF Commit
  <2>3. PutLatest(d).file = "latest" /\ PutLatest(d).new = op[d].new BY DEF PutLatest
  <2>4. requests' = requests \cup {PutLatest(d)} /\ UNCHANGED <<latest, history, stored>>
    BY <1>9 DEF Commit
  <2>5. QED BY <1>8, <2>1, <2>2, <2>3, <2>4
<1>10. ASSUME NEW d \in Device, WriteHistory(d) PROVE NamedWillBeStored'
  <2> DEFINE list == Extended(op[d].seen, op[d].new)
  <2>1. op[d].new \in Snapshot /\ op[d].new \in stored /\ op[d].seen \in Lists \cup {None}
    BY <1>10 DEF WriteHistory, TypeOK, Operation
  <2>2. Entries(list) \subseteq Entries(op[d].seen) \cup {op[d].new} BY <2>1, ExtendedFacts
  <2>3. Entries(list) \subseteq stored BY <1>10, <2>1, <2>2 DEF WriteHistory
  <2>4. PutHistory(d, list).file = "history" /\ PutHistory(d, list).new = list BY DEF PutHistory
  <2>5. requests' = requests \cup {PutHistory(d, list)} /\ UNCHANGED <<latest, history, stored>>
    BY <1>10 DEF WriteHistory
  <2>6. OnlyOf(d) /\ op'[d].pc = "idle" BY <1>10, FinishFacts DEF WriteHistory
  <2> HIDE DEF list
  <2>7. QED BY <1>8, <2>3, <2>4, <2>5, <2>6
<1>11. ASSUME NEW r \in requests, Serve(r) \/ Refuse(r) PROVE NamedWillBeStored'
  <2>1. \A e \in Device :
            /\ ~At(e, "idle")' /\ ~At(e, "probe")' /\ ~At(e, "stage")' => op'[e].new \in stored
            /\ At(e, "append")' => Entries(op'[e].seen) \subseteq stored
    BY <1>11, ServeFacts DEF Idle
  <2>2. requests' = requests \ {r} /\ stored' = stored BY <1>11, ServeFacts DEF Serve, Refuse
  <2>3. latest' = latest \/ latest' \in stored BY <1>11 DEF Serve, Refuse
  <2>4. Entries(history)' \subseteq stored BY <1>11 DEF Serve, Refuse, Entries, Listed
  <2>5. QED BY <2>1, <2>2, <2>3, <2>4 DEF Entries, Listed
<1>12. QED
  BY <1>2, <1>3, <1>4, <1>5, <1>6, <1>7, <1>9, <1>10, <1>11 DEF Next, DeviceStep

-----------------------------------------------------------------------------
\* No step lists what was not active, or lists it twice.
LEMMA HistoryStep == ASSUME IInv, [Next]_vars PROVE HistoryWillBeGood'
<1> USE DEF IInv, HistoryWillBeGood, At, Store, Told, OnlyOf
<1> DEFINE Extends(r) == \E s \in Snapshot : r.new = Extended(r.match, s)
<1>1. ASSUME UNCHANGED <<latest, history, requests, ever>>,
             NEW d \in Device, OnlyOf(d),
             op'[d].pc \in {"list", "append"} => op'[d].new \in ever,
             At(d, "append")' => WasActive(op'[d].seen) /\ op'[d].new \notin Entries(op'[d].seen)
      PROVE  HistoryWillBeGood'
  BY <1>1 DEF WasActive, Distinct, Entries, Listed
<1>2. CASE UNCHANGED vars BY <1>2 DEF vars, WasActive, Distinct, Entries, Listed
<1>3. ASSUME NEW d \in Device, NEW s \in Snapshot, Begin(d, s) PROVE HistoryWillBeGood'
  <2>1. OnlyOf(d) /\ op'[d].pc = "probe" BY <1>3 DEF Begin, TypeOK, Operation
  <2>2. QED BY <1>1, <1>3, <2>1 DEF Begin
<1>4. ASSUME NEW d \in Device, Probe(d) \/ Compare(d) PROVE HistoryWillBeGood'
  BY <1>1, <1>4, GoFacts, FinishFacts DEF Probe, Compare
<1>5. ASSUME NEW d \in Device, Stage(d) PROVE HistoryWillBeGood'
  BY <1>1, <1>5, GoFacts DEF Stage
<1>6. ASSUME NEW d \in Device, Abort(d) \/ Timeout(d) \/ Crash(d) PROVE HistoryWillBeGood'
  BY <1>1, <1>6, FinishFacts DEF Abort, Timeout, Crash
<1>7. ASSUME NEW d \in Device, Verify(d) PROVE HistoryWillBeGood'
  <2>1. latest = op[d].new => op[d].new \in ever BY <1>7 DEF Verify, TypeOK
  <2>2. QED BY <1>1, <1>7, <2>1, GoFacts, FinishFacts DEF Verify
<1>8. ASSUME NEW d \in Device, ReadHistory(d) PROVE HistoryWillBeGood'
  BY <1>1, <1>8, SeeFacts, FinishFacts DEF ReadHistory
<1>9. ASSUME NEW d \in Device, Repair(d) PROVE HistoryWillBeGood'
  <2>1. OnlyOf(d) /\ op'[d].pc = "list" /\ op'[d].new = latest
    BY <1>9 DEF Repair, TypeOK, Operation
  <2>2. QED BY <1>1, <1>9, <2>1 DEF Repair
<1>10. ASSUME NEW d \in Device, NEW r, requests' = requests \cup {r}, UNCHANGED <<latest, history, ever>>,
              r.file = "history" => WasActive(r.new) /\ Extends(r),
              OnlyOf(d), op'[d].pc \notin {"list", "append"}
       PROVE  HistoryWillBeGood'
  BY <1>10 DEF WasActive, Distinct, Entries, Listed
<1>11. ASSUME NEW d \in Device, Commit(d) PROVE HistoryWillBeGood'
  <2>1. OnlyOf(d) /\ op'[d].pc = "await" BY <1>11, GoFacts DEF Commit
  <2>2. PutLatest(d).file = "latest" BY DEF PutLatest
  <2>3. requests' = requests \cup {PutLatest(d)} /\ UNCHANGED <<latest, history, ever>>
    BY <1>11 DEF Commit
  <2>4. QED BY <1>10, <2>1, <2>2, <2>3
<1>12. ASSUME NEW d \in Device, WriteHistory(d) PROVE HistoryWillBeGood'
  <2> DEFINE list == Extended(op[d].seen, op[d].new)
             r == PutHistory(d, list)
  <2>1. op[d].new \in Snapshot /\ op[d].new \in ever /\ op[d].seen \in Lists \cup {None}
    BY <1>12 DEF WriteHistory, TypeOK, Operation
  <2>2. WasActive(op[d].seen) /\ op[d].new \notin Entries(op[d].seen) BY <1>12 DEF WriteHistory
  <2>3. WasActive(list) BY <2>1, <2>2, ExtendedFacts DEF WasActive
  <2>4. r.new = list /\ r.match = op[d].seen BY DEF PutHistory
  <2>5. Extends(r) BY <2>1, <2>4
  <2>6. requests' = requests \cup {r} /\ UNCHANGED <<latest, history, ever>>
    BY <1>12 DEF WriteHistory
  <2>7. OnlyOf(d) /\ op'[d].pc = "idle" BY <1>12, FinishFacts DEF WriteHistory
  <2> HIDE DEF list, r, Extends
  <2>8. QED BY <1>10, <2>3, <2>4, <2>5, <2>6, <2>7
<1>13. ASSUME NEW r \in requests, Serve(r) \/ Refuse(r) PROVE HistoryWillBeGood'
  <2>1. ever \subseteq ever' BY <1>13 DEF Serve, Refuse
  <2>2. \A e \in Device : op'[e].pc \in {"list", "append"} => op'[e] = op[e]
    BY <1>13, ServeFacts DEF Idle
  <2>3. requests' = requests \ {r} BY <1>13, ServeFacts
  <2>4. latest' \in ever' \cup {None} BY <1>13 DEF Serve, Refuse
  <2>5. history' = history \/ (r.file = "history" /\ history' = r.new)
    BY <1>13 DEF Serve, Refuse, Request, TypeOK
  <2>6. WasActive(history') BY <2>5
  <2>7. \A list : WasActive(list) => WasActive(list)'
    BY <2>1 DEF WasActive, Distinct, Entries, Listed
  <2>8. WasActive(history)'
    BY <2>1, <2>6 DEF WasActive, Distinct, Entries, Listed
  <2>9. QED
    BY <2>1, <2>2, <2>3, <2>4, <2>8 DEF WasActive, Distinct, Entries, Listed
<1>14. QED
  BY <1>2, <1>3, <1>4, <1>5, <1>6, <1>7, <1>8, <1>9, <1>11, <1>12, <1>13 DEF Next, DeviceStep

-----------------------------------------------------------------------------
\* The invariant is inductive.
LEMMA NextIInv == IInv /\ [Next]_vars => IInv'
  BY TypeStep, OnlyProbedStep, OnePublicationStep, NamedStep, HistoryStep DEF IInv

\* The invariant holds of every behavior of the store.
THEOREM IInvHolds == Spec => []IInv
  BY InitIInv, NextIInv, PTL DEF Spec

\* Type correctness of the publication to an object store, and the limit of
\* its history (TypeOK).
THEOREM PointerTypeCorrect == Spec => []TypeOK
<1>1. IInv => TypeOK BY DEF IInv
<1>2. QED BY <1>1, IInvHolds, PTL

\* What latest.json and history.json name can be downloaded, wherever a
\* publisher stops (NamedIsStored).
THEOREM PointerNamesStored == Spec => []NamedIsStored
<1>1. IInv => NamedIsStored BY DEF IInv, NamedWillBeStored
<1>2. QED BY <1>1, IInvHolds, PTL

\* history.json lists snapshots that were active, each once (HistoryWasActive).
THEOREM PointerHistoryWasActive == Spec => []HistoryWasActive
<1>1. ASSUME IInv PROVE HistoryWasActive
  <2>1. history \in Lists \cup {None} /\ Distinct(history) /\ Entries(history) \subseteq ever
    BY <1>1 DEF IInv, TypeOK, HistoryWillBeGood, WasActive
  <2>2. QED BY <2>1, DistinctCardinality DEF HistoryWasActive
<1>2. IInv => HistoryWasActive BY <1>1
<1>3. QED BY <1>2, IInvHolds, PTL

\* No publisher removes the entry of another from history.json; only the
\* oldest entry of a full history goes (HistoryKeepsEntries).
THEOREM PointerHistoryKeepsEntries == Spec => HistoryKeepsEntries
<1> DEFINE Keeps ==
       \/ Len(Listed(history)) < Limit /\ Entries(history) \subseteq Entries(history')
       \/ Len(Listed(history)) = Limit /\ Entries(history) \ {Listed(history)[1]} \subseteq Entries(history')
<1>1. ASSUME IInv, [Next]_vars PROVE Keeps
  <2>1. history \in Lists \cup {None} BY <1>1 DEF IInv, TypeOK
  <2>2. Len(Listed(history)) < Limit \/ Len(Listed(history)) = Limit
    BY <2>1, ListedType, LimitAssumption
  <2>3. CASE history' = history BY <2>2, <2>3
  <2>4. CASE \E r \in requests : r.file = "history" /\ Serve(r)
    <3>1. PICK r \in requests : r.file = "history" /\ Serve(r) BY <2>4
    <3>2. history = r.match /\ history' = r.new
      BY <1>1, <3>1, ServeFacts DEF Serve, Holds
    <3>3. PICK s \in Snapshot : r.new = Extended(r.match, s)
      BY <1>1, <3>1 DEF IInv, HistoryWillBeGood
    <3>4. QED BY <2>1, <2>2, <3>2, <3>3, ExtendedFacts
  <2>5. history' = history \/ \E r \in requests : r.file = "history" /\ Serve(r)
    BY <1>1 DEF Next, DeviceStep, vars, Begin, Probe, Stage, Compare, Abort, Commit, Timeout, Verify,
       ReadHistory, WriteHistory, Repair, Crash, Serve, Refuse, Store, IInv, TypeOK, Request
  <2>6. QED BY <2>3, <2>4, <2>5
<1>2. IInv /\ [Next]_vars => [Keeps]_vars BY <1>1
<1>3. QED BY <1>2, IInvHolds, PTL DEF Spec, HistoryKeepsEntries

-----------------------------------------------------------------------------
(* Refinement: what a step does to the publications under way. *)

OfDevice(d) == [new |-> op[d].new, expected |-> op[d].expected]
OfPut(r) == [new |-> r.new, expected |-> r.match]

\* The publications under way are those of the devices and of the PUTs.
LEMMA PendingIs ==
    Pending = {OfDevice(d) : d \in {e \in Device : Unsent(e)}} \cup {OfPut(r) : r \in Pointers}
  BY DEF Pending, OfDevice, OfPut, Unsent, Pointers

\* The same, after a step.
LEMMA PendingIsPrime ==
    Pending' = {OfDevice(d)' : d \in {e \in Device : Unsent(e)'}} \cup {OfPut(r) : r \in Pointers'}
  BY DEF Pending, OfDevice, OfPut, Unsent, Pointers

\* No device begins or ends a publication.
SameUnsent ==
    \A d \in Device : (Unsent(d)' <=> Unsent(d)) /\ (Unsent(d) => OfDevice(d)' = OfDevice(d))

\* Nothing begins or ends: the publications stay.
LEMMA SamePending == ASSUME SameUnsent, Pointers' = Pointers PROVE Pending' = Pending
<1>1. {OfDevice(d)' : d \in {e \in Device : Unsent(e)'}} = {OfDevice(d) : d \in {e \in Device : Unsent(e)}}
  BY DEF SameUnsent
<1>2. QED BY <1>1, PendingIs, PendingIsPrime

\* A device that gives up ends its publication and no other.
LEMMA DeviceEnds ==
    ASSUME OnePublication, NEW d \in Device, Unsent(d), ~Unsent(d)', OnlyOf(d), Pointers' = Pointers
    PROVE  /\ Pending' = Pending \ {OfDevice(d)}
           /\ Pending' = {q \in Pending : q.new # op[d].new}
<1>1. \A e \in Device \ {d} : (Unsent(e)' <=> Unsent(e)) /\ OfDevice(e)' = OfDevice(e)
  BY DEF OnlyOf, Unsent, OfDevice
<1>2. \A e \in Device \ {d} : Unsent(e) => OfDevice(e).new # op[d].new /\ OfDevice(e) # OfDevice(d)
  BY DEF OnePublication, OfDevice
<1>3. \A r \in Pointers : OfPut(r).new # op[d].new /\ OfPut(r) # OfDevice(d)
  BY DEF OnePublication, OfDevice, OfPut
<1>4. OfDevice(d).new = op[d].new BY DEF OfDevice
<1>5. QED BY <1>1, <1>2, <1>3, <1>4, PendingIs, PendingIsPrime

\* A PUT that is served or refused ends its publication and no other.
LEMMA PutEnds ==
    ASSUME OnePublication, NEW r \in Pointers, SameUnsent, Pointers' = Pointers \ {r}
    PROVE  /\ OfPut(r) \in Pending /\ Pending' = Pending \ {OfPut(r)}
           /\ Pending' = {q \in Pending : q.new # r.new}
<1>1. \A d \in Device : Unsent(d) => OfDevice(d).new # r.new /\ OfDevice(d) # OfPut(r)
  BY DEF OnePublication, OfDevice, OfPut
<1>2. \A q \in Pointers \ {r} : OfPut(q).new # r.new /\ OfPut(q) # OfPut(r)
  BY DEF OnePublication, OfPut
<1>3. OfPut(r).new = r.new BY DEF OfPut
<1>4. QED BY <1>1, <1>2, <1>3, PendingIs, PendingIsPrime DEF SameUnsent

\* Sending the PUT hands the publication over to the network.
LEMMA PutMoves ==
    ASSUME TypeOK, NEW d \in Device, Commit(d) PROVE Pending' = Pending
<1>1. OnlyOf(d) /\ Unsent(d) /\ ~Unsent(d)'
  BY GoFacts DEF Commit, Unsent, At
<1>2. \A e \in Device \ {d} : (Unsent(e)' <=> Unsent(e)) /\ OfDevice(e)' = OfDevice(e)
  BY <1>1 DEF OnlyOf, Unsent, OfDevice
<1>3. Pointers' = Pointers \cup {PutLatest(d)}
  BY DEF Commit, PutLatest, Pointers
<1>4. OfPut(PutLatest(d)) = OfDevice(d) BY DEF OfPut, OfDevice, PutLatest
<1>5. QED BY <1>1, <1>2, <1>3, <1>4, PendingIs, PendingIsPrime

\* Beginning a publication adds one.
LEMMA BeginAdds ==
    ASSUME TypeOK, NEW d \in Device, NEW s \in Snapshot, Begin(d, s)
    PROVE  Pending' = Pending \cup {[new |-> s, expected |-> latest]}
<1>1. OnlyOf(d) /\ ~Unsent(d) /\ Unsent(d)' /\ OfDevice(d)' = [new |-> s, expected |-> latest]
  <2>1. [pc |-> "probe", new |-> s, expected |-> latest, seen |-> None] \in Operation
    BY DEF TypeOK, Operation
  <2>2. OnlyOf(d) /\ op'[d] = [pc |-> "probe", new |-> s, expected |-> latest, seen |-> None]
    BY <2>1, StartFacts DEF Begin
  <2>3. ~Unsent(d) BY DEF Begin, At, Unsent
  <2>4. QED BY <2>2, <2>3 DEF Unsent, OfDevice
<1>2. \A e \in Device \ {d} : (Unsent(e)' <=> Unsent(e)) /\ OfDevice(e)' = OfDevice(e)
  BY <1>1 DEF OnlyOf, Unsent, OfDevice
<1>3. Pointers' = Pointers BY DEF Begin, Pointers
<1>4. QED BY <1>1, <1>2, <1>3, PendingIs, PendingIsPrime

\* A device that stops without an answer is a Forget, or nothing.
LEMMA FinishEnds ==
    ASSUME IInv, NEW d \in Device, Finish(d), Pointers' = Pointers,
           UNCHANGED <<latest, ever, used, published, rejected>>
    PROVE  [Promise!Next]_Promise!vars
<1>1. OnlyOf(d) /\ ~Unsent(d)' BY FinishFacts DEF IInv, Unsent
<1>2. CASE Unsent(d)
  <2>1. Pending' = Pending \ {OfDevice(d)} BY <1>1, <1>2, DeviceEnds DEF IInv
  <2>2. OfDevice(d) \in Promise!Publication
    BY <1>2 DEF IInv, TypeOK, Operation, OnePublication, OfDevice, Promise!Publication
  <2>3. Promise!Forget(OfDevice(d)) BY <2>1 DEF Promise!Forget
  <2>4. QED BY <2>2, <2>3 DEF Promise!Next
<1>3. CASE ~Unsent(d)
  <2>1. SameUnsent BY <1>1, <1>3 DEF SameUnsent, OnlyOf, Unsent, OfDevice
  <2>2. QED BY <2>1, SamePending DEF Promise!vars
<1>4. QED BY <1>2, <1>3

\* A step inside a publication, or after it, shows nothing.
LEMMA Stutter ==
    ASSUME SameUnsent, Pointers' = Pointers, UNCHANGED <<latest, ever, used, published, rejected>>
    PROVE  [Promise!Next]_Promise!vars
  BY SamePending DEF Promise!vars

\* Every step is a step of RemoteHead, or none.
LEMMA RefinementStep == ASSUME IInv, [Next]_vars PROVE [Promise!Next]_Promise!vars
<1> USE DEF IInv, Store, Told
<1>1. CASE UNCHANGED vars
  BY <1>1, Stutter DEF vars, SameUnsent, Unsent, OfDevice, Pointers
<1>2. ASSUME NEW d \in Device, NEW s \in Snapshot, Begin(d, s) PROVE [Promise!Next]_Promise!vars
  <2> DEFINE q == [new |-> s, expected |-> latest]
  <2>1. q \in Promise!Publication BY DEF TypeOK, Promise!Publication
  <2>2. Promise!Ask(q) BY <1>2, BeginAdds DEF Begin, Promise!Ask
  <2>3. QED BY <2>1, <2>2 DEF Promise!Next
<1>3. ASSUME NEW d \in Device, NEW pc \in {"stage", "compare", "commit"},
             Unsent(d), Go(d, pc), UNCHANGED <<latest, ever, requests, used, published, rejected>>
      PROVE  [Promise!Next]_Promise!vars
  <2>1. SameUnsent BY <1>3, GoFacts DEF SameUnsent, OnlyOf, Unsent, OfDevice
  <2>2. QED BY <1>3, <2>1, Stutter DEF Pointers
<1>4. ASSUME NEW d \in Device, Finish(d), UNCHANGED <<latest, ever, requests, used, published, rejected>>
      PROVE  [Promise!Next]_Promise!vars
  BY <1>4, FinishEnds DEF Pointers
<1>5. ASSUME NEW d \in Device, Probe(d) PROVE [Promise!Next]_Promise!vars
  BY <1>3, <1>4, <1>5 DEF Probe, Unsent, At
<1>6. ASSUME NEW d \in Device, Stage(d) PROVE [Promise!Next]_Promise!vars
  BY <1>3, <1>6 DEF Stage, Unsent, At
<1>7. ASSUME NEW d \in Device, Compare(d) PROVE [Promise!Next]_Promise!vars
  <2>1. CASE latest = op[d].expected
    BY <1>3, <1>7, <2>1 DEF Compare, Unsent, At
  <2>2. CASE latest # op[d].expected
    <3>1. Unsent(d) /\ ~Unsent(d)' /\ OnlyOf(d)
      BY <1>7, <2>2, FinishFacts DEF Compare, Unsent, At
    <3>2. op[d].new \in used \ ever /\ op[d].new \in Snapshot
      BY <3>1 DEF OnePublication, TypeOK
    <3>3. Pointers' = Pointers BY <1>7 DEF Compare, Pointers
    <3>4. Promise!Reject(op[d].new)
      BY <1>7, <2>2, <3>1, <3>2, <3>3, DeviceEnds DEF Compare, Promise!Reject
    <3>5. QED BY <3>2, <3>4 DEF Promise!Next
  <2>3. QED BY <2>1, <2>2
<1>8. ASSUME NEW d \in Device, Abort(d) \/ Timeout(d) \/ Crash(d) PROVE [Promise!Next]_Promise!vars
  BY <1>4, <1>8 DEF Abort, Timeout, Crash
<1>9. ASSUME NEW d \in Device, Commit(d) PROVE [Promise!Next]_Promise!vars
  BY <1>9, PutMoves DEF Commit, Promise!vars
<1>10. ASSUME NEW d \in Device, Verify(d) PROVE [Promise!Next]_Promise!vars
  <2>1. OnlyOf(d) /\ ~Unsent(d) /\ ~Unsent(d)'
    BY <1>10, GoFacts, FinishFacts DEF Verify, Unsent, At
  <2>2. SameUnsent BY <2>1 DEF SameUnsent, OnlyOf, Unsent, OfDevice
  <2>3. Pointers' = Pointers BY <1>10 DEF Verify, Pointers
  <2>4. CASE latest = op[d].new
    <3>1. op[d].new \in ever /\ op[d].new \in Snapshot
      BY <1>10, <2>4, NoneAssumption DEF Verify, HistoryWillBeGood, TypeOK, At
    <3>2. Promise!Confirm(op[d].new)
      BY <1>10, <2>2, <2>3, <2>4, <3>1, SamePending DEF Verify, Promise!Confirm
    <3>3. QED BY <3>1, <3>2 DEF Promise!Next
  <2>5. CASE latest # op[d].new
    BY <1>10, <2>2, <2>3, <2>5, Stutter DEF Verify
  <2>6. QED BY <2>4, <2>5
<1>11. ASSUME NEW d \in Device, ReadHistory(d) \/ WriteHistory(d) \/ Repair(d)
       PROVE  [Promise!Next]_Promise!vars
  <2>1. OnlyOf(d) /\ ~Unsent(d) /\ ~Unsent(d)'
    <3>1. CASE ReadHistory(d) BY <3>1, SeeFacts, FinishFacts DEF ReadHistory, Unsent, At
    <3>2. CASE WriteHistory(d) BY <3>2, FinishFacts DEF WriteHistory, Unsent, At
    <3>3. CASE Repair(d)
      <4>1. [pc |-> "list", new |-> latest, expected |-> None, seen |-> None] \in Operation
        BY DEF TypeOK, Operation
      <4>2. OnlyOf(d) /\ op'[d] = [pc |-> "list", new |-> latest, expected |-> None, seen |-> None]
        BY <3>3, <4>1, StartFacts DEF Repair
      <4>3. ~Unsent(d) BY <3>3 DEF Repair, At, Unsent
      <4>4. QED BY <4>2, <4>3 DEF Unsent
    <3>4. QED BY <1>11, <3>1, <3>2, <3>3
  <2>2. SameUnsent BY <2>1 DEF SameUnsent, OnlyOf, Unsent, OfDevice
  <2>3. Pointers' = Pointers BY <1>11 DEF ReadHistory, WriteHistory, Repair, PutHistory, Pointers
  <2>4. UNCHANGED <<latest, ever, used, published, rejected>>
    BY <1>11 DEF ReadHistory, WriteHistory, Repair
  <2>5. QED BY <2>2, <2>3, <2>4, Stutter
<1>12. ASSUME NEW r \in requests, Serve(r) \/ Refuse(r) PROVE [Promise!Next]_Promise!vars
  <2>1. SameUnsent BY <1>12, ServeFacts DEF SameUnsent, Unsent, OfDevice, Idle
  <2>2. CASE r \notin Pointers
    <3>1. Pointers' = Pointers BY <1>12, <2>2, ServeFacts
    <3>2. UNCHANGED <<latest, ever, used, published, rejected>>
      BY <1>12, <2>2 DEF Serve, Refuse, Pointers, Awaits
    <3>3. QED BY <2>1, <3>1, <3>2, Stutter
  <2>3. CASE r \in Pointers
    <3>1. /\ OfPut(r) \in Pending /\ Pending' = Pending \ {OfPut(r)}
          /\ Pending' = {q \in Pending : q.new # r.new}
      BY <1>12, <2>1, <2>3, ServeFacts, PutEnds
    <3>2. OfPut(r) \in Promise!Publication /\ r.new \in Snapshot /\ r.new \in used \ ever
      BY <2>3 DEF TypeOK, Request, OfPut, Promise!Publication, Pointers, OnePublication
    <3>3. CASE Serve(r)
      <4>1. latest = r.match BY <3>3, <2>3, ServeFacts DEF Holds, Pointers
      <4>2. Promise!Replace(OfPut(r))
        BY <2>3, <3>1, <3>3, <4>1 DEF Serve, OfPut, Promise!Replace, Pointers
      <4>3. QED BY <3>2, <4>2 DEF Promise!Next
    <3>4. CASE Refuse(r) /\ UNCHANGED rejected
      <4>1. Promise!Forget(OfPut(r)) BY <3>1, <3>4 DEF Refuse, Promise!Forget
      <4>2. QED BY <3>2, <4>1 DEF Promise!Next
    <3>5. CASE Refuse(r) /\ rejected' = rejected \cup {r.new}
      <4>1. Promise!Reject(r.new) BY <3>1, <3>2, <3>5 DEF Refuse, Promise!Reject
      <4>2. QED BY <3>2, <4>1 DEF Promise!Next
    <3>6. QED BY <1>12, <3>3, <3>4, <3>5 DEF Refuse
  <2>4. QED BY <2>2, <2>3
<1>13. QED
  BY <1>1, <1>2, <1>5, <1>6, <1>7, <1>8, <1>9, <1>10, <1>11, <1>12 DEF Next, DeviceStep

\* Publication to an object store (s3-backend.ts, webdav-backend.ts)
\* implements RemoteHead: the head is replaced only while it is the reviewed
\* one, and answers stay true, whether or not the store honours conditions.
THEOREM PointerKeepsPromise == Spec => ImplementsRemoteHead
<1>1. Init => Promise!Init
  <2>1. Init => Pending = {} BY DEF Init, Pending, Idle
  <2>2. QED BY <2>1 DEF Init, Promise!Init
<1>2. IInv /\ [Next]_vars => [Promise!Next]_Promise!vars BY RefinementStep
<1>3. QED BY <1>1, <1>2, IInvHolds, PTL DEF Spec, ImplementsRemoteHead, Promise!Spec

-----------------------------------------------------------------------------
(* What a caller may conclude from an answer: an invariant of RemoteHead,  *)
(* seen through the refinement.                                            *)

\* A snapshot has one publication, which is pending, active or given up.
OneOutcome ==
    /\ used \subseteq Snapshot /\ ever \cup rejected \subseteq used
    /\ Pending \subseteq Promise!Publication
    /\ \A q \in Pending : q.new \in used \ (ever \cup rejected)
    /\ \A q, r \in Pending : q.new = r.new => q = r
    /\ Promise!AnswersAreTrue

LEMMA OneOutcomeInit == Promise!Init => OneOutcome
  BY DEF Promise!Init, OneOutcome, Promise!AnswersAreTrue

LEMMA OneOutcomeStep == ASSUME OneOutcome, [Promise!Next]_Promise!vars PROVE OneOutcome'
<1> USE DEF OneOutcome, Promise!AnswersAreTrue, Promise!Publication
<1>1. CASE UNCHANGED Promise!vars BY <1>1 DEF Promise!vars
<1>2. ASSUME NEW q \in Promise!Publication, Promise!Ask(q) PROVE OneOutcome'
  BY <1>2 DEF Promise!Ask
<1>3. ASSUME NEW q \in Promise!Publication, Promise!Replace(q) PROVE OneOutcome'
  BY <1>3 DEF Promise!Replace
<1>4. ASSUME NEW q \in Promise!Publication, Promise!Forget(q) PROVE OneOutcome'
  BY <1>4 DEF Promise!Forget
<1>5. ASSUME NEW s \in Snapshot, Promise!Confirm(s) PROVE OneOutcome'
  BY <1>5 DEF Promise!Confirm
<1>6. ASSUME NEW s \in Snapshot, Promise!Reject(s) PROVE OneOutcome'
  BY <1>6 DEF Promise!Reject
<1>7. QED BY <1>1, <1>2, <1>3, <1>4, <1>5, <1>6 DEF Promise!Next

\* Who was told "rejected" never becomes active, who was told "published" was
\* active: publishSnapshot of s3-backend.ts and webdav-backend.ts (AnswersAreTrue of RemoteHead).
THEOREM PointerAnswersStayTrue == Spec => []Promise!AnswersAreTrue
<1>1. OneOutcome => Promise!AnswersAreTrue BY DEF OneOutcome
<1>2. QED
  BY OneOutcomeInit, OneOutcomeStep, <1>1, PointerKeepsPromise, PTL DEF ImplementsRemoteHead, Promise!Spec
=============================================================================
