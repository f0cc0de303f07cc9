-------------------------- MODULE SyncLock_proofs --------------------------
(***************************************************************************)
(* The lock excludes, for every number of processes: when no process       *)
(* sleeps through the expiry of its guard, whatever is run; and, sleepers  *)
(* or not, when only syncs run, which never remove the lock file of        *)
(* another.  (A recovery or an unlock that sleeps can remove a lock file   *)
(* it no longer has the right to: see MCSyncLockSleeper.cfg.)              *)
(***************************************************************************)
EXTENDS SyncLock, TLAPS

\* What the steps of an operation rely on.
OwnsFile(p) ==
    /\ pc[p] \in {"check", "running", "removeOwn"} => file = Mine(p, TRUE)
    /\ pc[p] = "write" => file = Mine(p, FALSE)

\* Where nobody sleeps, an operation holds the guard from beginning to end.
OwnsGuard(p) ==
    /\ ~compromised[p]
    /\ Guarded(p) => p \in alive /\ guard = Me(p)

\* A sync removes no lock file but its own.
RemovesNothing(p) ==
    pc[p] \notin {"recheck", "confirm", "remove"} /\ kind[p] = "sync"

Excludes ==
    \/ ~Suspends /\ asleep = {} /\ \A p \in Proc : OwnsGuard(p)
    \/ Kinds \subseteq {"sync"} /\ \A p \in Proc : RemovesNothing(p)

\* Every variable keeps its type, and the lock excludes.
IInv == TypeOK /\ Excludes /\ \A p \in Proc : OwnsFile(p)

USE KindsAssumption, ForeignAssumption, SuspendsAssumption, NoLockAssumption

-----------------------------------------------------------------------------
LEMMA MineIsMine ==
    ASSUME NEW p \in Proc, NEW q \in Proc, NEW x \in BOOLEAN, NEW y \in BOOLEAN
    PROVE  Mine(p, x) = Mine(q, y) => p = q /\ x = y
  BY DEF Mine

LEMMA MeIsMe ==
    ASSUME NEW p \in Proc, NEW q \in Proc PROVE Me(p) = Me(q) => p = q
  BY DEF Me

LEMMA MineIsALock ==
    ASSUME TypeOK, NEW p \in Proc, NEW x \in BOOLEAN
    PROVE  Mine(p, x) \in LockFile /\ Mine(p, x) # NoLock /\ Me(p) \in Owner
  BY DEF TypeOK, Mine, Me, LockFile, Owner

\* The processes keep their types whatever they do.
LEMMA TypeInit == Init => TypeOK
<1>1. 1 \in 1 .. MaxRun BY MaxRunAssumption
<1>2. QED BY <1>1 DEF Init, TypeOK, LockFile, Owner, Phase, Kind

LEMMA TypeStep ==
    ASSUME TypeOK, NEW p \in Proc, Step(p) PROVE TypeOK'
<1> USE MineIsALock DEF TypeOK, Rest, Stop, Goto, At, Phase, Kind
<1>1. CASE AcquireGuard(p) BY <1>1 DEF AcquireGuard
<1>2. CASE GuardHeld(p) BY <1>2 DEF GuardHeld
<1>3. CASE Inspect(p) BY <1>3 DEF Inspect, AfterInspection
<1>4. CASE Recheck(p) BY <1>4 DEF Recheck
<1>5. CASE Confirm(p) BY <1>5 DEF Confirm
<1>6. CASE RemoveStale(p) BY <1>6 DEF RemoveStale
<1>7. CASE Create(p) BY <1>7 DEF Create
<1>8. CASE Write(p) BY <1>8 DEF Write
<1>9. CASE WriteFails(p) BY <1>9 DEF WriteFails
<1>10. CASE CheckGuard(p) BY <1>10 DEF CheckGuard
<1>11. CASE Finish(p) BY <1>11 DEF Finish
<1>12. CASE Cleanup(p) BY <1>12 DEF Cleanup
<1>13. CASE RemoveOwn(p) BY <1>13 DEF RemoveOwn
<1>14. CASE Fails(p) BY <1>14 DEF Fails
<1>15. CASE Release(p) BY <1>15 DEF Release
<1>16. QED BY <1>1, <1>2, <1>3, <1>4, <1>5, <1>6, <1>7, <1>8, <1>9, <1>10, <1>11,
              <1>12, <1>13, <1>14, <1>15 DEF Step

LEMMA TypeRest ==
    ASSUME TypeOK, NEW p \in Proc, Environment(p) \/ \E k \in Kinds : Begin(p, k)
    PROVE  TypeOK'
<1>1. CASE Environment(p)
  <2>1. CASE NoticeCompromise(p) BY <2>1 DEF NoticeCompromise, TypeOK, Rest
  <2>2. CASE FallAsleep(p) BY <2>2 DEF FallAsleep, TypeOK, process
  <2>3. CASE WakeUp(p) BY <2>3 DEF WakeUp, TypeOK, process
  <2>4. CASE Crash(p) BY <2>4 DEF Crash, Stop, Goto, TypeOK, Phase, Kind
  <2>5. QED BY <1>1, <2>1, <2>2, <2>3, <2>4 DEF Environment
<1>2. CASE \E k \in Kinds : Begin(p, k)
  <2>1. PICK k \in Kinds, id \in 1 .. MaxRun :
            Begin(p, k) /\ run' = [run EXCEPT ![p] = id]
    BY <1>2 DEF Begin
  <2>2. k \in Kind BY DEF Kind
  <2>3. QED BY <2>1, <2>2 DEF Begin, TypeOK, Phase, Goto
<1>3. QED BY <1>1, <1>2

-----------------------------------------------------------------------------
\* Somebody who is about to remove or create the file disturbs nobody.
LEMMA Undisturbed ==
    ASSUME IInv, NEW p \in Proc, At(p, "remove") \/ At(p, "removeOwn"),
           NEW q \in Proc, q # p
    PROVE  pc[q] \notin {"write", "check", "running", "removeOwn"}
<1>1. CASE \A r \in Proc : OwnsGuard(r)
  BY <1>1, MeIsMe DEF OwnsGuard, Guarded, At
<1>2. CASE \A r \in Proc : RemovesNothing(r)
  <2>1. file = Mine(p, TRUE) BY <1>2 DEF IInv, OwnsFile, RemovesNothing, At
  <2>2. QED BY <2>1, MineIsMine DEF IInv, OwnsFile
<1>3. QED BY <1>1, <1>2 DEF IInv, Excludes

LEMMA OwnsFileStep ==
    ASSUME IInv, NEW p \in Proc, Step(p) PROVE \A q \in Proc : OwnsFile(q)'
<1> SUFFICES ASSUME NEW q \in Proc PROVE OwnsFile(q)'
  OBVIOUS
<1>0. /\ Mine(q, TRUE)' = Mine(q, TRUE) /\ Mine(q, FALSE)' = Mine(q, FALSE)
      /\ q # p => pc'[q] = pc[q]
      /\ TypeOK /\ OwnsFile(q) /\ OwnsFile(p)
  BY DEF IInv, TypeOK, Mine, Step, AcquireGuard, GuardHeld, Inspect, Recheck, Confirm,
     RemoveStale, Create, Write, WriteFails, CheckGuard, Finish, Cleanup, RemoveOwn, Fails, Stop, Release,
     Rest, Goto
<1> USE <1>0 DEF At, Goto, OwnsFile
<1>1. CASE AcquireGuard(p) \/ GuardHeld(p) \/ Recheck(p) \/ Confirm(p) \/ WriteFails(p)
           \/ CheckGuard(p) \/ Finish(p) \/ Cleanup(p) \/ Fails(p) \/ Release(p)
  BY <1>1 DEF TypeOK, AcquireGuard, GuardHeld, Recheck, Confirm, WriteFails, CheckGuard,
     Finish, Cleanup, Fails, Release, Stop
<1>2. CASE Inspect(p) BY <1>2 DEF TypeOK, Inspect, AfterInspection
<1>3. CASE RemoveStale(p) \/ RemoveOwn(p)
  BY <1>3, Undisturbed DEF TypeOK, RemoveStale, RemoveOwn
<1>4. CASE Create(p)
  BY <1>4, MineIsALock DEF TypeOK, Create
<1>5. CASE Write(p)
  <2>1. file = Mine(p, FALSE) /\ file' = Mine(p, TRUE) BY <1>5 DEF Write
  <2>2. CASE q = p BY <1>5, <2>1, <2>2 DEF TypeOK, Write
  <2>3. CASE q # p
    <3>1. pc[q] \notin {"write", "check", "running", "removeOwn"}
      BY <2>1, <2>3, MineIsMine
    <3>2. QED BY <2>3, <3>1
  <2>4. QED BY <2>2, <2>3
<1>6. QED BY <1>1, <1>2, <1>3, <1>4, <1>5 DEF Step

LEMMA ExcludesStep ==
    ASSUME IInv, NEW p \in Proc, Step(p) PROVE Excludes'
<1>0. TypeOK /\ TypeOK' BY TypeStep DEF IInv
<1>1. CASE ~Suspends /\ asleep = {} /\ \A q \in Proc : OwnsGuard(q)
  <2> SUFFICES ASSUME NEW q \in Proc PROVE OwnsGuard(q)' /\ asleep' = {}
    BY <1>1 DEF Excludes
  <2>1. /\ Me(q)' = Me(q) /\ asleep' = {} /\ alive' = alive /\ ~compromised'[q]
        /\ q # p => pc'[q] = pc[q]
        /\ p \in alive /\ ~compromised[p]
    BY <1>0, <1>1 DEF TypeOK, Me, OwnsGuard, Step, AcquireGuard, GuardHeld, Inspect, Recheck,
       Confirm, RemoveStale, Create, Write, WriteFails, CheckGuard, Finish, Cleanup, RemoveOwn,
       Fails, Stop, Release, Rest, Goto, At
  <2>2. CASE AcquireGuard(p)
    <3>1. CASE q = p BY <2>1, <2>2, <3>1 DEF AcquireGuard, OwnsGuard
    <3>2. CASE q # p
      <4>1. ~(q \in alive /\ guard = Me(q))
        BY <1>1, <2>2, MineIsALock, <1>0 DEF AcquireGuard, GuardIsFree, Me
      <4>2. ~Guarded(q) BY <1>1, <4>1 DEF OwnsGuard
      <4>3. QED BY <2>1, <3>2, <4>2 DEF OwnsGuard, Guarded
    <3>3. QED BY <3>1, <3>2
  <2>3. CASE Release(p)
    <3>1. CASE q = p
      BY <1>0, <2>1, <2>3, <3>1 DEF TypeOK, Release, Stop, OwnsGuard, Guarded, Goto
    <3>2. CASE q # p
      <4>1. guard = Me(p) BY <1>1, <2>3 DEF OwnsGuard, Guarded, Release, At
      <4>2. ~Guarded(q) BY <1>1, <3>2, <4>1, MeIsMe DEF OwnsGuard
      <4>3. QED BY <2>1, <3>2, <4>2 DEF OwnsGuard, Guarded
    <3>3. QED BY <3>1, <3>2
  <2>4. CASE ~AcquireGuard(p) /\ ~Release(p)
    <3>1. guard' = guard /\ (Guarded(q)' => Guarded(q))
      BY <1>0, <2>1, <2>4 DEF TypeOK, Step, GuardHeld, Inspect, Recheck, Confirm, RemoveStale, Create,
         Write, WriteFails, CheckGuard, Finish, Cleanup, RemoveOwn, Fails, Stop, Guarded, Goto, At
    <3>2. QED BY <1>1, <2>1, <3>1 DEF OwnsGuard
  <2>5. QED BY <2>2, <2>3, <2>4
<1>2. CASE Kinds \subseteq {"sync"} /\ \A q \in Proc : RemovesNothing(q)
  <2> SUFFICES ASSUME NEW q \in Proc PROVE RemovesNothing(q)'
    BY <1>2 DEF Excludes
  <2>1. /\ kind'[q] = "sync" /\ (q # p => pc'[q] = pc[q])
        /\ pc[p] \notin {"recheck", "confirm", "remove"} /\ kind[p] = "sync"
    BY <1>0, <1>2 DEF TypeOK, RemovesNothing, Step, AcquireGuard, GuardHeld, Inspect, Recheck,
       Confirm, RemoveStale, Create, Write, WriteFails, CheckGuard, Finish, Cleanup, RemoveOwn,
       Fails, Stop, Release, Rest, Goto
  <2>2. pc'[p] \notin {"recheck", "confirm", "remove"}
    BY <1>0, <2>1 DEF TypeOK, Step, AcquireGuard, GuardHeld, Inspect, AfterInspection, Recheck,
       Confirm, RemoveStale, Create, Write, WriteFails, CheckGuard, Finish, Cleanup, RemoveOwn,
       Fails, Stop, Release, Goto, At
  <2>3. QED BY <1>2, <2>1, <2>2 DEF RemovesNothing
<1>3. QED BY <1>1, <1>2 DEF IInv, Excludes

\* Beginning an operation, and what happens to processes, disturbs nobody.
LEMMA RestStep ==
    ASSUME IInv, NEW p \in Proc, Environment(p) \/ \E k \in Kinds : Begin(p, k)
    PROVE  Excludes' /\ \A q \in Proc : OwnsFile(q)'
<1>0. TypeOK /\ TypeOK' BY TypeRest DEF IInv
<1>1. /\ file' = file /\ guard' = guard
      /\ \A q \in Proc : q # p =>
            /\ pc'[q] = pc[q] /\ kind'[q] = kind[q] /\ run'[q] = run[q]
            /\ (q \in alive) = (q \in alive')
  BY <1>0 DEF TypeOK, Environment, NoticeCompromise, FallAsleep, WakeUp, Crash, Begin, Rest,
     process, Stop, Goto
<1>2. /\ pc'[p] \in {pc[p], "idle", "guard"}
      /\ pc'[p] \notin {"idle", "guard"} =>
            run'[p] = run[p] /\ (p \in alive => p \in alive')
      /\ Kinds \subseteq {"sync"} /\ kind[p] = "sync" => kind'[p] = "sync"
  <2>1. CASE Environment(p)
    <3>1. /\ run' = run
          /\ kind' = kind \/ kind' = [kind EXCEPT ![p] = "sync"]
      BY <2>1 DEF Environment, NoticeCompromise, FallAsleep, WakeUp, Crash, Rest, process, Stop
    <3>2. CASE Crash(p) BY <1>0, <3>1, <3>2 DEF TypeOK, Crash, Stop, Goto
    <3>3. CASE ~Crash(p)
      <4>1. pc' = pc /\ alive' = alive
        BY <2>1, <3>3 DEF Environment, NoticeCompromise, FallAsleep, WakeUp, Rest, process
      <4>2. QED BY <1>0, <3>1, <4>1 DEF TypeOK
    <3>4. QED BY <3>2, <3>3
  <2>2. CASE \E k \in Kinds : Begin(p, k)
    BY <1>0, <2>2 DEF TypeOK, Begin, Goto
  <2>3. QED BY <2>1, <2>2
<1>3. ASSUME NEW q \in Proc PROVE OwnsFile(q)'
  BY <1>0, <1>1, <1>2 DEF IInv, OwnsFile, Mine
<1>4. ASSUME ~Suspends, asleep = {}, \A q \in Proc : OwnsGuard(q) PROVE Excludes'
  <2> SUFFICES ASSUME NEW q \in Proc PROVE OwnsGuard(q)' /\ asleep' = {}
    BY <1>4 DEF Excludes
  <2>1. asleep' = {} /\ \A r \in Proc : ~compromised'[r]
    BY <1>0, <1>4 DEF TypeOK, OwnsGuard, Environment, NoticeCompromise, FallAsleep, WakeUp, Crash,
       Begin, Rest, process, Guarded, Stop
  <2>2. QED BY <1>1, <1>2, <1>4, <2>1 DEF OwnsGuard, Guarded, Me
<1>5. ASSUME Kinds \subseteq {"sync"}, \A q \in Proc : RemovesNothing(q) PROVE Excludes'
  BY <1>1, <1>2, <1>5 DEF Excludes, RemovesNothing
<1>6. QED BY <1>3, <1>4, <1>5 DEF IInv, Excludes

-----------------------------------------------------------------------------
LockAssumption == ~Suspends \/ Kinds \subseteq {"sync"}

LEMMA InitIInv == ASSUME LockAssumption, Init PROVE IInv
<1>1. TypeOK BY TypeInit
<1>2. \A p \in Proc : OwnsFile(p) BY DEF Init, OwnsFile
<1>3. ASSUME ~Suspends PROVE Excludes
  BY <1>3 DEF Init, Excludes, OwnsGuard, Guarded
<1>4. ASSUME Kinds \subseteq {"sync"} PROVE Excludes
  BY <1>4 DEF Init, Excludes, RemovesNothing
<1>5. Excludes BY <1>3, <1>4 DEF LockAssumption
<1>6. QED BY <1>1, <1>2, <1>5 DEF IInv

LEMMA NextIInv == ASSUME IInv, [Next]_vars PROVE IInv'
<1>1. CASE UNCHANGED vars
  BY <1>1 DEF vars, process, IInv, TypeOK, Excludes, OwnsFile, OwnsGuard, RemovesNothing,
     Guarded, Mine, Me
<1>2. ASSUME NEW p \in Proc, Step(p) PROVE IInv'
  BY <1>2, TypeStep, ExcludesStep, OwnsFileStep DEF IInv
<1>3. ASSUME NEW p \in Proc, Environment(p) \/ \E k \in Kinds : Begin(p, k) PROVE IInv'
  BY <1>3, TypeRest, RestStep DEF IInv
<1>4. QED BY <1>1, <1>2, <1>3 DEF Next

\* Every variable keeps its type (the variables of state/lock.ts and the guard).
THEOREM LockTypeCorrect == Spec => []TypeOK
<1>1. TypeOK /\ UNCHANGED vars => TypeOK' BY DEF vars, process, TypeOK
<1>2. TypeOK /\ [Next]_vars => TypeOK' BY <1>1, TypeStep, TypeRest DEF Next
<1>3. QED BY TypeInit, <1>2, PTL DEF Spec

\* The lock file of a running operation stays its own until it ends: nobody
\* else removes or replaces it (lock.ts:47-98).
THEOREM LockIsOwned == LockAssumption /\ Spec => []RunningOwnsLock
<1>1. LockAssumption /\ Init => IInv BY InitIInv
<1>2. IInv /\ [Next]_vars => IInv' BY NextIInv
<1>3. IInv => RunningOwnsLock BY DEF IInv, OwnsFile, RunningOwnsLock
<1>4. QED BY <1>1, <1>2, <1>3, PTL DEF Spec

\* So two operations never run at once (lock.ts:74-77).
THEOREM LockExcludes == LockAssumption /\ Spec => []MutualExclusion
<1>1. RunningOwnsLock => MutualExclusion BY MineIsMine DEF RunningOwnsLock, MutualExclusion
<1>2. QED BY <1>1, LockIsOwned, PTL

-----------------------------------------------------------------------------
\* An operation that ends in any of its ways takes its lock file with it, or has
\* failed to.
LEMMA StepTakesItsLock ==
    ASSUME TypeOK, LiveLockIsInUse, NEW p \in Proc, Step(p) PROVE LiveLockIsInUse'
<1> DEFINE Phases == {"check", "running", "cleanup", "removeOwn"}
<1>0. TypeOK' /\ alive' = alive /\ run' = run
  BY TypeStep DEF Step, AcquireGuard, GuardHeld, Inspect, Recheck, Confirm, RemoveStale, Create,
     Write, WriteFails, CheckGuard, Finish, Cleanup, RemoveOwn, Fails, Release, Stop, Rest
<1> SUFFICES ASSUME NEW q \in alive, Valid(file'), file'.pid = q
             PROVE  (file'.id = run[q] /\ pc'[q] \in Phases) \/ left'
  BY <1>0 DEF LiveLockIsInUse, Valid
<1>1. q \in Proc /\ NoLock # file' BY DEF TypeOK, Valid
<1>2. CASE file' = file /\ pc'[q] = pc[q] /\ (left => left')
  BY <1>2 DEF LiveLockIsInUse
<1>3. CASE Write(p)
  BY <1>0, <1>1, <1>3 DEF Write, LiveLockIsInUse, Mine, Goto, At, TypeOK, Valid, Rest
<1>4. CASE Create(p) \/ RemoveStale(p) \/ RemoveOwn(p)
  BY <1>0, <1>1, <1>4 DEF Create, RemoveStale, RemoveOwn, LiveLockIsInUse, Mine, Goto, At, TypeOK,
     Valid, Rest
<1>5. CASE /\ p = q /\ file' = file /\ left' = left
           /\ AcquireGuard(p) \/ GuardHeld(p) \/ Inspect(p) \/ Recheck(p) \/ Confirm(p)
              \/ WriteFails(p) \/ CheckGuard(p) \/ Finish(p) \/ Cleanup(p) \/ Release(p)
  <2>1. (file.id = run[q] /\ pc[q] \in Phases) \/ left
    BY <1>5 DEF LiveLockIsInUse
  <2>2. CASE left BY <1>5, <2>2
  <2>3. CASE ~left
    <3>1. file = Mine(q, TRUE) BY <1>1, <1>5, <2>1, <2>3 DEF TypeOK, LockFile, Mine, Valid
    <3>2. QED
      BY <1>5, <2>1, <2>3, <3>1 DEF AcquireGuard, GuardHeld, Inspect, Recheck, Confirm,
         WriteFails, CheckGuard, Finish, Cleanup, Release, Stop, Goto, At, TypeOK
  <2>4. QED BY <2>2, <2>3
<1>6. CASE Fails(p)
  <2>1. file' = file /\ (left => left')
    <3>1. file' = file BY <1>6 DEF Fails
    <3>2. left' = left \/ left' = (left \/ file = Mine(p, TRUE)) BY <1>6 DEF Fails
    <3>3. left => left' BY <3>2, <1>0 DEF TypeOK
    <3>4. QED BY <3>1, <3>3
  <2>2. CASE p # q BY <1>2, <1>6, <2>1, <2>2, <1>1 DEF Fails, Goto, TypeOK
  <2>3. CASE p = q
    <3>1. (file.id = run[q] /\ pc[q] \in Phases) \/ left
      BY <2>1, <2>3 DEF LiveLockIsInUse
    <3>2. CASE left BY <2>1, <3>2
    <3>3. CASE ~left
      <4>1. file = Mine(q, TRUE)
        BY <1>1, <2>1, <3>1, <3>3 DEF TypeOK, LockFile, Mine, Valid
      <4>2. QED BY <1>6, <2>3, <3>1, <3>3, <4>1 DEF Fails
    <3>4. QED BY <3>2, <3>3
  <2>4. QED BY <2>2, <2>3
<1>7. QED
  BY <1>0, <1>2, <1>3, <1>4, <1>5, <1>6 DEF Step, AcquireGuard, GuardHeld, Inspect, Recheck,
     Confirm, WriteFails, CheckGuard, Finish, Cleanup, Release, Stop, Rest, Goto, TypeOK

LEMMA RestTakesItsLock ==
    ASSUME TypeOK, LiveLockIsInUse, NEW p \in Proc,
           Environment(p) \/ \E k \in Kinds : Begin(p, k)
    PROVE  LiveLockIsInUse'
<1>1. /\ file' = file /\ left' = left /\ alive' \in SUBSET alive
      /\ \A q \in alive' : q # p => pc'[q] = pc[q] /\ run'[q] = run[q]
  BY DEF TypeOK, Environment, NoticeCompromise, FallAsleep, WakeUp, Crash, Begin, Rest, process,
     Stop, Goto
<1>2. p \in alive' => \/ pc[p] = "idle"
                      \/ pc'[p] = pc[p] /\ run'[p] = run[p]
  BY DEF TypeOK, Environment, NoticeCompromise, FallAsleep, WakeUp, Crash, Begin, Rest, process,
     Stop, Goto, At
<1>3. QED BY <1>1, <1>2 DEF LiveLockIsInUse, Valid, TypeOK

\* A readable lock file of a living process belongs to what that process does
\* now, or is one its operation failed to read or remove when it ended
\* (lock.ts:83-91), whatever is run, and whoever sleeps.
THEOREM LiveLockHasItsOperation == Spec => []LiveLockIsInUse
<1>1. Init => LiveLockIsInUse BY DEF Init, LiveLockIsInUse, Valid
<1>2. LiveLockIsInUse /\ UNCHANGED vars => LiveLockIsInUse'
  BY DEF vars, process, LiveLockIsInUse, Valid
<1>3. TypeOK /\ LiveLockIsInUse /\ [Next]_vars => LiveLockIsInUse'
  BY <1>2, StepTakesItsLock, RestTakesItsLock DEF Next
<1>4. QED BY <1>1, <1>3, LockTypeCorrect, PTL DEF Spec
=============================================================================
