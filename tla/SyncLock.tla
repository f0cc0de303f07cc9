------------------------------ MODULE SyncLock ------------------------------
(***************************************************************************)
(* The operation lock of one pi-sync installation (state/lock.ts).  Every  *)
(* operation first takes a guard, a directory its owner keeps refreshing   *)
(* and that expires when the owner stops doing so; holding the guard it    *)
(* reads the lock file, creates its own, runs, and removes it again.  The  *)
(* lock file names its owner, so that one left by a dead process can be    *)
(* told from one whose owner lives.                                        *)
(*                                                                         *)
(* The lock file may be unreadable or undeletable at any step (Fails); an  *)
(* owner that may not be signalled (kill answers EPERM) is judged by the   *)
(* age of its lock, so it may pass for dead while it lives (Foreign).      *)
(* Process ids are not reused, an expired guard is taken over in one step, *)
(* and a guard that cannot be removed counts as expired.                   *)
(***************************************************************************)
EXTENDS Integers

CONSTANTS
    Proc,           \* the Pi processes that share the state directory
    Kinds,          \* what they run, a subset of Kind
    Foreign,        \* processes of other users, which nobody else may signal
    Suspends,       \* may a process sleep long enough for its guard to expire?
    NoLock,         \* no lock file, no guard
    MaxRun          \* distinct lock ids per process

Kind == {"sync", "recovery", "unlock", "unlock --stale"}

ASSUME KindsAssumption == Kinds \subseteq Kind
ASSUME ForeignAssumption == Foreign \subseteq Proc
ASSUME SuspendsAssumption == Suspends \in BOOLEAN
ASSUME MaxRunAssumption == MaxRun \in Nat \ {0}

Owner == [pid : Proc, id : 1 .. MaxRun]
LockFile == [pid : Proc, id : 1 .. MaxRun, written : BOOLEAN]

ASSUME NoLockAssumption == NoLock \notin Owner /\ NoLock \notin LockFile

VARIABLES
    file,           \* the lock file
    guard,          \* who took the guard last
    pc, kind, run,  \* what each process is doing
    seen,           \* the lock file as a process inspected it
    compromised,    \* has a process noticed that its guard was taken over?
    alive, asleep,  \* the processes that exist, and those that are suspended
    left            \* history: has the owner of the lock file failed to remove it?

process == <<pc, kind, run, seen, compromised>>
vars == <<file, guard, process, alive, asleep, left>>

Init ==
    /\ file = NoLock /\ guard = NoLock
    /\ pc = [p \in Proc |-> "idle"]
    /\ kind = [p \in Proc |-> "sync"]
    /\ run = [p \in Proc |-> 1]
    /\ seen = [p \in Proc |-> NoLock]
    /\ compromised = [p \in Proc |-> FALSE]
    /\ alive = Proc /\ asleep = {} /\ left = FALSE

Me(p) == [pid |-> p, id |-> run[p]]
Mine(p, written) == [pid |-> p, id |-> run[p], written |-> written]

Valid(f) == f # NoLock /\ f.written
Unreadable(f) == f # NoLock /\ ~f.written

\* What process.kill(pid, 0), and then the age of the lock, may tell `p`.
IsStale(p, f) ==
    IF ~Valid(f) THEN {FALSE}
    ELSE IF f.pid \notin alive THEN {TRUE}
    ELSE IF f.pid \in Foreign \ {p} THEN BOOLEAN ELSE {FALSE}

\* proper-lockfile: nobody holds the guard, or nobody refreshes it any more.
GuardIsFree == guard # NoLock => guard.pid \notin alive \/ guard.pid \in asleep

At(p, phase) == p \in alive /\ p \notin asleep /\ pc[p] = phase

Goto(p, phase) == pc' = [pc EXCEPT ![p] = phase]

Rest == UNCHANGED <<kind, run, alive, asleep, left>>

\* The process has nothing to do, and its variables are gone.
Stop(p) ==
    /\ Goto(p, "idle")
    /\ kind' = [kind EXCEPT ![p] = "sync"]
    /\ seen' = [seen EXCEPT ![p] = NoLock]
    /\ compromised' = [compromised EXCEPT ![p] = FALSE]
    /\ UNCHANGED run

-----------------------------------------------------------------------------
\* Ids are distinct: where nothing sleeps one is reused when no file has it.
Free(p, id) == file # NoLock => ~(file.pid = p /\ file.id = id)

Fresh(p, id) ==
    /\ Free(p, id)
    /\ IF Suspends THEN id = run[p] + 1 ELSE \A i \in 1 .. id - 1 : ~Free(p, i)

Begin(p, k) ==
    /\ At(p, "idle")
    /\ k \in Kinds
    /\ kind' = [kind EXCEPT ![p] = k]
    /\ \E id \in 1 .. MaxRun : Fresh(p, id) /\ run' = [run EXCEPT ![p] = id]
    /\ Goto(p, "guard")
    /\ UNCHANGED <<file, guard, seen, compromised, alive, asleep, left>>

\* (slip) The guard is taken whether or not somebody refreshes it.
AcquireAnyGuard(p) ==
    /\ At(p, "guard")
    /\ guard' = Me(p)
    /\ Goto(p, "inspect")
    /\ UNCHANGED <<file, seen, compromised>> /\ Rest

AcquireGuard(p) ==
    /\ At(p, "guard")
    /\ GuardIsFree
    /\ guard' = Me(p)
    /\ Goto(p, "inspect")
    /\ UNCHANGED <<file, seen, compromised>> /\ Rest

GuardHeld(p) ==
    /\ At(p, "guard")
    /\ ~GuardIsFree
    /\ Stop(p)
    /\ UNCHANGED <<file, guard, alive, asleep, left>>

\* What withLock and unlock do about the lock file they find.
AfterInspection(k, f, stale) ==
    IF k \in {"sync", "recovery"}
    THEN IF f = NoLock THEN "create"
         ELSE IF stale /\ k = "recovery" THEN "recheck"
         ELSE "cleanup"
    ELSE IF Unreadable(f) /\ k = "unlock --stale" THEN "confirm"
         ELSE IF stale THEN "remove"
         ELSE "release"

Inspect(p) ==
    /\ At(p, "inspect")
    /\ \E stale \in IsStale(p, file) : Goto(p, AfterInspection(kind[p], file, stale))
    /\ seen' = [seen EXCEPT ![p] = IF kind[p] = "recovery" THEN file ELSE NoLock]
    /\ UNCHANGED <<file, guard, compromised>> /\ Rest

\* Startup recovery reads the lock file once more before it removes it.
Recheck(p) ==
    /\ At(p, "recheck")
    /\ \E stale \in IsStale(p, file) :
          Goto(p, IF ~compromised[p] /\ file = seen[p] /\ stale THEN "remove" ELSE "cleanup")
    /\ UNCHANGED <<file, guard, seen, compromised>> /\ Rest

\* An unreadable file is inspected again before --stale removes it.
Confirm(p) ==
    /\ At(p, "confirm")
    /\ \E stale \in IsStale(p, file) :
          Goto(p, IF Unreadable(file) \/ stale THEN "remove" ELSE "release")
    /\ UNCHANGED <<file, guard, seen, compromised>> /\ Rest

RemoveStale(p) ==
    /\ At(p, "remove")
    /\ file' = NoLock /\ left' = FALSE
    /\ Goto(p, IF kind[p] = "recovery" THEN "create" ELSE "release")
    /\ UNCHANGED <<guard, seen, compromised, kind, run, alive, asleep>>

-----------------------------------------------------------------------------
(* writeFile with the flag "wx": the file exists before it has contents. *)

\* (slip) The file is opened without "x".
CreateAnyway(p) ==
    /\ At(p, "create")
    /\ file' = Mine(p, FALSE) /\ Goto(p, "write")
    /\ UNCHANGED <<guard, seen, compromised>> /\ Rest

Create(p) ==
    /\ At(p, "create")
    /\ IF file = NoLock
       THEN file' = Mine(p, FALSE) /\ Goto(p, "write")
       ELSE file' = file /\ Goto(p, "cleanup")
    /\ UNCHANGED <<guard, seen, compromised>> /\ Rest

Write(p) ==
    /\ At(p, "write")
    /\ file' = IF file = Mine(p, FALSE) THEN Mine(p, TRUE) ELSE file
    /\ Goto(p, "check")
    /\ UNCHANGED <<guard, seen, compromised>> /\ Rest

\* The disk is full: the file stays behind without its contents.
WriteFails(p) ==
    /\ At(p, "write")
    /\ Goto(p, "cleanup")
    /\ UNCHANGED <<file, guard, seen, compromised>> /\ Rest

\* (slip) An operation that lost its guard skips the removal of its lock file.
CheckGuardAndLeave(p) ==
    /\ At(p, "check")
    /\ Goto(p, IF compromised[p] THEN "release" ELSE "running")
    /\ UNCHANGED <<file, guard, seen, compromised>> /\ Rest

CheckGuard(p) ==
    /\ At(p, "check")
    /\ Goto(p, IF compromised[p] THEN "cleanup" ELSE "running")
    /\ UNCHANGED <<file, guard, seen, compromised>> /\ Rest

Finish(p) ==
    /\ At(p, "running")
    /\ Goto(p, "cleanup")
    /\ UNCHANGED <<file, guard, seen, compromised>> /\ Rest

-----------------------------------------------------------------------------
\* The lock file cannot be read, created or removed.  Before the operation that
\* fails it; afterwards it is at most reported, and the lock file stays behind.
Fails(p) ==
    /\ p \in alive \ asleep
    /\ \/ /\ pc[p] \in {"inspect", "recheck", "confirm", "remove", "create"}
          /\ Goto(p, IF kind[p] \in {"sync", "recovery"} THEN "cleanup" ELSE "release")
          /\ left' = left
       \/ /\ pc[p] \in {"cleanup", "removeOwn"}
          /\ Goto(p, "release")
          /\ left' = (left \/ file = Mine(p, TRUE))
    /\ UNCHANGED <<file, guard, seen, compromised, kind, run, alive, asleep>>

Cleanup(p) ==
    /\ At(p, "cleanup")
    /\ Goto(p, IF file = Mine(p, TRUE) THEN "removeOwn" ELSE "release")
    /\ UNCHANGED <<file, guard, seen, compromised>> /\ Rest

RemoveOwn(p) ==
    /\ At(p, "removeOwn")
    /\ file' = NoLock /\ left' = FALSE
    /\ Goto(p, "release")
    /\ UNCHANGED <<guard, seen, compromised, kind, run, alive, asleep>>

\* (slip) The guard is never released.
KeepGuard(p) ==
    /\ At(p, "release")
    /\ Stop(p)
    /\ UNCHANGED <<file, guard, alive, asleep, left>>

\* The guard is removed by its name, unless its loss was noticed.
Release(p) ==
    /\ At(p, "release")
    /\ guard' = IF compromised[p] THEN guard ELSE NoLock
    /\ Stop(p)
    /\ UNCHANGED <<file, alive, asleep, left>>

-----------------------------------------------------------------------------
(* The environment. *)

Guarded(p) == pc[p] \notin {"idle", "guard"}

\* The refresh of the guard finds that it is another's.
NoticeCompromise(p) ==
    /\ p \in alive \ asleep
    /\ Guarded(p) /\ guard # Me(p) /\ ~compromised[p]
    /\ compromised' = [compromised EXCEPT ![p] = TRUE]
    /\ UNCHANGED <<file, guard, pc, seen>> /\ Rest

\* A suspended process refreshes nothing; it resumes where it stopped.
FallAsleep(p) ==
    /\ Suspends /\ p \in alive \ asleep /\ Guarded(p)
    /\ asleep' = asleep \cup {p}
    /\ UNCHANGED <<file, guard, process, alive, left>>

WakeUp(p) ==
    /\ p \in asleep
    /\ asleep' = asleep \ {p}
    /\ UNCHANGED <<file, guard, process, alive, left>>

Crash(p) ==
    /\ p \in alive
    /\ alive' = alive \ {p} /\ asleep' = asleep \ {p}
    /\ Stop(p)
    /\ UNCHANGED <<file, guard, left>>

-----------------------------------------------------------------------------
Step(p) ==
    \/ AcquireGuard(p) \/ GuardHeld(p) \/ Inspect(p)
    \/ Recheck(p) \/ Confirm(p) \/ RemoveStale(p)
    \/ Create(p) \/ Write(p) \/ WriteFails(p) \/ CheckGuard(p) \/ Finish(p)
    \/ Cleanup(p) \/ RemoveOwn(p) \/ Fails(p) \/ Release(p)

Environment(p) ==
    NoticeCompromise(p) \/ FallAsleep(p) \/ WakeUp(p) \/ Crash(p)

Next ==
    \E p \in Proc : (\E k \in Kinds : Begin(p, k)) \/ Step(p) \/ Environment(p)

Spec == Init /\ [][Next]_vars

\* Operations end, and the file system does not fail for ever; each who lives
\* retries while no guard is refreshed, and does not lose every race for it.
Fairness(retried) ==
    /\ <>[][\A p \in Proc : ~Fails(p)]_vars
    /\ \A p \in Proc :
          /\ WF_vars(Step(p))
          /\ SF_vars(Begin(p, retried) /\ GuardIsFree)
          /\ SF_vars(AcquireGuard(p) /\ kind[p] = retried)

-----------------------------------------------------------------------------
Phase == {"idle", "guard", "inspect", "recheck", "confirm", "remove", "create", "write",
          "check", "running", "cleanup", "removeOwn", "release"}

\* Every variable keeps its type.
TypeOK ==
    /\ file \in LockFile \cup {NoLock}
    /\ guard \in Owner \cup {NoLock}
    /\ pc \in [Proc -> Phase]
    /\ kind \in [Proc -> Kind]
    /\ run \in [Proc -> 1 .. MaxRun]
    /\ seen \in [Proc -> LockFile \cup {NoLock}]
    /\ compromised \in [Proc -> BOOLEAN]
    /\ alive \in SUBSET Proc /\ asleep \in SUBSET alive
    /\ left \in BOOLEAN

\* Two operations never run at once (lock.ts:40-98).
MutualExclusion ==
    \A p, q \in Proc : pc[p] = "running" /\ pc[q] = "running" => p = q

\* Nobody, neither a recovery nor an unlock, removes or replaces the lock file
\* of an operation that runs.
RunningOwnsLock ==
    \A p \in Proc : pc[p] = "running" => file = Mine(p, TRUE)

\* A readable lock file of a living process belongs to what that process does
\* now: an operation that ends, whatever way and whoever holds the guard by
\* then, takes its lock file with it, unless the file could not be read or
\* removed at that moment (lock.ts:83-91, which does not try again).
LiveLockIsInUse ==
    \A p \in alive : Valid(file) /\ file.pid = p =>
        \/ file.id = run[p] /\ pc[p] \in {"check", "running", "cleanup", "removeOwn"}
        \/ left

\* An operation of a process that lives failed to remove its lock file: nobody
\* may take it from its owner, and its owner does not try again.
LeftByTheLiving == left /\ file # NoLock /\ file.pid \in alive

\* Whatever a crash, a full disk or a failing file system leaves behind, /sync
\* unlock --stale gets the lock free again as long as somebody lives to run it,
\* except from a living process that could not remove its own
\* (lock.ts:179-225).
LockIsFreedAgain == []<>(file = NoLock \/ LeftByTheLiving \/ alive = {})

=============================================================================
