----------------------------- MODULE GitBackend -----------------------------
(***************************************************************************)
(* Publication to a branch of a Git repository that pi-sync owns           *)
(* (backends/git/git-backend.ts).                                          *)
(*                                                                         *)
(* A publisher fetches the branch, compares it with the head its caller    *)
(* has reviewed, builds a commit on top of it in its private cache, and    *)
(* pushes it with a lease on the commit it has fetched.  A git that is     *)
(* killed may have sent its push, so the publisher believes the branch and *)
(* not git: it fetches again.                                              *)
(*                                                                         *)
(* A commit is named by the snapshot it holds.  What git knows of a commit *)
(* is its line: the commits on its first-parent path, the oldest first.    *)
(***************************************************************************)
EXTENDS Integers, Sequences

CONSTANTS
    Device,
    Snapshot,           \* identities of snapshots
    MaxListed,          \* how many commits rev-list is asked for (100 in the code)
    None

ASSUME MaxListedAssumption == MaxListed \in Nat \ {0}
ASSUME NoneAssumption == None \notin Snapshot

VARIABLES
    branch,     \* the commit of the owned branch
    line,       \* line[c]: the first-parent path that ends in commit c
    pushes,     \* pushes that were sent and not received
    op,         \* op[d]: what device d does
    used, ever, \* history: snapshots published, snapshots that were active
    order,      \* history: the same, in the order in which they became active
    published, rejected     \* history: what the publishers were told

vars == <<branch, line, pushes, op, used, ever, order, published, rejected>>

Idle == [pc |-> "idle", new |-> None, expected |-> None, error |-> FALSE]

Init ==
    /\ branch = None /\ line = [c \in Snapshot |-> <<>>] /\ pushes = {}
    /\ op = [d \in Device |-> Idle]
    /\ used = {} /\ ever = {} /\ order = <<>> /\ published = {} /\ rejected = {}

-----------------------------------------------------------------------------
At(d, pc) == op[d].pc = pc
Go(d, pc) == op' = [op EXCEPT ![d].pc = pc]

Finish(d) == op' = [op EXCEPT ![d] = Idle]
Report(d, error) == op' = [op EXCEPT ![d].pc = "verify", ![d].error = error]
Remote == UNCHANGED <<branch, ever, order, pushes>>
Told == UNCHANGED <<used, published, rejected>>

Line(c) == IF c = None THEN <<>> ELSE line[c]

\* rev-list --max-count takes the newest commits, and --reverse then turns them.
Newest(s) ==
    IF Len(s) <= MaxListed THEN s ELSE SubSeq(s, Len(s) - MaxListed + 1, Len(s))

\* What listHistory shows, and what a rollback may name by its snapshot id.
Listed == Newest(Line(branch))
Resolves(s) ==
    \E i \in DOMAIN Listed :
        Listed[i] = s /\ \A j \in DOMAIN Listed : Listed[j] = s => j = i

\* The caller read the head some time before it publishes.
Begin(d, s) ==
    /\ At(d, "idle") /\ s \notin used
    /\ op' = [op EXCEPT ![d] = [pc |-> "fetch", new |-> s, expected |-> branch, error |-> FALSE]]
    /\ used' = used \cup {s}
    /\ Remote /\ UNCHANGED <<line, published, rejected>>

\* fetchRemoteHead and the comparison.
Fetch(d) ==
    /\ At(d, "fetch")
    /\ IF branch = op[d].expected
       THEN Go(d, "commit") /\ UNCHANGED rejected
       ELSE Finish(d) /\ rejected' = rejected \cup {op[d].new}
    /\ Remote /\ UNCHANGED <<line, used, published>>

\* (slip) The commit has no parent.
CreateOrphan(d) ==
    /\ At(d, "commit")
    /\ line' = [line EXCEPT ![op[d].new] = <<op[d].new>>]
    /\ Go(d, "push")
    /\ Remote /\ Told

CreateCommit(d) ==
    /\ At(d, "commit")
    /\ line' = [line EXCEPT ![op[d].new] = Append(Line(op[d].expected), op[d].new)]
    /\ Go(d, "push")
    /\ Remote /\ Told

\* Cancelled by the user, or a git that fails before the push.
Abort(d) ==
    /\ op[d].pc \in {"fetch", "commit", "push"}
    /\ Finish(d)
    /\ Remote /\ Told /\ UNCHANGED line

\* onCommit: the publication boundary.
Push(d) ==
    /\ At(d, "push")
    /\ pushes' = pushes \cup {[by |-> d, new |-> op[d].new, lease |-> op[d].expected]}
    /\ Go(d, "await")
    /\ Told /\ UNCHANGED <<branch, line, ever, order>>

\* git fails, or is killed when its time is over: the push may still arrive.
PushError(d) ==
    /\ At(d, "await")
    /\ Report(d, TRUE)
    /\ Remote /\ Told /\ UNCHANGED line

\* (slip) Git is believed when it reports an error.
BelieveGit(d) ==
    /\ At(d, "verify")
    /\ Finish(d)
    /\ IF op[d].error
       THEN rejected' = rejected \cup {op[d].new} /\ UNCHANGED published
       ELSE published' = published \cup {op[d].new} /\ UNCHANGED rejected
    /\ Remote /\ UNCHANGED <<line, used>>

\* Any other head is a failure or a conflict after the commit, and the
\* snapshot may have been active; so it is when the branch cannot be read.
Verify(d) ==
    /\ At(d, "verify")
    /\ Finish(d)
    /\ IF branch = op[d].new
       THEN published' = published \cup {op[d].new}
       ELSE UNCHANGED published
    /\ Remote /\ UNCHANGED <<line, used, rejected>>

OutcomeUnknown(d) ==
    /\ At(d, "verify")
    /\ Finish(d)
    /\ Remote /\ Told /\ UNCHANGED line

Crash(d) ==
    /\ ~At(d, "idle")
    /\ Finish(d)
    /\ Remote /\ Told /\ UNCHANGED line

-----------------------------------------------------------------------------
(* The repository and the network. *)

Awaits(p) == At(p.by, "await") /\ op[p.by].new = p.new

\* The answer may be lost, or come after git was killed.
Answered(p, error) ==
    \/ UNCHANGED op
    \/ Awaits(p) /\ Report(p.by, error)

\* (slip) --force without a lease.
ReceiveForced(p) ==
    /\ branch' = p.new
    /\ ever' = ever \cup {p.new} /\ order' = Append(order, p.new)
    /\ pushes' = pushes \ {p}
    /\ Answered(p, FALSE)
    /\ Told /\ UNCHANGED line

Receive(p) ==
    /\ branch = p.lease
    /\ branch' = p.new
    /\ ever' = ever \cup {p.new} /\ order' = Append(order, p.new)
    /\ pushes' = pushes \ {p}
    /\ Answered(p, FALSE)
    /\ Told /\ UNCHANGED line

\* The lease does not hold, or the repository refuses for a reason of its own.
Refuse(p) ==
    /\ pushes' = pushes \ {p}
    /\ Answered(p, TRUE)
    /\ Told /\ UNCHANGED <<branch, line, ever, order>>

-----------------------------------------------------------------------------
DeviceStep(d) ==
    \/ \E s \in Snapshot : Begin(d, s)
    \/ Fetch(d) \/ CreateCommit(d) \/ Abort(d) \/ Push(d) \/ PushError(d)
    \/ Verify(d) \/ OutcomeUnknown(d) \/ Crash(d)

Next ==
    \/ \E d \in Device : DeviceStep(d)
    \/ \E p \in pushes : Receive(p) \/ Refuse(p)

Spec == Init /\ [][Next]_vars

-----------------------------------------------------------------------------
Operation ==
    [pc : {"idle", "fetch", "commit", "push", "await", "verify"},
     new : Snapshot \cup {None}, expected : Snapshot \cup {None}, error : BOOLEAN]

\* Every variable keeps its type; nothing of a publication outlives it but a
\* push that was sent.
TypeOK ==
    /\ branch \in Snapshot \cup {None}
    /\ line \in [Snapshot -> Seq(Snapshot)]
    /\ pushes \subseteq [by : Device, new : Snapshot, lease : Snapshot \cup {None}]
    /\ op \in [Device -> Operation]
    /\ \A d \in Device : IF At(d, "idle") THEN op[d] = Idle ELSE op[d].new \in used
    /\ used \subseteq Snapshot /\ ever \subseteq used /\ order \in Seq(Snapshot)
    /\ published \subseteq used /\ rejected \subseteq used

\* listHistory shows the newest MaxListed of the snapshots that ever became
\* active, oldest first and each once, and each of them, and nothing else, can be
\* rolled back to by its id: no publication rewrites the branch, whichever pushes
\* arrive late (git-backend.ts:236-253 and 316-333).
HistoryIsComplete ==
    /\ Listed = Newest(order)
    /\ \A s \in Snapshot :
          Resolves(s) <=> \E i \in DOMAIN Newest(order) : Newest(order)[i] = s

\* A device that was told "published" finds its commit on the branch for ever,
\* at the place right behind the head it had reviewed; a commit that is no longer
\* listed can still be read by its hash (git-backend.ts:100-105).
PublishedStandsBehindReviewed ==
    \A s \in published :
        \E i \in DOMAIN Line(branch) : SubSeq(Line(branch), 1, i) = line[s]

\* The publications that may still become active.
Pending ==
    {[new |-> op[d].new, expected |-> op[d].expected] :
        d \in {x \in Device : op[x].pc \in {"fetch", "commit", "push"}}}
    \cup {[new |-> p.new, expected |-> p.lease] : p \in pushes}

Promise == INSTANCE RemoteHead WITH head <- branch, asked <- used, pending <- Pending

\* A Git branch keeps the promise of RemoteHead.
ImplementsRemoteHead == Promise!Spec
=============================================================================
