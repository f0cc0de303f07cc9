----------------------------- MODULE RemoteHead -----------------------------
(***************************************************************************)
(* What every backend of pi-sync promises about the active snapshot        *)
(* (SyncBackend.publishSnapshot in backends/sync-backend.ts): a publisher  *)
(* names the head it has seen, and the head is replaced only while it is   *)
(* still that one.  A publisher that is told "rejected" will never see its *)
(* snapshot active, a publisher that is told "published" has.  Without an  *)
(* answer it may become active at any later time.                          *)
(***************************************************************************)
CONSTANTS
    Snapshot,   \* identities of snapshots, each published at most once
    None

VARIABLES
    head,       \* the active snapshot
    ever,       \* the snapshots that were active at some time
    asked,      \* the snapshots whose publication was begun
    pending,    \* publications that may still become active
    published,  \* snapshots whose publisher was told that they became active
    rejected    \* snapshots whose publisher was told that they did not

vars == <<head, ever, asked, pending, published, rejected>>

Publication == [new : Snapshot, expected : Snapshot \cup {None}]

Init ==
    /\ head = None /\ ever = {} /\ asked = {}
    /\ pending = {} /\ published = {} /\ rejected = {}

Ask(q) ==
    /\ q.new \notin asked
    /\ asked' = asked \cup {q.new}
    /\ pending' = pending \cup {q}
    /\ UNCHANGED <<head, ever, published, rejected>>

Replace(q) ==
    /\ q \in pending /\ head = q.expected
    /\ head' = q.new
    /\ ever' = ever \cup {q.new}
    /\ pending' = pending \ {q}
    /\ UNCHANGED <<asked, published, rejected>>

Forget(q) ==
    /\ pending' = pending \ {q}
    /\ UNCHANGED <<head, ever, asked, published, rejected>>

Confirm(s) ==
    /\ s \in ever
    /\ published' = published \cup {s}
    /\ UNCHANGED <<head, ever, asked, pending, rejected>>

Reject(s) ==
    /\ s \in asked \ ever
    /\ rejected' = rejected \cup {s}
    /\ pending' = {q \in pending : q.new # s}
    /\ UNCHANGED <<head, ever, asked, published>>

Next ==
    \/ \E q \in Publication : Ask(q) \/ Replace(q) \/ Forget(q)
    \/ \E s \in Snapshot : Confirm(s) \/ Reject(s)

Spec == Init /\ [][Next]_vars

\* What a publisher was told stays true: "published" was active, "rejected"
\* never becomes active.
AnswersAreTrue == published \subseteq ever /\ rejected \cap ever = {}
=============================================================================
