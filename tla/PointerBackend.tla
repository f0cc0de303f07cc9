--------------------------- MODULE PointerBackend ---------------------------
(***************************************************************************)
(* Publication to an object store: S3, R2 and WebDAV                       *)
(* (backends/s3/s3-backend.ts, backends/webdav/webdav-backend.ts).         *)
(*                                                                         *)
(* A publisher proves on a probe object that the store honours conditions, *)
(* stores the immutable snapshot, reads latest.json and compares it with   *)
(* the head its caller has reviewed, and replaces it by a conditional PUT. *)
(* It then reads it back and adds the snapshot to history.json, with       *)
(* another conditional PUT.  From the first PUT on it cannot be cancelled, *)
(* it can only time out; a PUT that was sent may be served at any later    *)
(* time.                                                                   *)
(*                                                                         *)
(* The strong ETag of a file stands for its content: identities of         *)
(* snapshots are never reused, so neither are the contents of latest.json. *)
(***************************************************************************)
EXTENDS Integers, Sequences, FiniteSets

CONSTANTS
    Device,
    Snapshot,           \* identities of snapshots
    None,
    Limit,              \* entries of history.json (100 in the code)
    Repairs             \* does the doctor repair the history (WebDAV)?

ASSUME LimitAssumption == Limit \in Nat \ {0}
ASSUME RepairAssumption == Repairs \in BOOLEAN

\* The contents of history.json.
Lists == UNION {[1 .. n -> Snapshot] : n \in 0 .. Limit}

ASSUME NoneAssumption == None \notin Snapshot /\ None \notin Lists

VARIABLES
    store,      \* "strict" honours conditions, "lax" ignores them
    latest,     \* latest.json
    history,    \* history.json, or None
    stored,     \* the snapshots in snapshots/
    requests,   \* PUTs that were sent and not served
    op,         \* op[d]: what device d does
    used, ever, \* history: snapshots published, snapshots that were active
    published, rejected     \* history: what the publishers were told

vars == <<store, latest, history, stored, requests, op, used, ever, published, rejected>>

Idle == [pc |-> "idle", new |-> None, expected |-> None, seen |-> None]

Init ==
    /\ store \in {"strict", "lax"}
    /\ latest = None /\ history = None /\ stored = {} /\ requests = {}
    /\ op = [d \in Device |-> Idle]
    /\ used = {} /\ ever = {} /\ published = {} /\ rejected = {}

-----------------------------------------------------------------------------
At(d, pc) == op[d].pc = pc
Go(d, pc) == op' = [op EXCEPT ![d].pc = pc]
Finish(d) == op' = [op EXCEPT ![d] = Idle]
See(d, pc, list) == op' = [op EXCEPT ![d].pc = pc, ![d].seen = list]
Store == UNCHANGED <<store, latest, history, stored, ever>>
Told == UNCHANGED <<used, published, rejected>>

PutLatest(d) == [file |-> "latest", by |-> d, new |-> op[d].new, match |-> op[d].expected]
PutHistory(d, list) == [file |-> "history", by |-> d, new |-> list, match |-> op[d].seen]

Listed(list) == IF list = None THEN <<>> ELSE list
Entries(list) == {Listed(list)[i] : i \in DOMAIN Listed(list)}

\* The last entries of a history with one more.
Extended(list, s) ==
    LET all == Append(Listed(list), s)
    IN  SubSeq(all, IF Len(all) > Limit THEN 2 ELSE 1, Len(all))

-----------------------------------------------------------------------------
(* publishSnapshot. *)

\* The caller read the head some time before it publishes.
Begin(d, s) ==
    /\ At(d, "idle") /\ s \notin used
    /\ op' = [op EXCEPT ![d] = [pc |-> "probe", new |-> s, expected |-> latest, seen |-> None]]
    /\ used' = used \cup {s}
    /\ Store /\ UNCHANGED <<requests, published, rejected>>

\* (slip) The store is trusted to honour conditions.
TrustStore(d) ==
    /\ At(d, "probe")
    /\ Go(d, "stage")
    /\ Store /\ Told /\ UNCHANGED requests

Probe(d) ==
    /\ At(d, "probe")
    /\ IF store = "strict" THEN Go(d, "stage") ELSE Finish(d)
    /\ Store /\ Told /\ UNCHANGED requests

\* (slip) The pointer is published before its snapshot.
StageLater(d) ==
    /\ At(d, "stage")
    /\ Go(d, "compare")
    /\ Store /\ Told /\ UNCHANGED requests

Stage(d) ==
    /\ At(d, "stage")
    /\ stored' = stored \cup {op[d].new}
    /\ Go(d, "compare")
    /\ Told /\ UNCHANGED <<store, latest, history, ever, requests>>

Compare(d) ==
    /\ At(d, "compare")
    /\ IF latest = op[d].expected
       THEN Go(d, "commit") /\ UNCHANGED rejected
       ELSE Finish(d) /\ rejected' = rejected \cup {op[d].new}
    /\ Store /\ UNCHANGED <<requests, used, published>>

\* Cancelled by the user, or a request that fails: nothing was sent yet.
Abort(d) ==
    /\ op[d].pc \in {"probe", "stage", "compare", "commit"}
    /\ Finish(d)
    /\ Store /\ Told /\ UNCHANGED requests

\* onCommit: the publication boundary.
Commit(d) ==
    /\ At(d, "commit")
    /\ requests' = requests \cup {PutLatest(d)}
    /\ Go(d, "await")
    /\ Store /\ Told

\* (slip) An expired request counts as refused.
TimeoutRejects(d) ==
    /\ op[d].pc \in {"await", "verify", "list", "append"}
    /\ Finish(d)
    /\ rejected' = IF At(d, "await") THEN rejected \cup {op[d].new} ELSE rejected
    /\ Store /\ UNCHANGED <<requests, used, published>>

\* The outcome is unknown, or the history a warning.
Timeout(d) ==
    /\ op[d].pc \in {"await", "verify", "list", "append"}
    /\ Finish(d)
    /\ Store /\ Told /\ UNCHANGED requests

Verify(d) ==
    /\ At(d, "verify")
    /\ IF latest = op[d].new
       THEN Go(d, "list") /\ published' = published \cup {op[d].new}
       ELSE Finish(d) /\ UNCHANGED published
    /\ Store /\ UNCHANGED <<requests, used, rejected>>

-----------------------------------------------------------------------------
(* updateHistory, ensureHistoryPointer. *)

\* (slip) The entry is appended without a look at the list.
AppendAlways(d) ==
    /\ At(d, "list")
    /\ See(d, "append", history)
    /\ Store /\ Told /\ UNCHANGED requests

ReadHistory(d) ==
    /\ At(d, "list")
    /\ IF op[d].new \in Entries(history) THEN Finish(d)
       ELSE See(d, "append", history)
    /\ Store /\ Told /\ UNCHANGED requests

WriteHistory(d) ==
    /\ At(d, "append")
    /\ requests' = requests \cup {PutHistory(d, Extended(op[d].seen, op[d].new))}
    /\ Finish(d)
    /\ Store /\ Told

\* The doctor of WebDAV lists the active snapshot again.
Repair(d) ==
    /\ Repairs /\ At(d, "idle") /\ latest # None
    /\ op' = [op EXCEPT ![d] = [pc |-> "list", new |-> latest, expected |-> None, seen |-> None]]
    /\ Store /\ Told /\ UNCHANGED requests

-----------------------------------------------------------------------------
(* The store and the network. *)

\* (slip) The history is written without a condition.
HoldsForLatest(r) == r.file = "history" \/ latest = r.match

Holds(r) == (IF r.file = "latest" THEN latest ELSE history) = r.match

Awaits(r) == r.file = "latest" /\ At(r.by, "await") /\ op[r.by].new = r.new

\* The answer may be lost, or come after its sender gave up.
Serve(r) ==
    /\ store = "strict" => Holds(r)
    /\ IF r.file = "latest"
       THEN latest' = r.new /\ ever' = ever \cup {r.new} /\ UNCHANGED history
       ELSE history' = r.new /\ UNCHANGED <<latest, ever>>
    /\ requests' = requests \ {r}
    /\ UNCHANGED op \/ (Awaits(r) /\ Go(r.by, "verify"))
    /\ Told /\ UNCHANGED <<store, stored>>

\* 412, or 409 for another request in progress.
Refuse(r) ==
    /\ store = "strict"
    /\ requests' = requests \ {r}
    /\ \/ Told /\ UNCHANGED op
       \/ Awaits(r) /\ Finish(r.by) /\ rejected' = rejected \cup {r.new} /\ UNCHANGED <<used, published>>
    /\ Store

Crash(d) ==
    /\ ~At(d, "idle")
    /\ Finish(d)
    /\ Store /\ Told /\ UNCHANGED requests

-----------------------------------------------------------------------------
DeviceStep(d) ==
    \/ \E s \in Snapshot : Begin(d, s)
    \/ Probe(d) \/ Stage(d) \/ Compare(d) \/ Abort(d) \/ Commit(d) \/ Timeout(d) \/ Verify(d)
    \/ ReadHistory(d) \/ WriteHistory(d) \/ Repair(d) \/ Crash(d)

Next ==
    \/ \E d \in Device : DeviceStep(d)
    \/ \E r \in requests : Serve(r) \/ Refuse(r)

Spec == Init /\ [][Next]_vars

-----------------------------------------------------------------------------
Request ==
    [file : {"latest"}, by : Device, new : Snapshot, match : Snapshot \cup {None}]
        \cup [file : {"history"}, by : Device, new : Lists, match : Lists \cup {None}]

Operation ==
    [pc : {"idle", "probe", "stage", "compare", "commit", "await", "verify", "list", "append"},
     new : Snapshot \cup {None}, expected : Snapshot \cup {None}, seen : Lists \cup {None}]

\* Every variable keeps its type; the history never outgrows its limit.
TypeOK ==
    /\ store \in {"strict", "lax"}
    /\ latest \in Snapshot \cup {None} /\ history \in Lists \cup {None}
    /\ stored \subseteq Snapshot
    /\ requests \subseteq Request
    /\ op \in [Device -> Operation]
    /\ \A d \in Device : IF At(d, "idle") THEN op[d] = Idle ELSE op[d].new \in used
    /\ used \subseteq Snapshot /\ ever \subseteq used
    /\ published \subseteq used /\ rejected \subseteq used

\* What latest.json and history.json name can be downloaded: a publisher that
\* stops anywhere leaves at most a snapshot nobody names.
NamedIsStored == Entries(history) \cup ({latest} \ {None}) \subseteq stored

\* The history lists snapshots that were active, each once (requireHistory).
HistoryWasActive ==
    /\ Entries(history) \subseteq ever
    /\ Cardinality(Entries(history)) = Len(Listed(history))

\* A publisher never removes the entry of another: the history loses its oldest
\* entry, when it is full, and nothing else.
HistoryKeepsEntries ==
    [][\/ Len(Listed(history)) < Limit /\ Entries(history) \subseteq Entries(history')
       \/ Len(Listed(history)) = Limit /\ Entries(history) \ {Listed(history)[1]} \subseteq Entries(history')]_vars

\* The publications that may still become active.
Pending ==
    {[new |-> op[d].new, expected |-> op[d].expected] :
        d \in {x \in Device : op[x].pc \in {"probe", "stage", "compare", "commit"}}}
    \cup {[new |-> r.new, expected |-> r.match] : r \in {x \in requests : x.file = "latest"}}

Promise == INSTANCE RemoteHead WITH head <- latest, asked <- used, pending <- Pending

\* Object stores keep the promise of RemoteHead.
ImplementsRemoteHead == Promise!Spec
=============================================================================
