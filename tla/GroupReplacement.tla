-------------------------- MODULE GroupReplacement --------------------------
(***************************************************************************)
(* What the transaction of a snapshot promises about the contents of files *)
(* (snapshot/snapshot-transaction.ts): a group of paths changes from what  *)
(* it was to what the snapshot holds in one step, or not at all.  A path   *)
(* that somebody edits meanwhile leaves the group; it may then hold either *)
(* content or nothing, but if it holds anything else that stays.  Paths    *)
(* outside the transaction's scope change by edits alone.                  *)
(***************************************************************************)
CONSTANTS
    Path,
    Inside,     \* the paths directly inside a path
    Content,
    Absent,     \* the content of no file
    None

VARIABLES
    files,      \* what a path holds, and within the group would hold again
    job         \* the replacement under way, or None

vars == <<files, job>>

Contents == [Path -> Content \cup {Absent}]
Jobs == [old : Contents, new : Contents, scope : SUBSET Path, group : SUBSET Path]

Init == files \in Contents /\ job = None

\* The group is what nobody edited since the old contents were backed up.
Begin ==
    /\ job = None /\ job' \in Jobs
    /\ job'.group \subseteq job'.scope
    /\ \A x \in job'.group : files[x] = job'.old[x]
    /\ UNCHANGED files

Replace ==
    /\ job # None
    /\ files' = [x \in Path |-> IF x \in job.group THEN job.new[x] ELSE files[x]]
    /\ job' = None

Abandon == job # None /\ job' = None /\ UNCHANGED files

\* Either content of an edited path is taken for the transaction's own.
Recognised(x) == {job.old[x], job.new[x], Absent}

Adjust ==
    /\ job # None
    /\ files' \in Contents
    /\ \A x \in Path : files'[x] # files[x] =>
           x \in job.scope \ job.group /\ {files[x], files'[x]} \subseteq Recognised(x)
    /\ UNCHANGED job

\* A path, the directory around it, and all that is in either.
Near(t) == UNION {{p} \cup Inside[p] : p \in {q \in Path : q = t \/ t \in Inside[q]}}

\* An edit may take its directory out of the group, and with it what no
\* snapshot names; whatever leaves the group is as far as the replacement got.
Edit(t) ==
    /\ files' \in Contents
    /\ IF job = None THEN job' = None
       ELSE \E ts \in SUBSET Near(t) : job' = [job EXCEPT !.group = @ \ ({t} \cup ts)]
    /\ \A x \in Path : files'[x] # files[x] =>
           \/ x = t
           \/ x \in Inside[t] /\ files'[x] = Absent
           \/ job # None /\ x \in job.group \ job'.group /\ files'[x] \in Recognised(x)

Next ==
    \/ Begin \/ Replace \/ Abandon \/ Adjust
    \/ \E t \in Path : Edit(t)

Spec == Init /\ [][Next]_vars

=============================================================================
