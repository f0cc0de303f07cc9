---------------------------- MODULE ThreeWaySync ----------------------------
(***************************************************************************)
(* What pi-sync promises, without any of its machinery: replicas that edit *)
(* a set of files, and one shared image of those files.                    *)
(*                                                                         *)
(*  - The shared image changes only where the publisher had already        *)
(*    accepted the version it replaces: no replica's update is lost.       *)
(*  - A file of a replica is replaced only while it still is the version   *)
(*    the replica accepted last, and only by a version that was shared:    *)
(*    no local edit is lost and nothing unpublished is ever installed.     *)
(*  - The versions a replica accepts all come from one shared image.       *)
(***************************************************************************)
CONSTANTS
    Device,     \* the replicas
    Path,       \* the managed files
    Content,    \* what a file may hold
    Absent,     \* the file does not exist
    Initial     \* the image every replica starts from

Version == Content \cup {Absent}
Image == [Path -> Version]

VARIABLES
    local,      \* local[d]: the files of replica d
    base,       \* base[d]: the versions d accepted last
    remote,     \* the shared image
    shared      \* every image that ever was the shared one

vars == <<local, base, remote, shared>>

Init ==
    /\ local = [d \in Device |-> Initial]
    /\ base = [d \in Device |-> Initial]
    /\ remote = Initial
    /\ shared = {Initial}

Edit(d, ps, v) ==
    /\ local' = [local EXCEPT ![d] = [p \in Path |-> IF p \in ps THEN v ELSE local[d][p]]]
    /\ UNCHANGED <<base, remote, shared>>

Publish(d, image) ==
    /\ \A p \in Path : image[p] # remote[p] => remote[p] = base[d][p]
    /\ remote' = image
    /\ shared' = shared \cup {image}
    /\ UNCHANGED <<local, base>>

Install(d, p, image) ==
    /\ image \in shared
    /\ local[d][p] = base[d][p]
    /\ local' = [local EXCEPT ![d][p] = image[p]]
    /\ UNCHANGED <<base, remote, shared>>

\* The versions of the paths in "kept" stay unaccepted.
Accept(d, image, kept) ==
    /\ image \in shared
    /\ base' = [base EXCEPT ![d] = [p \in Path |-> IF p \in kept THEN base[d][p] ELSE image[p]]]
    /\ UNCHANGED <<local, remote, shared>>

Next ==
    \E d \in Device :
        \/ \E ps \in SUBSET Path, v \in Version : Edit(d, ps, v)
        \/ \E image \in Image : Publish(d, image)
        \/ \E p \in Path, image \in shared : Install(d, p, image)
        \/ \E image \in shared, kept \in SUBSET Path : Accept(d, image, kept)

Spec == Init /\ [][Next]_vars

=============================================================================
