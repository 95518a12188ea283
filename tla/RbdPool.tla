------------------------------ MODULE RbdPool ------------------------------
(***************************************************************************)
(* A pool of rbd images and what RbdManager (src/ceph/managers.py) makes   *)
(* of the calls of librbd on it: images with their snapshots, protected or *)
(* not, and clones, which keep the snapshot they were made from alive.     *)
(*                                                                         *)
(* The operators are functions of the pool: each gives the set of outcomes *)
(* of one call, of which the caller picks one.                             *)
(***************************************************************************)
EXTENDS Naturals

CONSTANTS
    RbdNames,     \* the names images are given
    MaxTick,      \* snapshots are named by the time: 1 .. MaxTick
    MaxSize       \* sizes of an image: 1 .. MaxSize

RbdCalls == {"create_image", "remove_image", "rename_image", "create_snap",
             "protect_snap", "remove_snap", "clone", "flatten", "resize", "rollback"}

\* x_<time>_<name> and x_image_<time>_<name>: the last image of that name that
\* was put aside; nothing looks for an earlier one.
Aside(n) == <<"x", n>>

ASSUME RbdAssumption ==
    /\ MaxTick \in Nat \ {0} /\ MaxSize \in Nat \ {0}
    /\ \A n \in RbdNames : Aside(n) \notin RbdNames

Keys == RbdNames \cup {Aside(n) : n \in RbdNames}

NoParent == <<>>

\* A size of 0: no such image, or no such snapshot.
RbdImage == [size : 0 .. MaxSize, snaps : [1 .. MaxTick -> 0 .. MaxSize],
             protected : SUBSET (1 .. MaxTick), parent : (Keys \X (1 .. MaxTick)) \cup {NoParent}]

NoImage == [size |-> 0, snaps |-> [s \in 1 .. MaxTick |-> 0], protected |-> {},
            parent |-> NoParent]

RbdPools == [Keys -> RbdImage]

EmptyPool == [n \in Keys |-> NoImage]

image_exists(p, n) == p[n].size > 0

HasSnap(p, n, s) == s \in 1 .. MaxTick /\ p[n].snaps[s] > 0

Children(p, n, s) == {c \in Keys : p[c].parent = <<n, s>>}

-----------------------------------------------------------------------------

\* A call that fails for a reason of its own, the cluster out of reach say,
\* names itself in `own`.
Outcome(ok, own, p) == [ok |-> ok, own |-> own, pool |-> p]

Outcomes(call, possible, p, done) ==
    {IF possible THEN Outcome(TRUE, "", done) ELSE Outcome(FALSE, "", p),
     Outcome(FALSE, call, p)}

\* An image that exists already is no error.
create_image(p, n, size) ==
    Outcomes("create_image", TRUE, p,
             IF image_exists(p, n) THEN p ELSE [p EXCEPT ![n] = [NoImage EXCEPT !.size = size]])

\* A snapshot that cannot be protected stays.
create_snap(p, n, s, protect) ==
    UNION {IF ~taken.ok \/ ~protect THEN {taken}
           ELSE Outcomes("protect_snap", TRUE, taken.pool,
                         [taken.pool EXCEPT ![n].protected = @ \cup {s}])
           : taken \in Outcomes("create_snap", image_exists(p, n), p,
                                [p EXCEPT ![n].snaps[s] = p[n].size])}

\* What is not there counts as removed; a snapshot with clones stays, protected.
\* One without is unprotected first, and remains so if it is not removed then.
remove_snap(p, n, s) ==
    LET free == Children(p, n, s) = {}
        removed == [p EXCEPT ![n].snaps[s] = 0, ![n].protected = @ \ {s}]
        unprotected == [p EXCEPT ![n].protected = @ \ {s}]
    IN  IF ~HasSnap(p, n, s)
        THEN Outcomes("remove_snap", TRUE, p, p)
        ELSE Outcomes("remove_snap", free, p, removed)
             \cup {Outcome(FALSE, "remove_snap", IF free THEN unprotected ELSE p)}

clone_image(p, n, s, new) ==
    Outcomes("clone", HasSnap(p, n, s) /\ s \in p[n].protected /\ ~image_exists(p, new), p,
             [p EXCEPT ![new] = [NoImage EXCEPT !.size = p[n].snaps[s], !.parent = <<n, s>>]])

flatten_image(p, n) ==
    Outcomes("flatten", image_exists(p, n), p, [p EXCEPT ![n].parent = NoParent])

\* The clones of an image follow its name.
Renamed(p, n, m) ==
    [k \in Keys |->
        LET i == IF k = m THEN p[n] ELSE p[k]
        IN  IF k = n THEN NoImage
            ELSE IF i.parent = NoParent THEN i
            ELSE IF i.parent[1] = n THEN [i EXCEPT !.parent[1] = m]
            ELSE IF i.parent[1] = m THEN [i EXCEPT !.parent = NoParent]
            ELSE i]

\* A name put aside is a new one each time, any other may be taken.
rename_image(p, n, m) ==
    Outcomes("rename_image", image_exists(p, n) /\ (m \in RbdNames => ~image_exists(p, m)),
             p, Renamed(p, n, m))

\* An image with snapshots stays.
remove_image(p, n) ==
    Outcomes("remove_image", \A s \in 1 .. MaxTick : ~HasSnap(p, n, s), p,
             [p EXCEPT ![n] = NoImage])

image_rollback_to_snap(p, n, s) ==
    Outcomes("rollback", HasSnap(p, n, s), p, [p EXCEPT ![n].size = p[n].snaps[s]])

\* An image is never made smaller: the call then does nothing, which its
\* callers take for a failure, and one that is as large already is left so.
resize_rbd_image(p, n, size) ==
    Outcomes("resize", image_exists(p, n) /\ size >= p[n].size /\ size <= MaxSize, p,
             [p EXCEPT ![n].size = size])
=============================================================================
