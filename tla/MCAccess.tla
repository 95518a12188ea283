------------------------------ MODULE MCAccess ------------------------------
(* AccessProperties on a small instance: an administrator, a resource      *)
(* administrator and two users, either of whom may own the vm.             *)
EXTENDS AccessProperties, TLC

CONSTANTS root, admin, user, other

MCSharedLists ==
    {[u \in Users |-> "none"], user :> "readonly" @@ other :> "readwrite" @@ [u \in Users |-> "none"],
     user :> "readwrite" @@ [u \in Users |-> "none"], other :> "readonly" @@ [u \in Users |-> "none"]}

\* An edit of vcpu and memory saves the whole row: it is kept apart from what
\* writes the owner or the status, and so are two replaces from each other.
MCAccessApart ==
    {<<"edit", does>> : does \in {"hand_over", "remove", "delshelve", "shelve", "unshelve"}}
    \cup {<<"replace", "replace">>}
=============================================================================
