------------------------------ MODULE MCMirror ------------------------------
(* MirrorProperties on small instances: one task, two scripts, two nodes,  *)
(* objects of two chunks and of a chunk and a half.                        *)
EXTENDS MirrorProperties, TLC

\* A task is pulled, fails, is killed, and is started again on any node, when it
\* is done too.
PullWork ==
    [ops |-> {"pull", "start", "force_start", "stop", "delete"}, failing |-> MirrorCalls,
     meet |-> FALSE]

PushWork ==
    [ops |-> {"push", "start", "force_start", "stop", "delete"},
     failing |-> MirrorCalls \ {"crash", "read_local"}, meet |-> FALSE]

\* The file that is sent cannot always be read.
PushUnreadWork == [PushWork EXCEPT !.failing = @ \cup {"read_local"}]

PassMirrorWorks == {PullWork, PushWork, PushUnreadWork}

\* What the violation runs choose: as little as shows it.
UnreadOnly == {[PushUnreadWork EXCEPT !.ops = {"push", "start"}, !.failing = {"read_local"}]}
AgainOnly == {[PullWork EXCEPT !.ops = {"pull", "start"}, !.failing = {}]}
MeetOnly == {[PullWork EXCEPT !.ops = {"pull", "start", "stop"}, !.failing = {}, !.meet = TRUE]}
=============================================================================
