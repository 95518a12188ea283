----------------------- MODULE LiveMigrateProperties -----------------------
(***************************************************************************)
(* What LiveMigrate is meant to keep true, and what it is not able to.     *)
(***************************************************************************)
EXTENDS LiveMigrate

\* The vm of task t has moved, and the thread has not come to the end.
Moved(t) == job[t].pc \in {"save_host", "count", "todo", "uncount", "free", "free_save", "finish"}

\* The request has given back, or is about to note that it gave back, what
\* task t had.
Releasing(r, t, pc) == AtRequest(r, pc) /\ request[r].id = t

\* Task t answers for a claim on its target: from its row until it failed or
\* the domain is there.
HoldsDst(t) ==
    /\ task[t].status \in {"wait", "in-process"}
    /\ ~Moved(t)
    /\ ~AtJob(t, "fail_save")
    /\ \A r \in Requests : ~Releasing(r, t, "fail_old_save")
    /\ \A r \in Requests : ~Releasing(r, t, "delete_task")

\* ... for one on its source: from the move of the domain until it is given
\* back, by the thread or, if that died, by the clean-up of a request.
HoldsSrc(t) ==
    \/ job[t].pc \in {"save_host", "count", "todo", "uncount", "free"}
    \/ /\ job[t] = NoJob
       /\ task[t].status = "some-todo"
       /\ ~task[t].src_is_free
       /\ \A r \in Requests : ~Releasing(r, t, "fix_save")

\* A request answers for its claim until its task does.
HoldsClaim(r) == request[r].pc \in {"insert", "undo_claim"}

\* The host on which a task, or a request, answers for the size of its vm.
TaskHolds(t) ==
    IF HoldsDst(t) THEN task[t].dst
    ELSE IF HoldsSrc(t) THEN task[t].src ELSE NoHost

RequestHolds(r) == IF HoldsClaim(r) THEN request[r].dest ELSE NoHost

\* What is claimed on h, of vcpus or of memory: by the vms whose domain is
\* there, by tasks and by requests.
ClaimedOn(h, size) ==
    Total([v \in Vms |-> IF domain_host[v] = h THEN size[v] ELSE 0])
    + Total([t \in Tasks |-> IF TaskHolds(t) = h THEN size[task[t].vm] ELSE 0])
    + Total([r \in Requests |-> IF RequestHolds(r) = h THEN size[request[r].vm] ELSE 0])

\* How many vms are counted on h: one that moves is counted on the source,
\* then on both hosts, then on the target.
CountedOn(h) ==
    Cardinality({v \in Vms : domain_host[v] = h})
    - Cardinality({t \in Tasks : job[t].pc \in {"save_host", "count"} /\ task[t].dst = h})
    + Cardinality({t \in Tasks : /\ job[t].pc \in {"save_host", "count", "todo", "uncount"}
                                 /\ task[t].src = h})

-----------------------------------------------------------------------------
\* The quota columns are exact throughout a migration: what a host has handed
\* out is what the domains on it, the tasks under way, those that were left
\* with something to do, and the requests between claim and task hold
\* (claim_from_host, free, _do_task_failed, handle_some_todo_migrate_log).
MigrateLedger ==
    \A h \in Hosts :
       /\ host[h].vcpu_allocated = ClaimedOn(h, Vcpu)
       /\ host[h].mem_allocated = ClaimedOn(h, Mem)
       /\ host[h].vm_created = CountedOn(h)

\* The row of a vm names the host its domain is on.  Where it does not, a
\* task of the vm that moved the domain there is about to save the row, or
\* has it in its log that it could not, or is left with something to do: no
\* row is wrong without a trace.
StaleRowIsReported ==
    \A v \in Vms :
       \/ domain_host[v] = vm_host[v]
       \/ \E t \in Tasks : /\ task[t].vm = v
                           /\ task[t].dst = domain_host[v]
                           /\ \/ AtJob(t, "save_host")
                              \/ job[t].log_msg
                              \/ task[t].content = "problem"
                              \/ job[t] = NoJob /\ task[t].status = "some-todo"

\* What an ended task says of itself is so: a complete one has given back the
\* source, a failed one the target, and a failed one did not move its vm.
EndedTaskIsTrue ==
    \A t \in Tasks :
       /\ task[t].status = "complete" =>
             task[t].src_undefined /\ task[t].src_is_free /\ task[t].dst_is_claim
       /\ task[t].status = "failed" =>
             ~task[t].src_undefined /\ ~task[t].dst_is_claim /\ ~Moved(t)

\* A task that was handed to the pool ends, complete or failed, unless its
\* process dies.
TaskEnds ==
    \A t \in Tasks :
       AtJob(t, "queued") ~> task[t].status \in {"complete", "failed"} \/ crashes > 0

\* A vm has one task that waits or is in process at a time, of those made
\* within five minutes.
OneRecentTask ==
    \A t1, t2 \in Tasks \ old :
       /\ task[t1].status \in {"wait", "in-process"}
       /\ task[t2].status \in {"wait", "in-process"}
       /\ task[t1].vm = task[t2].vm
       => t1 = t2
=============================================================================
