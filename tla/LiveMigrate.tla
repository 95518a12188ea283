---------------------------- MODULE LiveMigrate ----------------------------
(***************************************************************************)
(* Live migration (src/vms/migrate.py, MigrateTask of src/vms/models.py).  *)
(*                                                                         *)
(* A request cleans up after earlier tasks of the vm, claims quota on the  *)
(* target, writes a MigrateTask row and hands it to the thread pool of its *)
(* process; a thread of the pool moves the domain, then the row of the vm, *)
(* the counters and the quota of the source, and notes each in the task.   *)
(* Tasks outlive requests, and the pool does not outlive the process.      *)
(*                                                                         *)
(* Abstractions.  Hosts are of one group.  The vms stay: their deletion,   *)
(* and changes of their size, are requests of VmLifecycle.  libvirt either *)
(* moves a domain or leaves it where it is.  The pool has a thread for     *)
(* every task of the model.                                                *)
(***************************************************************************)
EXTENDS HostQuota, FiniteSets

CONSTANTS
    Vms,
    Vcpu, Mem,    \* Vm.vcpu and Vm.mem, by vm
    Requests,     \* threads that serve live_migrate_vm
    MaxTasks,     \* a bound of the model: how many MigrateTask rows are made
    MayOverlap,   \* whether a request may come for a vm that is worked on
    Failing,      \* calls that may fail, of Calls
    CrashPoints,  \* where a thread may die with its process, of Pcs
    MaxCrash,     \* how many processes die
    NoVm, NoHost

Tasks == 1 .. MaxTasks

\* migrate3 of libvirt; submitting to the pool; saving a new task, or the
\* host of a vm.
Calls == {"migrate", "submit", "insert", "vm_save"}

RequestPcs == {"idle", "check_old", "load_old", "fail_old", "fail_old_save", "fix_src",
               "fix_dst", "fix_host", "fix_free", "fix_save", "fix_done", "check", "claim",
               "insert", "undo_claim", "submit", "undo_submit", "delete_task"}

JobPcs == {"none", "queued", "migrate", "fail", "fail_save", "save_host",
           "count", "todo", "uncount", "free", "free_save", "finish"}

ASSUME MigrateAssumption ==
    /\ Vcpu \in [Vms -> Nat \ {0}]
    /\ Mem \in [Vms -> Nat \ {0}]
    /\ IsFiniteSet(Vms) /\ IsFiniteSet(Requests)
    /\ MaxTasks \in Nat
    /\ MayOverlap \in BOOLEAN
    /\ Failing \subseteq Calls
    /\ CrashPoints \subseteq RequestPcs \cup JobPcs
    /\ MaxCrash \in Nat
    /\ NoVm \notin Vms
    /\ NoHost \notin Hosts

VARIABLES
    vm_host,      \* Vm.host, by vm
    domain_host,  \* the host libvirt has the domain on, by vm
    task,         \* the MigrateTask rows, by id
    old,          \* the tasks that were made more than five minutes ago
    job,          \* the pool: what the thread of each task is doing
    request,      \* the requests being served
    crashes       \* processes that died so far

vars == <<host, vm_host, domain_host, task, old, job, request, crashes>>

-----------------------------------------------------------------------------
(* Rows and records. *)

\* The log of a task: that all went well, or what did not.
Content == {"empty", "normal", "problem"}

\* Status "none" is an id not given out yet, "deleted" a row that has gone.
TaskRow == [status : {"none", "wait", "failed", "in-process", "some-todo",
                      "complete", "deleted"},
            vm : Vms \cup {NoVm}, src : Hosts \cup {NoHost}, dst : Hosts \cup {NoHost},
            src_undefined : BOOLEAN, src_is_free : BOOLEAN, dst_is_claim : BOOLEAN,
            content : Content]

NoTask == [status |-> "none", vm |-> NoVm, src |-> NoHost, dst |-> NoHost,
           src_undefined |-> FALSE, src_is_free |-> FALSE, dst_is_claim |-> FALSE,
           content |-> "empty"]

\* vm_host is vm.host and m_task the task, both as the thread loaded them, and
\* log_msg says that there is a problem to be logged at the end.
JobState == [pc : JobPcs, vm_host : Hosts \cup {NoHost}, m_task : TaskRow,
             log_msg : BOOLEAN]

NoJob == [pc |-> "none", vm_host |-> NoHost, m_task |-> NoTask, log_msg |-> FALSE]

\* vm_host is vm.host as it was loaded first, seen the same as it was loaded
\* with the tasks, loaded the tasks still to be cleaned up.
RequestState == [pc : RequestPcs, vm : Vms \cup {NoVm}, vm_host : Hosts \cup {NoHost},
                 dest : Hosts \cup {NoHost}, seen : Hosts \cup {NoHost},
                 loaded : [Tasks -> TaskRow], id : Tasks \cup {0}]

Idle == [pc |-> "idle", vm |-> NoVm, vm_host |-> NoHost, dest |-> NoHost,
         seen |-> NoHost, loaded |-> [t \in Tasks |-> NoTask], id |-> 0]

MigrateTypeOK ==
    /\ HostTypeOK
    /\ vm_host \in [Vms -> Hosts]
    /\ domain_host \in [Vms -> Hosts]
    /\ task \in [Tasks -> TaskRow]
    /\ old \subseteq Tasks
    /\ job \in [Tasks -> JobState]
    /\ request \in [Requests -> RequestState]
    /\ crashes \in Nat

\* The sum of f, as the number of its units: the k-th that x has is <<x, k>>.
Total(f) == Cardinality(UNION {{x} \X (1 .. f[x]) : x \in DOMAIN f})

\* The vms are there, each with its quota on the host it runs on, which has
\* room for them.
Init ==
    /\ vm_host \in [Vms -> Hosts]
    /\ domain_host = vm_host
    /\ host = [h \in Hosts |->
          LET Here(size) == [v \in Vms |-> IF vm_host[v] = h THEN size[v] ELSE 0]
          IN  [vcpu_allocated |-> Total(Here(Vcpu)),
               mem_allocated |-> Total(Here(Mem)),
               vm_created |-> Cardinality({v \in Vms : vm_host[v] = h})]]
    /\ NoOvercommit
    /\ task = [t \in Tasks |-> NoTask]
    /\ old = {}
    /\ job = [t \in Tasks |-> NoJob]
    /\ request = [r \in Requests |-> Idle]
    /\ crashes = 0

-----------------------------------------------------------------------------
(* Control, and the statements that requests and jobs have in common. *)

MayFail(call) == call \in Failing

AtRequest(r, pc) == request[r].pc = pc
AtJob(t, pc) == job[t].pc = pc

GotoRequest(r, pc) == request' = [request EXCEPT ![r].pc = pc]
GotoJob(t, pc) == job' = [job EXCEPT ![t].pc = pc]

EndRequest(r) == request' = [request EXCEPT ![r] = Idle]
EndJob(t) == job' = [job EXCEPT ![t] = NoJob]

\* The task at hand, as the request and as the thread of the pool loaded it.
OldTask(r) == request[r].loaded[request[r].id]
JobTask(t) == job[t].m_task

\* dest_host.free(vcpu=vm.vcpu, mem=vm.mem), and whether it answers True.
free_vm(h, v) == free(h, Vcpu[v], Mem[v])
can_free_vm(h, v) == deduct_matches(h, -Vcpu[v], -Mem[v])

\* do_save(update_fields=['dst_is_claim', 'status', 'content']) of the end of
\* _do_task_failed: the other columns stay what they are by now.
SaveFailed(t, m_task) ==
    task' = [task EXCEPT ![t].status = "failed", ![t].content = "problem",
                         ![t].dst_is_claim = m_task.dst_is_claim]

VmIdle(v) ==
    /\ \A r \in Requests : request[r].vm # v
    /\ \A t \in Tasks : task[t].vm = v => job[t] = NoJob

-----------------------------------------------------------------------------
(* The request: old tasks first. *)

\* VmAPI.live_migrate_vm loads the vm and its host.  There has to be an id
\* left for every request of the model.
Start(r, v, dest) ==
    /\ AtRequest(r, "idle")
    /\ Cardinality({x \in Requests : ~AtRequest(x, "idle")})
          < Cardinality({t \in Tasks : task[t].status = "none"})
    /\ MayOverlap \/ VmIdle(v)
    /\ request' = [request EXCEPT ![r] =
          [Idle EXCEPT !.pc = "check_old", !.vm = v, !.vm_host = vm_host[v],
                       !.dest = dest]]
    /\ UNCHANGED <<host, vm_host, domain_host, task, old, job, crashes>>

\* _vm_old_task_check refuses if an OLD task waits or is in process; one made
\* within the last five minutes is no obstacle.
CheckOld(r) ==
    /\ AtRequest(r, "check_old")
    /\ IF \E t \in old : /\ task[t].vm = request[r].vm
                         /\ task[t].status \in {"in-process", "wait"}
       THEN EndRequest(r)
       ELSE GotoRequest(r, "load_old")
    /\ UNCHANGED <<host, vm_host, domain_host, task, old, job, crashes>>

LoadedAs(s, status) == {t \in Tasks : s.loaded[t].status = status}

\* The loop over the tasks that were loaded: first those that wait, the one
\* made last before the others; of those with something to do there may be
\* one.  id is the task at hand.
GoOn(r, s) ==
    LET waiting == LoadedAs(s, "wait")
        some_todo == LoadedAs(s, "some-todo")
        Take(pc, t) == request' = [request EXCEPT ![r] = [s EXCEPT !.pc = pc, !.id = t]]
    IN  \/ \E t \in waiting : (\A x \in waiting : x <= t) /\ Take("fail_old", t)
        \/ waiting = {} /\ some_todo = {} /\ Take("check", 0)
        \/ waiting = {} /\ \E t \in some_todo : some_todo = {t} /\ Take("fix_src", t)
        \/ waiting = {} /\ Cardinality(some_todo) > 1 /\ EndRequest(r)

\* One query loads the tasks with the vm they belong to.
LoadOld(r) ==
    /\ AtRequest(r, "load_old")
    /\ LET v == request[r].vm
           loaded == [t \in Tasks |->
                        IF task[t].vm = v /\ task[t].status \in {"some-todo", "wait"}
                        THEN task[t] ELSE NoTask]
       IN  GoOn(r, [request[r] EXCEPT !.loaded = loaded, !.seen = vm_host[v]])
    /\ UNCHANGED <<host, vm_host, domain_host, task, old, job, crashes>>

\* _do_task_failed for a task that was waiting when it was loaded.
FailOld(r) ==
    /\ AtRequest(r, "fail_old")
    /\ request' = [request EXCEPT ![r].pc = "fail_old_save",
          ![r].loaded[request[r].id].dst_is_claim =
              @ /\ ~can_free_vm(OldTask(r).dst, OldTask(r).vm)]
    /\ free_vm(OldTask(r).dst, OldTask(r).vm)
    /\ UNCHANGED <<vm_host, domain_host, task, old, job, crashes>>

FailOldSave(r) ==
    /\ AtRequest(r, "fail_old_save")
    /\ LET t == request[r].id
       IN  IF task[t].status = "deleted"
           THEN EndRequest(r) /\ UNCHANGED task
           ELSE /\ SaveFailed(t, OldTask(r))
                /\ GoOn(r, [request[r] EXCEPT !.loaded[t] = NoTask])
    /\ UNCHANGED <<host, vm_host, domain_host, old, job, crashes>>

\* handle_some_todo_migrate_log: where the row of the vm does not name the
\* target, ask libvirt on the host it names, then on the target.  A host that
\* does not answer ends the request, as does a vm that is on neither.
FixSrc(r) ==
    /\ AtRequest(r, "fix_src")
    /\ LET s == request[r]
       IN  IF s.seen = OldTask(r).dst
           THEN GotoRequest(r, "fix_free")
           ELSE \/ domain_host[s.vm] = s.seen /\ GotoRequest(r, "fix_free")
                \/ domain_host[s.vm] # s.seen /\ GotoRequest(r, "fix_dst")
                \/ EndRequest(r)
    /\ UNCHANGED <<host, vm_host, domain_host, task, old, job, crashes>>

FixDst(r) ==
    /\ AtRequest(r, "fix_dst")
    /\ \/ domain_host[request[r].vm] = OldTask(r).dst /\ GotoRequest(r, "fix_host")
       \/ EndRequest(r)
    /\ UNCHANGED <<host, vm_host, domain_host, task, old, job, crashes>>

FixHost(r) ==
    /\ AtRequest(r, "fix_host")
    /\ \/ /\ vm_host' = [vm_host EXCEPT ![request[r].vm] = OldTask(r).dst]
          /\ GotoRequest(r, "fix_free")
       \/ MayFail("vm_save") /\ EndRequest(r) /\ UNCHANGED vm_host
    /\ UNCHANGED <<host, domain_host, task, old, job, crashes>>

\* A fault of FixFree that a run has to find: src_is_free is not looked at.
FixFree_again(r) ==
    /\ AtRequest(r, "fix_free")
    /\ free_vm(OldTask(r).src, OldTask(r).vm)
    /\ request' = [request EXCEPT ![r].pc = "fix_save",
                                  ![r].loaded[request[r].id].src_is_free = TRUE]
    /\ UNCHANGED <<vm_host, domain_host, task, old, job, crashes>>

\* The quota of the source, unless the task says it was given back.
FixFree(r) ==
    /\ AtRequest(r, "fix_free")
    /\ IF OldTask(r).src_is_free
       THEN GotoRequest(r, "fix_done") /\ UNCHANGED host
       ELSE /\ free_vm(OldTask(r).src, OldTask(r).vm)
            /\ IF can_free_vm(OldTask(r).src, OldTask(r).vm)
               THEN request' = [request EXCEPT ![r].pc = "fix_save",
                                   ![r].loaded[request[r].id].src_is_free = TRUE]
               ELSE EndRequest(r)
    /\ UNCHANGED <<vm_host, domain_host, task, old, job, crashes>>

\* do_save() writes all columns as they were loaded.
FixSave(r) ==
    /\ AtRequest(r, "fix_save")
    /\ task' = [task EXCEPT ![request[r].id] = OldTask(r)]
    /\ GotoRequest(r, "fix_done")
    /\ UNCHANGED <<host, vm_host, domain_host, old, job, crashes>>

FixDone(r) ==
    /\ AtRequest(r, "fix_done")
    /\ IF OldTask(r).src_undefined
       THEN /\ task' = [task EXCEPT ![request[r].id] =
                           [OldTask(r) EXCEPT !.status = "complete"]]
            /\ GotoRequest(r, "check")
       ELSE EndRequest(r) /\ UNCHANGED task
    /\ UNCHANGED <<host, vm_host, domain_host, old, job, crashes>>

-----------------------------------------------------------------------------
(* The request: the new task. *)

\* _pre_live_migrate: the domain has to run on the host of the vm, as that
\* was loaded first, and the target has to be another.  A host that cannot be
\* reached, a domain that does not run, attached devices and addresses: any
\* of these ends the request.
Check(r) ==
    /\ AtRequest(r, "check")
    /\ LET s == request[r]
       IN  \/ domain_host[s.vm] = s.vm_host /\ s.dest # s.vm_host /\ GotoRequest(r, "claim")
           \/ EndRequest(r)
    /\ UNCHANGED <<host, vm_host, domain_host, task, old, job, crashes>>

Claim(r) ==
    /\ AtRequest(r, "claim")
    /\ LET v == request[r].vm
           dest == request[r].dest
       IN  \/ /\ claim_from_host(dest, Vcpu[v], Mem[v])
              /\ GotoRequest(r, "insert")
           \/ ~can_claim(dest, Vcpu[v], Mem[v]) /\ EndRequest(r) /\ UNCHANGED host
    /\ UNCHANGED <<vm_host, domain_host, task, old, job, crashes>>

\* The new MigrateTask, with the next id.
Insert(r) ==
    /\ AtRequest(r, "insert")
    /\ LET s == request[r]
       IN  \/ \E t \in Tasks :
              /\ task[t].status = "none"
              /\ \A x \in Tasks : task[x].status = "none" => t <= x
              /\ task' = [task EXCEPT ![t] =
                    [NoTask EXCEPT !.status = "wait", !.vm = s.vm, !.src = s.vm_host,
                                   !.dst = s.dest, !.dst_is_claim = TRUE]]
              /\ request' = [request EXCEPT ![r].pc = "submit", ![r].id = t]
           \/ MayFail("insert") /\ GotoRequest(r, "undo_claim") /\ UNCHANGED task
    /\ UNCHANGED <<host, vm_host, domain_host, old, job, crashes>>

\* The claim of a task that was not made, or that the pool did not take.
UndoClaim(r) ==
    /\ \/ AtRequest(r, "undo_claim") /\ EndRequest(r)
       \/ AtRequest(r, "undo_submit") /\ GotoRequest(r, "delete_task")
    /\ free_vm(request[r].dest, request[r].vm)
    /\ UNCHANGED <<vm_host, domain_host, task, old, job, crashes>>

\* creat_migrate_vm_task.
Submit(r) ==
    /\ AtRequest(r, "submit")
    /\ \/ GotoJob(request[r].id, "queued") /\ EndRequest(r)
       \/ MayFail("submit") /\ GotoRequest(r, "undo_submit") /\ UNCHANGED job
    /\ UNCHANGED <<host, vm_host, domain_host, task, old, crashes>>

DeleteTask(r) ==
    /\ AtRequest(r, "delete_task")
    /\ task' = [task EXCEPT ![request[r].id] = [NoTask EXCEPT !.status = "deleted"]]
    /\ EndRequest(r)
    /\ UNCHANGED <<host, vm_host, domain_host, old, job, crashes>>

-----------------------------------------------------------------------------
(* The task in the pool. *)

\* A fault of JobStart that a run has to find: the test of the status inverted.
JobStart_inverted(t) ==
    /\ AtJob(t, "queued")
    /\ task[t].status = "wait"
    /\ EndJob(t)
    /\ UNCHANGED <<host, vm_host, domain_host, task, old, request, crashes>>

\* live_migrate_vm_task: under the lock of the row, a task that waits comes to
\* be in process; any other has been dealt with.
JobStart(t) ==
    /\ AtJob(t, "queued")
    /\ IF task[t].status = "wait"
       THEN LET m_task == [task[t] EXCEPT !.status = "in-process"]
            IN  /\ task' = [task EXCEPT ![t] = m_task]
                /\ job' = [job EXCEPT ![t] =
                      [NoJob EXCEPT !.pc = "migrate", !.vm_host = vm_host[m_task.vm],
                                    !.m_task = m_task]]
       ELSE EndJob(t) /\ UNCHANGED task
    /\ UNCHANGED <<host, vm_host, domain_host, old, request, crashes>>

\* VmDomain.live_migrate from the host the vm had when the job started.
JobMigrate(t) ==
    /\ AtJob(t, "migrate")
    /\ LET v == JobTask(t).vm
           reachable == domain_host[v] = job[t].vm_host /\ JobTask(t).dst # job[t].vm_host
       IN  \/ /\ reachable
              /\ domain_host' = [domain_host EXCEPT ![v] = JobTask(t).dst]
              /\ GotoJob(t, "save_host")
           \/ /\ ~reachable \/ MayFail("migrate")
              /\ GotoJob(t, "fail") /\ UNCHANGED domain_host
    /\ UNCHANGED <<host, vm_host, task, old, request, crashes>>

\* _do_task_failed.
JobFail(t) ==
    /\ AtJob(t, "fail")
    /\ job' = [job EXCEPT ![t].pc = "fail_save",
          ![t].m_task.dst_is_claim = @ /\ ~can_free_vm(JobTask(t).dst, JobTask(t).vm)]
    /\ free_vm(JobTask(t).dst, JobTask(t).vm)
    /\ UNCHANGED <<vm_host, domain_host, task, old, request, crashes>>

JobFailSave(t) ==
    /\ AtJob(t, "fail_save")
    /\ SaveFailed(t, JobTask(t))
    /\ EndJob(t)
    /\ UNCHANGED <<host, vm_host, domain_host, old, request, crashes>>

\* Two faults of JobSaveHost that a run has to find: the host is cleared as if
\* the vm were shelved, and it is not saved at all.
JobSaveHost_cleared(t) ==
    /\ AtJob(t, "save_host") /\ GotoJob(t, "count")
    /\ vm_host' = [vm_host EXCEPT ![JobTask(t).vm] = NoHost]
    /\ UNCHANGED <<host, domain_host, task, old, request, crashes>>

JobSaveHost_skipped(t) ==
    /\ AtJob(t, "save_host") /\ GotoJob(t, "count")
    /\ UNCHANGED <<host, vm_host, domain_host, task, old, request, crashes>>

\* vm.save(update_fields=['host']); a failure goes into the log and no further.
JobSaveHost(t) ==
    /\ AtJob(t, "save_host")
    /\ \/ /\ vm_host' = [vm_host EXCEPT ![JobTask(t).vm] = JobTask(t).dst]
          /\ GotoJob(t, "count")
       \/ /\ MayFail("vm_save")
          /\ job' = [job EXCEPT ![t].pc = "count", ![t].log_msg = TRUE]
          /\ UNCHANGED vm_host
    /\ UNCHANGED <<host, domain_host, task, old, request, crashes>>

JobCount(t) ==
    /\ AtJob(t, "count")
    /\ vm_created_num_add_1(JobTask(t).dst)
    /\ GotoJob(t, "todo")
    /\ UNCHANGED <<vm_host, domain_host, task, old, request, crashes>>

JobTodo(t) ==
    /\ AtJob(t, "todo")
    /\ LET m_task == [JobTask(t) EXCEPT !.src_undefined = TRUE, !.status = "some-todo"]
       IN  /\ task' = [task EXCEPT ![t] = m_task]
           /\ job' = [job EXCEPT ![t].pc = "uncount", ![t].m_task = m_task]
    /\ UNCHANGED <<host, vm_host, domain_host, old, request, crashes>>

JobUncount(t) ==
    /\ AtJob(t, "uncount")
    /\ vm_created_num_sub_1(JobTask(t).src)
    /\ GotoJob(t, "free")
    /\ UNCHANGED <<vm_host, domain_host, task, old, request, crashes>>

\* A fault of JobFree that a run has to find: the flag is not set.
JobFree_unflagged(t) ==
    /\ AtJob(t, "free")
    /\ free_vm(JobTask(t).src, JobTask(t).vm)
    /\ GotoJob(t, "free_save")
    /\ UNCHANGED <<vm_host, domain_host, task, old, request, crashes>>

\* src_host.free, and src_is_free if it was not refused.
JobFree(t) ==
    /\ AtJob(t, "free")
    /\ free_vm(JobTask(t).src, JobTask(t).vm)
    /\ IF can_free_vm(JobTask(t).src, JobTask(t).vm)
       THEN job' = [job EXCEPT ![t].pc = "free_save", ![t].m_task.src_is_free = TRUE]
       ELSE job' = [job EXCEPT ![t].pc = "finish", ![t].log_msg = TRUE]
    /\ UNCHANGED <<vm_host, domain_host, task, old, request, crashes>>

JobFreeSave(t) ==
    /\ AtJob(t, "free_save")
    /\ task' = [task EXCEPT ![t] = JobTask(t)]
    /\ GotoJob(t, "finish")
    /\ UNCHANGED <<host, vm_host, domain_host, old, request, crashes>>

JobFinish(t) ==
    /\ AtJob(t, "finish")
    /\ task' = [task EXCEPT ![t] =
          [JobTask(t) EXCEPT !.status = "complete",
                             !.content = IF job[t].log_msg THEN "problem" ELSE "normal"]]
    /\ EndJob(t)
    /\ UNCHANGED <<host, vm_host, domain_host, old, request, crashes>>

-----------------------------------------------------------------------------
\* Five minutes pass for a task.
Age(t) ==
    /\ task[t].status \in {"wait", "in-process"}
    /\ t \notin old
    /\ old' = old \cup {t}
    /\ UNCHANGED <<host, vm_host, domain_host, task, job, request, crashes>>

\* A process dies with some of the requests and of the tasks of the pool.
Crash(rs, ts) ==
    /\ crashes < MaxCrash
    /\ rs # {} \/ ts # {}
    /\ \A r \in rs : request[r].pc \in CrashPoints
    /\ \A t \in ts : job[t].pc \in CrashPoints
    /\ request' = [r \in Requests |-> IF r \in rs THEN Idle ELSE request[r]]
    /\ job' = [t \in Tasks |-> IF t \in ts THEN NoJob ELSE job[t]]
    /\ crashes' = crashes + 1
    /\ UNCHANGED <<host, vm_host, domain_host, task, old>>

RequestStep(r) ==
    \/ \E v \in Vms, dest \in Hosts : Start(r, v, dest)
    \/ CheckOld(r) \/ LoadOld(r) \/ FailOld(r) \/ FailOldSave(r)
    \/ FixSrc(r) \/ FixDst(r) \/ FixHost(r) \/ FixFree(r) \/ FixSave(r) \/ FixDone(r)
    \/ Check(r) \/ Claim(r) \/ Insert(r) \/ UndoClaim(r) \/ Submit(r) \/ DeleteTask(r)

JobStep(t) ==
    \/ JobStart(t) \/ JobMigrate(t) \/ JobFail(t) \/ JobFailSave(t)
    \/ JobSaveHost(t) \/ JobCount(t) \/ JobTodo(t) \/ JobUncount(t)
    \/ JobFree(t) \/ JobFreeSave(t) \/ JobFinish(t)

Next ==
    \/ \E r \in Requests : RequestStep(r)
    \/ \E t \in Tasks : JobStep(t) \/ Age(t)
    \/ \E rs \in SUBSET Requests, ts \in SUBSET Tasks : Crash(rs, ts)

Spec == Init /\ [][Next]_vars

\* The pool goes on with every task it has a thread for, and a call of libvirt
\* answers in the end.
FairSpec == Spec /\ \A t \in Tasks : WF_vars(JobStep(t))
=============================================================================
