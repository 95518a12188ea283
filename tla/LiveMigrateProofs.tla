------------------------- MODULE LiveMigrateProofs -------------------------
(***************************************************************************)
(* What holds of LiveMigrate for every number of hosts, vms, requests and  *)
(* tasks.                                                                  *)
(*                                                                         *)
(* The first half makes no assumption: whether or not requests meet on a   *)
(* vm (MayOverlap), whatever fails (Failing) and wherever processes die    *)
(* (CrashPoints, MaxCrash), the types hold and no host is committed beyond *)
(* its totals.  Neither is inductive by itself.  A release needs the size  *)
(* of a vm, and whose size it is comes from a task row that was loaded     *)
(* earlier; so the types need that a task somebody will act on names a vm  *)
(* and two hosts, in the table, in the locals of the requests and in those *)
(* of the jobs (IInv).                                                     *)
(*                                                                         *)
(* The second half is about a vm that one request or one task works on at  *)
(* a time (~MayOverlap).  Then what a thread has loaded is what the row    *)
(* still says, or differs from it in what the thread is about to save;     *)
(* KInv says so of every statement.  From it follow that an ended task     *)
(* says the truth, that no row of a vm is wrong without a trace and that   *)
(* the quota columns are exact, the last two for processes that die where  *)
(* nothing is lost between two saves.                                      *)
(***************************************************************************)
EXTENDS LiveMigrateProperties, HostQuotaProofs, FiniteSetTheorems

Placed(row) == row.vm \in Vms /\ row.src \in Hosts /\ row.dst \in Hosts

\* A row that the clean-up or the pool will act on.
Pending(row) == row.status \in {"wait", "some-todo"}

HostOfVmsInv ==
    /\ vm_host \in [Vms -> Hosts]
    /\ domain_host \in [Vms -> Hosts]
    /\ crashes \in Nat

TasksInv ==
    /\ task \in [Tasks -> TaskRow]
    /\ old \subseteq Tasks
    /\ \A t \in Tasks : Pending(task[t]) => Placed(task[t])

JobPlaced(j) == j.pc \notin {"none", "queued"} => Placed(j.m_task)

JobsInv ==
    /\ job \in [Tasks -> JobState]
    /\ \A t \in Tasks : JobPlaced(job[t])

CleanUpPcs == {"fail_old", "fail_old_save", "fix_src", "fix_dst", "fix_host",
               "fix_free", "fix_save", "fix_done"}

OwnTaskPcs == {"submit", "undo_submit", "delete_task"}

RequestPlaced(s) ==
    /\ s.pc # "idle" => s.vm \in Vms /\ s.vm_host \in Hosts /\ s.dest \in Hosts
    /\ \A t \in Tasks : Pending(s.loaded[t]) => Placed(s.loaded[t])
    /\ s.pc \in CleanUpPcs => s.id \in Tasks /\ Pending(s.loaded[s.id])
    /\ s.pc \in OwnTaskPcs => s.id \in Tasks

RequestsInv ==
    /\ request \in [Requests -> RequestState]
    /\ \A r \in Requests : RequestPlaced(request[r])

IInv == HostsInv /\ HostOfVmsInv /\ TasksInv /\ JobsInv /\ RequestsInv

-----------------------------------------------------------------------------
(* Sums. *)

\* A sum is the value at one point and the sum of the rest.
LEMMA TotalSplit ==
    ASSUME NEW S, IsFiniteSet(S), NEW f \in [S -> Nat], NEW x \in S
    PROVE  LET rest == UNION {{y} \X (1 .. f[y]) : y \in S \ {x}}
           IN  /\ IsFiniteSet(rest)
               /\ Total(f) = Cardinality(rest) + f[x]
<1> DEFINE rest == UNION {{y} \X (1 .. f[y]) : y \in S \ {x}}
           own == {x} \X (1 .. f[x])
<1>1. ASSUME NEW y \in S
      PROVE  /\ IsFiniteSet({y} \X (1 .. f[y]))
             /\ Cardinality({y} \X (1 .. f[y])) = f[y]
  <2>1. IsFiniteSet({y}) /\ Cardinality({y}) = 1
    BY FS_Singleton
  <2>2. f[y] \in Nat
    OBVIOUS
  <2>3. IsFiniteSet(1 .. f[y]) /\ Cardinality(1 .. f[y]) = f[y]
    BY <2>2, FS_Interval
  <2>4. /\ IsFiniteSet({y} \X (1 .. f[y]))
        /\ Cardinality({y} \X (1 .. f[y])) = Cardinality({y}) * Cardinality(1 .. f[y])
    BY <2>1, <2>3, FS_Product
  <2>5. QED
    BY <2>1, <2>2, <2>3, <2>4
<1>2. IsFiniteSet(rest)
  <2> DEFINE others == S \ {x}
             parts == {{y} \X (1 .. f[y]) : y \in others}
             part == [y \in others |-> {y} \X (1 .. f[y])]
  <2>1. IsFiniteSet(others)
    BY FS_Subset
  <2>2. part \in Surjection(others, parts)
    BY DEF Surjection
  <2>3. \A p \in parts : IsFiniteSet(p)
    BY <1>1
  <2> HIDE DEF others, parts, part
  <2>4. IsFiniteSet(parts)
    BY <2>1, <2>2, FS_Surjection
  <2>5. IsFiniteSet(UNION parts)
    BY <2>3, <2>4, FS_UNION
  <2>6. QED
    BY <2>5 DEF others, parts
<1>3. IsFiniteSet(own) /\ Cardinality(own) = f[x]
  BY <1>1
<1>4. UNION {{y} \X (1 .. f[y]) : y \in S} = rest \cup own
  OBVIOUS
<1>5. rest \cap own = {}
  OBVIOUS
<1>6. Total(f) = Cardinality(rest \cup own)
  BY <1>4 DEF Total
<1> HIDE DEF rest, own
<1>7. Cardinality(rest \cup own)
         = Cardinality(rest) + Cardinality(own) - Cardinality(rest \cap own)
  BY <1>2, <1>3, FS_Union
<1>8. Cardinality(rest \cap own) = 0
  BY <1>5, FS_EmptySet
<1>9. Cardinality(rest) \in Nat /\ f[x] \in Nat
  BY <1>2, FS_CardinalityType
<1>10. QED
  BY <1>2, <1>3, <1>6, <1>7, <1>8, <1>9 DEF rest

\* A sum is a number.
LEMMA TotalIsNat ==
    ASSUME NEW S, IsFiniteSet(S), NEW f \in [S -> Nat]
    PROVE  Total(f) \in Nat
<1>1. CASE S = {}
  BY <1>1, FS_EmptySet DEF Total
<1>2. ASSUME NEW x \in S
      PROVE  Total(f) \in Nat
  <2> DEFINE rest == UNION {{y} \X (1 .. f[y]) : y \in S \ {x}}
  <2>1. IsFiniteSet(rest) /\ Total(f) = Cardinality(rest) + f[x]
    BY TotalSplit
  <2> HIDE DEF rest
  <2>2. Cardinality(rest) \in Nat /\ f[x] \in Nat
    BY <2>1, FS_CardinalityType
  <2>3. QED
    BY <2>1, <2>2
<1>3. QED
  BY <1>1, <1>2

\* When a function changes at one point, or at none, its sum changes by as much.
LEMMA TotalChanges ==
    ASSUME NEW S, IsFiniteSet(S), NEW f \in [S -> Nat], NEW g \in [S -> Nat], NEW x,
           \A y \in S \ {x} : g[y] = f[y]
    PROVE  Total(g) = Total(f) + (IF x \in S THEN g[x] - f[x] ELSE 0)
<1>1. CASE x \notin S
  BY <1>1, TotalIsNat
<1>2. CASE x \in S
  <2> DEFINE rest(u) == UNION {{y} \X (1 .. u[y]) : y \in S \ {x}}
  <2>1. {{y} \X (1 .. g[y]) : y \in S \ {x}} = {{y} \X (1 .. f[y]) : y \in S \ {x}}
    OBVIOUS
  <2>2. rest(g) = rest(f)
    BY <2>1
  <2>3. IsFiniteSet(rest(f)) /\ Total(f) = Cardinality(rest(f)) + f[x]
    BY <1>2, TotalSplit
  <2>4. Total(g) = Cardinality(rest(g)) + g[x]
    BY <1>2, TotalSplit
  <2> HIDE DEF rest
  <2>5. Cardinality(rest(f)) \in Nat /\ f[x] \in Nat /\ g[x] \in Nat
    BY <1>2, <2>3, FS_CardinalityType
  <2>6. QED
    BY <1>2, <2>2, <2>3, <2>4, <2>5
<1>3. QED
  BY <1>1, <1>2

\* When a finite set changes at one point, or at none, so does its cardinality.
LEMMA CardinalityChanges ==
    ASSUME NEW S, IsFiniteSet(S), NEW A \in SUBSET S, NEW B \in SUBSET S, NEW x,
           \A y \in S \ {x} : y \in B <=> y \in A
    PROVE  /\ Cardinality(A) \in Nat
           /\ Cardinality(B)
                 = Cardinality(A) + (IF x \in B THEN 1 ELSE 0) - (IF x \in A THEN 1 ELSE 0)
<1>1. IsFiniteSet(A) /\ IsFiniteSet(B)
  BY FS_Subset
<1>2. Cardinality(A) \in Nat /\ Cardinality(B) \in Nat
  BY <1>1, FS_CardinalityType
<1>3. CASE x \in A /\ x \notin B
  BY <1>1, <1>2, <1>3, FS_RemoveElement
<1>4. CASE x \notin A /\ x \in B
  BY <1>1, <1>2, <1>4, FS_AddElement
<1>5. CASE x \in A <=> x \in B
  BY <1>2, <1>5
<1>6. QED
  BY <1>3, <1>4, <1>5

-----------------------------------------------------------------------------
(* The parts that a step leaves alone. *)

\* A step that moves neither a vm nor a domain keeps the part of the vms.
LEMMA HostOfVmsKept ==
    ASSUME HostOfVmsInv, UNCHANGED <<vm_host, domain_host, crashes>>
    PROVE  HostOfVmsInv'
  BY DEF HostOfVmsInv

\* A step that writes no task row keeps the part of the tasks.
LEMMA TasksKept ==
    ASSUME TasksInv, UNCHANGED <<task, old>>
    PROVE  TasksInv'
  BY DEF TasksInv

\* A step of a request but Submit keeps the part of the jobs.
LEMMA JobsKept ==
    ASSUME JobsInv, UNCHANGED job
    PROVE  JobsInv'
  BY DEF JobsInv

\* A step of a job keeps the part of the requests.
LEMMA RequestsKept ==
    ASSUME RequestsInv, UNCHANGED request
    PROVE  RequestsInv'
  BY DEF RequestsInv

-----------------------------------------------------------------------------
(* Rows, jobs and requests that are written. *)

\* A row that was placed if it is pending may be written.
LEMMA RowWritten ==
    ASSUME TasksInv, NEW t \in Tasks, NEW row \in TaskRow,
           Pending(row) => Placed(row),
           task' = [task EXCEPT ![t] = row], UNCHANGED old
    PROVE  TasksInv'
  BY DEF TasksInv

\* A task that failed is not pending, whatever becomes of its columns.
LEMMA FailedWritten ==
    ASSUME TasksInv, NEW t \in Tasks, NEW m_task \in TaskRow,
           SaveFailed(t, m_task), UNCHANGED old
    PROVE  TasksInv'
<1> DEFINE row == [task[t] EXCEPT !.status = "failed", !.content = "problem",
                                  !.dst_is_claim = m_task.dst_is_claim]
<1>1. task[t] \in TaskRow
  BY DEF TasksInv
<1>2. row \in TaskRow /\ ~Pending(row)
  BY <1>1 DEF TaskRow, Content, Pending
<1>3. task' = [task EXCEPT ![t] = row]
  BY <1>1 DEF SaveFailed, TaskRow, TasksInv
<1> HIDE DEF row
<1>4. QED
  BY <1>2, <1>3, RowWritten

\* A thread of the pool takes a well-formed state.
LEMMA JobWritten ==
    ASSUME JobsInv, NEW t \in Tasks, NEW j \in JobState, JobPlaced(j),
           job' = [job EXCEPT ![t] = j]
    PROVE  JobsInv'
  BY DEF JobsInv

\* A job that goes on to its next statement has the task it had.
LEMMA JobGoesOn ==
    ASSUME JobsInv, NEW t \in Tasks, NEW pc \in JobPcs,
           Placed(JobTask(t)), GotoJob(t, pc)
    PROVE  JobsInv'
<1> DEFINE j == [job[t] EXCEPT !.pc = pc]
<1>1. job[t] \in JobState
  BY DEF JobsInv
<1>2. j \in JobState /\ JobPlaced(j)
  BY <1>1 DEF JobState, JobPlaced, JobTask
<1>3. job' = [job EXCEPT ![t] = j]
  BY DEF GotoJob
<1> HIDE DEF j
<1>4. QED
  BY <1>2, <1>3, JobWritten

\* No task and no job are what a task and a job may be.
LEMMA NothingTyped ==
    NoTask \in TaskRow /\ ~Pending(NoTask) /\ NoJob \in JobState /\ JobPlaced(NoJob)
  BY DEF NoTask, TaskRow, Content, Pending, NoJob, JobState, JobPcs, JobPlaced

\* A job that ends leaves its thread without one.
LEMMA JobEnds ==
    ASSUME JobsInv, NEW t \in Tasks, EndJob(t)
    PROVE  JobsInv'
  BY NothingTyped, JobWritten DEF EndJob

\* A thread takes a well-formed request.
LEMMA RequestWritten ==
    ASSUME RequestsInv, NEW r \in Requests, NEW s \in RequestState,
           RequestPlaced(s), request' = [request EXCEPT ![r] = s]
    PROVE  RequestsInv'
  BY DEF RequestsInv

\* A thread without a request is well-formed.
LEMMA IdlePlaced == Idle \in RequestState /\ RequestPlaced(Idle)
  BY NothingTyped DEF Idle, RequestState, RequestPcs, RequestPlaced, CleanUpPcs, OwnTaskPcs

\* A request that ends leaves its thread without one.
LEMMA RequestEnds ==
    ASSUME RequestsInv, NEW r \in Requests, EndRequest(r)
    PROVE  RequestsInv'
  BY IdlePlaced, RequestWritten DEF EndRequest

\* A request goes on within the clean-up, within the steps that have a task of
\* their own, or to a step that needs neither.
LEMMA RequestGoesOn ==
    ASSUME RequestsInv, NEW r \in Requests, NEW pc \in RequestPcs,
           ~AtRequest(r, "idle"), GotoRequest(r, pc),
           pc \in CleanUpPcs => request[r].pc \in CleanUpPcs,
           pc \in OwnTaskPcs => request[r].pc \in OwnTaskPcs
    PROVE  RequestsInv'
<1> DEFINE s == [request[r] EXCEPT !.pc = pc]
<1>1. request[r] \in RequestState /\ RequestPlaced(request[r])
  BY DEF RequestsInv
<1>2. s \in RequestState
  BY <1>1 DEF RequestState
<1>3. RequestPlaced(s)
  BY <1>1 DEF RequestPlaced, RequestState, AtRequest
<1>4. request' = [request EXCEPT ![r] = s]
  BY DEF GotoRequest
<1> HIDE DEF s
<1>5. QED
  BY <1>2, <1>3, <1>4, RequestWritten

\* The loop over the old tasks goes on with one that is pending, or is left.
LEMMA GoOnPlaced ==
    ASSUME RequestsInv, NEW r \in Requests, NEW s \in RequestState,
           s.vm \in Vms /\ s.vm_host \in Hosts /\ s.dest \in Hosts,
           \A t \in Tasks : Pending(s.loaded[t]) => Placed(s.loaded[t]),
           GoOn(r, s)
    PROVE  RequestsInv'
<1>1. ASSUME NEW t \in LoadedAs(s, "wait"),
             request' = [request EXCEPT ![r] = [s EXCEPT !.pc = "fail_old", !.id = t]]
      PROVE  RequestsInv'
  <2> DEFINE s2 == [s EXCEPT !.pc = "fail_old", !.id = t]
  <2>1. t \in Tasks /\ Pending(s.loaded[t])
    BY DEF LoadedAs, Pending
  <2>2. s2 \in RequestState
    BY <2>1 DEF RequestState, RequestPcs
  <2>3. RequestPlaced(s2)
    BY <2>1 DEF RequestPlaced, RequestState, CleanUpPcs, OwnTaskPcs
  <2> HIDE DEF s2
  <2>4. QED
    BY <1>1, <2>2, <2>3, RequestWritten DEF s2
<1>2. CASE request' = [request EXCEPT ![r] = [s EXCEPT !.pc = "check", !.id = 0]]
  <2> DEFINE s2 == [s EXCEPT !.pc = "check", !.id = 0]
  <2>1. s2 \in RequestState
    BY DEF RequestState, RequestPcs
  <2>2. RequestPlaced(s2)
    BY DEF RequestPlaced, RequestState, CleanUpPcs, OwnTaskPcs
  <2> HIDE DEF s2
  <2>3. QED
    BY <1>2, <2>1, <2>2, RequestWritten DEF s2
<1>3. ASSUME NEW t \in LoadedAs(s, "some-todo"),
             request' = [request EXCEPT ![r] = [s EXCEPT !.pc = "fix_src", !.id = t]]
      PROVE  RequestsInv'
  <2> DEFINE s2 == [s EXCEPT !.pc = "fix_src", !.id = t]
  <2>1. t \in Tasks /\ Pending(s.loaded[t])
    BY DEF LoadedAs, Pending
  <2>2. s2 \in RequestState
    BY <2>1 DEF RequestState, RequestPcs
  <2>3. RequestPlaced(s2)
    BY <2>1 DEF RequestPlaced, RequestState, CleanUpPcs, OwnTaskPcs
  <2> HIDE DEF s2
  <2>4. QED
    BY <1>3, <2>2, <2>3, RequestWritten DEF s2
<1>4. CASE EndRequest(r)
  BY <1>4, RequestEnds
<1>5. QED
  BY <1>1, <1>2, <1>3, <1>4 DEF GoOn

\* What a request that cleans up works with: its vm, and a task with a vm and
\* two hosts.
LEMMA CleanUpPlaced ==
    ASSUME RequestsInv, NEW r \in Requests, request[r].pc \in CleanUpPcs
    PROVE  /\ request[r] \in RequestState
           /\ request[r].vm \in Vms /\ request[r].vm_host \in Hosts /\ request[r].dest \in Hosts
           /\ request[r].id \in Tasks
           /\ OldTask(r) \in TaskRow /\ Pending(OldTask(r)) /\ Placed(OldTask(r))
  BY DEF OldTask, RequestsInv, RequestPlaced, RequestState, CleanUpPcs

\* A request that cleans up changes the task it loaded in columns that say
\* neither where nor what it is.
LEMMA LoadedWritten ==
    ASSUME RequestsInv, NEW r \in Requests, request[r].pc \in CleanUpPcs,
           NEW pc \in CleanUpPcs, NEW row \in TaskRow, Pending(row), Placed(row),
           request' = [request EXCEPT ![r].pc = pc, ![r].loaded[request[r].id] = row]
    PROVE  RequestsInv'
<1> DEFINE s == [request[r] EXCEPT !.pc = pc, !.loaded[request[r].id] = row]
<1>1. request[r] \in RequestState /\ RequestPlaced(request[r]) /\ request[r].id \in Tasks
  BY CleanUpPlaced DEF RequestsInv
<1>2. pc \in RequestPcs /\ pc \notin OwnTaskPcs /\ request[r].pc # "idle"
  BY DEF CleanUpPcs, RequestPcs, OwnTaskPcs
<1>3. s \in RequestState
  BY <1>1, <1>2 DEF RequestState
<1>4. RequestPlaced(s)
  BY <1>1, <1>2 DEF RequestPlaced, RequestState
<1>5. request' = [request EXCEPT ![r] = s]
  BY <1>1 DEF RequestsInv
<1> HIDE DEF s
<1>6. QED
  BY <1>3, <1>4, <1>5, RequestWritten

\* A release of what a vm claimed keeps the hosts within their totals.
LEMMA FreeVmKeepsTotals ==
    ASSUME HostsInv, NEW h, NEW v \in Vms, free_vm(h, v)
    PROVE  HostsInv'
  BY MigrateAssumption, FreeKeepsTotals DEF free_vm

-----------------------------------------------------------------------------
(* The actions. *)

\* A request begins, looks at the old tasks and fails those that wait.
LEMMA OldTasksKeep ==
    ASSUME IInv, NEW r \in Requests,
           \/ \E v \in Vms, dest \in Hosts : Start(r, v, dest)
           \/ CheckOld(r) \/ LoadOld(r) \/ FailOld(r) \/ FailOldSave(r)
    PROVE  IInv'
<1> USE DEF IInv
<1>a. request[r] \in RequestState /\ RequestPlaced(request[r])
  BY DEF RequestsInv
<1>b. request[r].pc \in CleanUpPcs =>
         /\ request[r].vm \in Vms /\ request[r].vm_host \in Hosts /\ request[r].dest \in Hosts
         /\ request[r].id \in Tasks
         /\ OldTask(r) \in TaskRow /\ Pending(OldTask(r)) /\ Placed(OldTask(r))
  BY CleanUpPlaced
<1>1. ASSUME NEW v \in Vms, NEW dest \in Hosts, Start(r, v, dest)
      PROVE  IInv'
  <2> DEFINE s == [Idle EXCEPT !.pc = "check_old", !.vm = v, !.vm_host = vm_host[v],
                               !.dest = dest]
  <2>1. vm_host[v] \in Hosts
    BY DEF HostOfVmsInv
  <2>2. s \in RequestState
    BY <2>1, IdlePlaced DEF RequestState, RequestPcs
  <2>3. RequestPlaced(s)
    BY <2>1, IdlePlaced DEF RequestPlaced, RequestState, CleanUpPcs, OwnTaskPcs, Idle
  <2>4. request' = [request EXCEPT ![r] = s]
    BY <1>1 DEF Start
  <2> HIDE DEF s
  <2>5. RequestsInv'
    BY <2>2, <2>3, <2>4, RequestWritten
  <2>6. QED
    BY <1>1, <2>5, HostsKept, HostOfVmsKept, TasksKept, JobsKept DEF Start
<1>2. CASE CheckOld(r)
  <2>1. RequestsInv'
    BY <1>2, RequestEnds, RequestGoesOn DEF CheckOld, AtRequest, RequestPcs, CleanUpPcs, OwnTaskPcs
  <2>2. QED
    BY <1>2, <2>1, HostsKept, HostOfVmsKept, TasksKept, JobsKept DEF CheckOld
<1>3. CASE LoadOld(r)
  <2> DEFINE loaded == [t \in Tasks |->
                          IF task[t].vm = request[r].vm /\ task[t].status \in {"some-todo", "wait"}
                          THEN task[t] ELSE NoTask]
             s == [request[r] EXCEPT !.loaded = loaded, !.seen = vm_host[request[r].vm]]
  <2>1. request[r].vm \in Vms /\ request[r].vm_host \in Hosts /\ request[r].dest \in Hosts
    BY <1>3, <1>a DEF LoadOld, AtRequest, RequestPlaced
  <2>2. loaded \in [Tasks -> TaskRow] /\ \A t \in Tasks : Pending(loaded[t]) => Placed(loaded[t])
    BY NothingTyped DEF TasksInv
  <2> HIDE DEF loaded
  <2>3. vm_host[request[r].vm] \in Hosts
    BY <2>1 DEF HostOfVmsInv
  <2>4. /\ s \in RequestState
        /\ s.vm \in Vms /\ s.vm_host \in Hosts /\ s.dest \in Hosts
        /\ s.loaded = loaded
    BY <1>a, <2>1, <2>2, <2>3 DEF RequestState
  <2>5. GoOn(r, s)
    BY <1>3 DEF LoadOld, loaded
  <2> HIDE DEF s
  <2>6. RequestsInv'
    BY <2>2, <2>4, <2>5, GoOnPlaced
  <2>7. QED
    BY <1>3, <2>6, HostsKept, HostOfVmsKept, TasksKept, JobsKept DEF LoadOld
<1>4. CASE FailOld(r)
  <2> DEFINE m_task == OldTask(r)
             row == [m_task EXCEPT !.dst_is_claim = @ /\ ~can_free_vm(m_task.dst, m_task.vm)]
  <2>1. request[r].pc \in CleanUpPcs /\ "fail_old_save" \in CleanUpPcs
    BY <1>4 DEF FailOld, AtRequest, CleanUpPcs
  <2>2. m_task \in TaskRow /\ Pending(m_task) /\ Placed(m_task)
    BY <1>b, <2>1
  <2>3. row \in TaskRow /\ Pending(row) /\ Placed(row)
    BY <2>2, Zenon DEF TaskRow, Pending, Placed
  <2>4. request' = [request EXCEPT ![r].pc = "fail_old_save", ![r].loaded[request[r].id] = row]
    BY <1>4, <1>a, <1>b, <2>1 DEF FailOld, OldTask, RequestsInv, RequestState
  <2>5. free_vm(m_task.dst, m_task.vm) /\ m_task.vm \in Vms
    BY <1>4, <2>2 DEF FailOld, Placed
  <2> HIDE DEF m_task, row
  <2>6. RequestsInv'
    BY <2>1, <2>3, <2>4, LoadedWritten
  <2>7. HostsInv'
    BY <2>5, FreeVmKeepsTotals
  <2>8. QED
    BY <1>4, <2>6, <2>7, HostOfVmsKept, TasksKept, JobsKept DEF FailOld
<1>5. CASE FailOldSave(r)
  <2>1. request[r].pc \in CleanUpPcs
    BY <1>5 DEF FailOldSave, AtRequest, CleanUpPcs
  <2>2. CASE EndRequest(r) /\ UNCHANGED task
    BY <1>5, <2>2, RequestEnds, HostsKept, HostOfVmsKept, TasksKept, JobsKept DEF FailOldSave
  <2>3. CASE /\ SaveFailed(request[r].id, OldTask(r))
             /\ GoOn(r, [request[r] EXCEPT !.loaded[request[r].id] = NoTask])
    <3> DEFINE s == [request[r] EXCEPT !.loaded[request[r].id] = NoTask]
    <3>1. TasksInv'
      BY <1>5, <1>b, <2>1, <2>3, FailedWritten DEF FailOldSave
    <3>2. /\ s \in RequestState
          /\ s.vm \in Vms /\ s.vm_host \in Hosts /\ s.dest \in Hosts
          /\ \A t \in Tasks : Pending(s.loaded[t]) => Placed(s.loaded[t])
      BY <1>a, <1>b, <2>1, NothingTyped DEF RequestState, RequestPlaced
    <3>3. GoOn(r, s)
      BY <2>3
    <3> HIDE DEF s
    <3>4. RequestsInv'
      BY <3>2, <3>3, GoOnPlaced
    <3>5. QED
      BY <1>5, <3>1, <3>4, HostsKept, HostOfVmsKept, JobsKept DEF FailOldSave
  <2>4. QED
    BY <1>5, <2>2, <2>3 DEF FailOldSave
<1>6. QED
  BY <1>1, <1>2, <1>3, <1>4, <1>5

\* A request finishes the task that was left with something to do.
LEMMA SomeTodoKeeps ==
    ASSUME IInv, NEW r \in Requests,
           FixSrc(r) \/ FixDst(r) \/ FixHost(r) \/ FixFree(r) \/ FixSave(r) \/ FixDone(r)
    PROVE  IInv'
<1> USE DEF IInv
<1> DEFINE m_task == OldTask(r)
<1>a. request[r].pc \in CleanUpPcs
  BY DEF FixSrc, FixDst, FixHost, FixFree, FixSave, FixDone, AtRequest, CleanUpPcs
<1>b. /\ request[r].vm \in Vms /\ request[r].id \in Tasks
      /\ m_task \in TaskRow /\ Pending(m_task) /\ Placed(m_task)
  BY <1>a, CleanUpPlaced
<1>c. ~AtRequest(r, "idle")
  BY <1>a DEF AtRequest, CleanUpPcs
<1>d. \A pc \in CleanUpPcs \cup {"check"} : pc \in RequestPcs /\ pc \notin OwnTaskPcs
  BY DEF CleanUpPcs, RequestPcs, OwnTaskPcs
<1>1. CASE FixSrc(r)
  <2>1. RequestsInv'
    BY <1>1, <1>a, <1>c, <1>d, RequestGoesOn, RequestEnds DEF FixSrc, CleanUpPcs
  <2>2. QED
    BY <1>1, <2>1, HostsKept, HostOfVmsKept, TasksKept, JobsKept DEF FixSrc
<1>2. CASE FixDst(r)
  <2>1. RequestsInv'
    BY <1>2, <1>a, <1>c, <1>d, RequestGoesOn, RequestEnds DEF FixDst, CleanUpPcs
  <2>2. QED
    BY <1>2, <2>1, HostsKept, HostOfVmsKept, TasksKept, JobsKept DEF FixDst
<1>3. CASE FixHost(r)
  <2>1. RequestsInv'
    BY <1>3, <1>a, <1>c, <1>d, RequestGoesOn, RequestEnds DEF FixHost, CleanUpPcs
  <2>2. m_task.dst \in Hosts
    BY <1>b DEF Placed
  <2>3. HostOfVmsInv'
    BY <1>3, <1>b, <2>2 DEF FixHost, HostOfVmsInv
  <2>4. QED
    BY <1>3, <2>1, <2>3, HostsKept, TasksKept, JobsKept DEF FixHost
<1>4. CASE FixFree(r)
  <2> DEFINE row == [m_task EXCEPT !.src_is_free = TRUE]
  <2>1. row \in TaskRow /\ Pending(row) /\ Placed(row)
    BY <1>b DEF TaskRow, Pending, Placed
  <2>2. \/ request' = [request EXCEPT ![r].pc = "fix_save", ![r].loaded[request[r].id] = row]
        \/ EndRequest(r)
        \/ GotoRequest(r, "fix_done")
    BY <1>b, <1>4 DEF FixFree, RequestsInv, OldTask, RequestState
  <2>3. m_task.vm \in Vms /\ (free_vm(m_task.src, m_task.vm) \/ UNCHANGED host)
    BY <1>4, <1>b DEF FixFree, Placed
  <2> HIDE DEF row, m_task
  <2>4. RequestsInv'
    BY <1>a, <1>c, <1>d, <2>1, <2>2, LoadedWritten, RequestEnds, RequestGoesOn DEF CleanUpPcs
  <2>5. HostsInv'
    BY <2>3, FreeVmKeepsTotals, HostsKept
  <2>6. QED
    BY <1>4, <2>4, <2>5, HostOfVmsKept, TasksKept, JobsKept DEF FixFree
<1>5. CASE FixSave(r)
  <2>1. RequestsInv'
    BY <1>5, <1>a, <1>c, <1>d, RequestGoesOn DEF FixSave, CleanUpPcs
  <2>2. TasksInv'
    BY <1>5, <1>b, RowWritten DEF FixSave
  <2>3. QED
    BY <1>5, <2>1, <2>2, HostsKept, HostOfVmsKept, JobsKept DEF FixSave
<1>6. CASE FixDone(r)
  <2> DEFINE row == [m_task EXCEPT !.status = "complete"]
  <2>1. RequestsInv'
    BY <1>6, <1>a, <1>c, <1>d, RequestGoesOn, RequestEnds DEF FixDone, CleanUpPcs
  <2>2. row \in TaskRow /\ ~Pending(row)
    BY <1>b DEF TaskRow, Pending
  <2>3. (task' = [task EXCEPT ![request[r].id] = row] \/ UNCHANGED task) /\ UNCHANGED old
    BY <1>6 DEF FixDone
  <2> HIDE DEF row
  <2>4. TasksInv'
    BY <1>b, <2>2, <2>3, RowWritten, TasksKept
  <2>5. QED
    BY <1>6, <2>1, <2>4, HostsKept, HostOfVmsKept, JobsKept DEF FixDone
<1>7. QED
  BY <1>1, <1>2, <1>3, <1>4, <1>5, <1>6

\* A request checks, claims, and hands a new task to the pool.
LEMMA NewTaskKeeps ==
    ASSUME IInv, NEW r \in Requests,
           \/ Check(r) \/ Claim(r) \/ Insert(r) \/ UndoClaim(r) \/ Submit(r) \/ DeleteTask(r)
    PROVE  IInv'
<1> USE DEF IInv
<1>a. request[r] \in RequestState /\ RequestPlaced(request[r])
  BY DEF RequestsInv
<1>b. ~AtRequest(r, "idle")
  BY DEF Check, Claim, Insert, UndoClaim, Submit, DeleteTask, AtRequest
<1>c. request[r].vm \in Vms /\ request[r].vm_host \in Hosts /\ request[r].dest \in Hosts
  BY <1>a, <1>b DEF RequestPlaced, AtRequest
<1>d. \A pc \in {"claim", "insert", "undo_claim"} :
         pc \in RequestPcs /\ pc \notin CleanUpPcs /\ pc \notin OwnTaskPcs
  BY DEF CleanUpPcs, RequestPcs, OwnTaskPcs
<1>e. \A pc \in OwnTaskPcs : pc \in RequestPcs /\ pc \notin CleanUpPcs
  BY DEF CleanUpPcs, RequestPcs, OwnTaskPcs
<1>f. /\ Vcpu[request[r].vm] \in Int /\ Mem[request[r].vm] \in Int
  BY <1>c, MigrateAssumption
<1>1. CASE Check(r)
  BY <1>b, <1>d, <1>1, RequestGoesOn, RequestEnds, HostsKept, HostOfVmsKept, TasksKept, JobsKept DEF Check
<1>2. CASE Claim(r)
  <2>1. RequestsInv'
    BY <1>2, <1>b, <1>d, RequestGoesOn, RequestEnds DEF Claim
  <2>2. HostsInv'
    BY <1>2, <1>f, DeductKeepsTotals, HostsKept DEF Claim, claim_from_host, can_claim
  <2>3. QED
    BY <1>2, <2>1, <2>2, HostOfVmsKept, TasksKept, JobsKept DEF Claim
<1>3. CASE Insert(r)
  <2>1. ASSUME NEW t \in Tasks,
               task' = [task EXCEPT ![t] =
                  [NoTask EXCEPT !.status = "wait", !.vm = request[r].vm,
                                 !.src = request[r].vm_host,
                                 !.dst = request[r].dest, !.dst_is_claim = TRUE]],
               request' = [request EXCEPT ![r].pc = "submit", ![r].id = t]
        PROVE  TasksInv' /\ RequestsInv'
    <3> DEFINE row == [NoTask EXCEPT !.status = "wait", !.vm = request[r].vm,
                                     !.src = request[r].vm_host,
                                     !.dst = request[r].dest, !.dst_is_claim = TRUE]
               s == [request[r] EXCEPT !.pc = "submit", !.id = t]
    <3>1. row \in TaskRow /\ Placed(row)
      BY <1>c DEF NoTask, TaskRow, Content, Placed
    <3>2. s \in RequestState
      BY <1>a DEF RequestState, RequestPcs
    <3>3. RequestPlaced(s)
      BY <1>a, <1>c DEF RequestPlaced, RequestState, CleanUpPcs, OwnTaskPcs
    <3>4. task' = [task EXCEPT ![t] = row] /\ request' = [request EXCEPT ![r] = s]
      BY <2>1
    <3>5. UNCHANGED old
      BY <1>3 DEF Insert
    <3> HIDE DEF row, s
    <3>6. TasksInv'
      BY <3>1, <3>4, <3>5, RowWritten
    <3>7. RequestsInv'
      BY <3>2, <3>3, <3>4, RequestWritten
    <3>8. QED
      BY <3>6, <3>7
  <2>2. ASSUME GotoRequest(r, "undo_claim"), UNCHANGED task
        PROVE  TasksInv' /\ RequestsInv'
    BY <1>3, <2>2, <1>b, <1>d, RequestGoesOn, TasksKept DEF Insert
  <2>3. TasksInv' /\ RequestsInv'
    BY <1>3, <2>1, <2>2 DEF Insert
  <2>4. QED
    BY <1>3, <2>3, HostsKept, HostOfVmsKept, JobsKept DEF Insert
<1>4. CASE UndoClaim(r)
  <2>1. HostsInv'
    BY <1>4, <1>c, FreeVmKeepsTotals DEF UndoClaim
  <2>2. RequestsInv'
    BY <1>4, <1>b, <1>e, RequestGoesOn, RequestEnds DEF UndoClaim, AtRequest, OwnTaskPcs
  <2>3. QED
    BY <1>4, <2>1, <2>2, HostOfVmsKept, TasksKept, JobsKept DEF UndoClaim
<1>5. CASE Submit(r)
  <2>1. request[r].pc \in OwnTaskPcs /\ request[r].id \in Tasks
    BY <1>5, <1>a DEF Submit, AtRequest, OwnTaskPcs, RequestPlaced
  <2>2. RequestsInv'
    BY <1>5, <1>b, <1>e, <2>1, RequestGoesOn, RequestEnds DEF Submit, OwnTaskPcs
  <2>3. JobsInv'
    <3>1. CASE UNCHANGED job
      BY <3>1, JobsKept
    <3>2. CASE GotoJob(request[r].id, "queued")
      <4> DEFINE j == [job[request[r].id] EXCEPT !.pc = "queued"]
      <4>1. job[request[r].id] \in JobState
        BY <2>1 DEF JobsInv
      <4>2. j \in JobState /\ JobPlaced(j)
        BY <4>1 DEF JobState, JobPcs, JobPlaced
      <4>3. job' = [job EXCEPT ![request[r].id] = j]
        BY <3>2 DEF GotoJob
      <4> HIDE DEF j
      <4>4. QED
        BY <2>1, <4>2, <4>3, JobWritten
    <3>3. QED
      BY <1>5, <3>1, <3>2 DEF Submit
  <2>4. QED
    BY <1>5, <2>2, <2>3, HostsKept, HostOfVmsKept, TasksKept DEF Submit
<1>6. CASE DeleteTask(r)
  <2> DEFINE row == [NoTask EXCEPT !.status = "deleted"]
  <2>1. row \in TaskRow /\ ~Pending(row)
    BY DEF NoTask, TaskRow, Content, Pending
  <2>2. request[r].id \in Tasks
    BY <1>6, <1>a DEF DeleteTask, AtRequest, OwnTaskPcs, RequestPlaced
  <2>3. task' = [task EXCEPT ![request[r].id] = row] /\ UNCHANGED old
    BY <1>6 DEF DeleteTask
  <2> HIDE DEF row
  <2>4. TasksInv'
    BY <2>1, <2>2, <2>3, RowWritten
  <2>5. QED
    BY <1>6, <2>4, RequestEnds, HostsKept, HostOfVmsKept, JobsKept DEF DeleteTask
<1>7. QED
  BY <1>1, <1>2, <1>3, <1>4, <1>5, <1>6

\* The thread of the pool starts, moves the domain or fails.
LEMMA JobMovesKeep ==
    ASSUME IInv, NEW t \in Tasks,
           JobStart(t) \/ JobMigrate(t) \/ JobFail(t) \/ JobFailSave(t) \/ JobSaveHost(t)
    PROVE  IInv'
<1> USE DEF IInv
<1> DEFINE m_task == JobTask(t)
<1>a. job[t] \in JobState /\ m_task \in TaskRow
  BY DEF JobsInv, JobState, JobTask
<1>b. ~AtJob(t, "queued") => Placed(m_task)
  BY DEF JobTask, JobsInv, JobPlaced, JobStart, JobMigrate, JobFail, JobFailSave, JobSaveHost, AtJob
<1>1. CASE JobStart(t)
  <2>1. CASE task[t].status = "wait"
    <3> DEFINE row == [task[t] EXCEPT !.status = "in-process"]
               j == [NoJob EXCEPT !.pc = "migrate", !.vm_host = vm_host[row.vm], !.m_task = row]
    <3>1. task[t] \in TaskRow /\ Placed(task[t])
      BY <2>1 DEF TasksInv, Pending
    <3>2. row \in TaskRow /\ Placed(row) /\ ~Pending(row)
      BY <3>1 DEF TaskRow, Placed, Pending
    <3>3. task' = [task EXCEPT ![t] = row] /\ job' = [job EXCEPT ![t] = j] /\ UNCHANGED old
      BY <1>1, <2>1 DEF JobStart
    <3> HIDE DEF row
    <3>4. vm_host[row.vm] \in Hosts
      BY <3>2 DEF HostOfVmsInv, Placed
    <3>5. j \in JobState /\ JobPlaced(j)
      BY <3>2, <3>4 DEF NoJob, JobState, JobPcs, JobPlaced
    <3> HIDE DEF j
    <3>6. TasksInv'
      BY <3>2, <3>3, RowWritten
    <3>7. JobsInv'
      BY <3>3, <3>5, JobWritten
    <3>8. QED
      BY <1>1, <3>6, <3>7, HostsKept, HostOfVmsKept, RequestsKept DEF JobStart
  <2>2. CASE EndJob(t) /\ UNCHANGED task
    BY <1>1, <2>2, JobEnds, HostsKept, HostOfVmsKept, TasksKept, RequestsKept DEF JobStart
  <2>3. QED
    BY <1>1, <2>1, <2>2 DEF JobStart
<1>2. CASE JobMigrate(t)
  <2>1. Placed(m_task)
    BY <1>2, <1>b DEF JobMigrate, AtJob
  <2>2. JobsInv'
    BY <1>2, <2>1, JobGoesOn DEF JobMigrate, JobPcs
  <2>3. HostOfVmsInv'
    BY <1>2, <2>1 DEF JobMigrate, HostOfVmsInv, Placed
  <2>4. QED
    BY <1>2, <2>2, <2>3, HostsKept, TasksKept, RequestsKept DEF JobMigrate
<1>3. CASE JobFail(t)
  <2> DEFINE row == [m_task EXCEPT !.dst_is_claim = @ /\ ~can_free_vm(m_task.dst, m_task.vm)]
             j == [job[t] EXCEPT !.pc = "fail_save", !.m_task = row]
  <2>1. Placed(m_task)
    BY <1>3, <1>b DEF JobFail, AtJob
  <2>2. row \in TaskRow /\ Placed(row)
    BY <1>a, <2>1, Zenon DEF TaskRow, Placed
  <2>3. job' = [job EXCEPT ![t] = j]
    BY <1>3, <1>a DEF JobFail, JobTask, JobState, JobsInv
  <2>4. HostsInv'
    BY <1>3, <2>1, FreeVmKeepsTotals DEF JobFail, Placed
  <2> HIDE DEF row
  <2>5. j \in JobState /\ JobPlaced(j)
    BY <1>a, <2>2 DEF JobState, JobPcs, JobPlaced
  <2> HIDE DEF j
  <2>6. JobsInv'
    BY <2>3, <2>5, JobWritten
  <2>7. QED
    BY <1>3, <2>4, <2>6, HostOfVmsKept, TasksKept, RequestsKept DEF JobFail
<1>4. CASE JobFailSave(t)
  BY <1>a, <1>4, FailedWritten, JobEnds, HostsKept, HostOfVmsKept, RequestsKept DEF JobFailSave
<1>5. CASE JobSaveHost(t)
  <2>1. Placed(m_task)
    BY <1>5, <1>b DEF JobSaveHost, AtJob
  <2>2. HostOfVmsInv'
    BY <1>5, <2>1 DEF JobSaveHost, HostOfVmsInv, Placed
  <2>3. JobsInv'
    <3>1. CASE GotoJob(t, "count")
      BY <3>1, <2>1, JobGoesOn DEF JobPcs
    <3>2. CASE job' = [job EXCEPT ![t].pc = "count", ![t].log_msg = TRUE]
      <4> DEFINE j == [job[t] EXCEPT !.pc = "count", !.log_msg = TRUE]
      <4>1. j \in JobState /\ JobPlaced(j)
        BY <1>a, <2>1 DEF JobState, JobPcs, JobPlaced, JobTask
      <4>2. job' = [job EXCEPT ![t] = j]
        BY <3>2, <1>a DEF JobsInv
      <4> HIDE DEF j
      <4>3. QED
        BY <4>1, <4>2, JobWritten
    <3>3. QED
      BY <1>5, <3>1, <3>2 DEF JobSaveHost
  <2>4. QED
    BY <1>5, <2>2, <2>3, HostsKept, TasksKept, RequestsKept DEF JobSaveHost
<1>6. QED
  BY <1>1, <1>2, <1>3, <1>4, <1>5

\* The thread of the pool settles the counters and the quota of the source.
LEMMA JobSettlesKeep ==
    ASSUME IInv, NEW t \in Tasks,
           \/ JobCount(t) \/ JobTodo(t) \/ JobUncount(t)
           \/ JobFree(t) \/ JobFreeSave(t) \/ JobFinish(t)
    PROVE  IInv'
<1> USE DEF IInv
<1> DEFINE m_task == JobTask(t)
<1>a. job[t] \in JobState /\ m_task \in TaskRow
  BY DEF JobsInv, JobState, JobTask
<1>b. Placed(m_task)
  BY DEF JobTask, JobsInv, JobPlaced, JobCount, JobTodo, JobUncount, JobFree, JobFreeSave, JobFinish, AtJob
<1>1. CASE JobCount(t) \/ JobUncount(t)
  <2>1. HostsInv'
    BY <1>1, CountKeepsTotals DEF JobCount, JobUncount
  <2>2. JobsInv'
    BY <1>1, <1>b, JobGoesOn DEF JobCount, JobUncount, JobPcs
  <2>3. QED
    BY <1>1, <2>1, <2>2, HostOfVmsKept, TasksKept, RequestsKept DEF JobCount, JobUncount
<1>2. CASE JobTodo(t)
  <2> DEFINE row == [m_task EXCEPT !.src_undefined = TRUE, !.status = "some-todo"]
             j == [job[t] EXCEPT !.pc = "uncount", !.m_task = row]
  <2>1. row \in TaskRow /\ Placed(row)
    BY <1>a, <1>b DEF TaskRow, Placed
  <2>2. task' = [task EXCEPT ![t] = row] /\ job' = [job EXCEPT ![t] = j] /\ UNCHANGED old
    BY <1>2, <1>a DEF JobTodo, JobsInv
  <2> HIDE DEF row
  <2>3. j \in JobState /\ JobPlaced(j)
    BY <1>a, <2>1 DEF JobState, JobPcs, JobPlaced
  <2> HIDE DEF j
  <2>4. TasksInv' /\ JobsInv'
    BY <2>1, <2>2, <2>3, RowWritten, JobWritten
  <2>5. QED
    BY <1>2, <2>4, HostsKept, HostOfVmsKept, RequestsKept DEF JobTodo
<1>3. CASE JobFree(t)
  <2> DEFINE row == [m_task EXCEPT !.src_is_free = TRUE]
             freed == [job[t] EXCEPT !.pc = "free_save", !.m_task = row]
             refused == [job[t] EXCEPT !.pc = "finish", !.log_msg = TRUE]
  <2>1. row \in TaskRow /\ Placed(row)
    BY <1>a, <1>b DEF TaskRow, Placed
  <2>2. job' = [job EXCEPT ![t] = freed] \/ job' = [job EXCEPT ![t] = refused]
    BY <1>a, <1>3 DEF JobFree, JobsInv, JobState, JobTask
  <2> HIDE DEF row
  <2>3. freed \in JobState /\ JobPlaced(freed)
    BY <1>a, <2>1 DEF JobState, JobPcs, JobPlaced
  <2>4. refused \in JobState /\ JobPlaced(refused)
    BY <1>a, <1>b DEF JobState, JobPcs, JobPlaced, JobTask
  <2> HIDE DEF freed, refused
  <2>5. JobsInv'
    BY <2>2, <2>3, <2>4, JobWritten
  <2>6. HostsInv'
    BY <1>3, <1>b, FreeVmKeepsTotals DEF JobFree, Placed
  <2>7. QED
    BY <1>3, <2>5, <2>6, HostOfVmsKept, TasksKept, RequestsKept DEF JobFree
<1>4. CASE JobFreeSave(t)
  BY <1>a, <1>b, <1>4, RowWritten, JobGoesOn, HostsKept, HostOfVmsKept, RequestsKept DEF JobFreeSave, JobPcs
<1>5. CASE JobFinish(t)
  <2> DEFINE row == [m_task EXCEPT !.status = "complete",
                                   !.content = IF job[t].log_msg THEN "problem" ELSE "normal"]
  <2>1. row \in TaskRow /\ ~Pending(row)
    BY <1>a DEF TaskRow, Content, Pending
  <2>2. task' = [task EXCEPT ![t] = row] /\ UNCHANGED old
    BY <1>5 DEF JobFinish
  <2> HIDE DEF row
  <2>3. TasksInv'
    BY <2>1, <2>2, RowWritten
  <2>4. QED
    BY <1>5, <2>3, JobEnds, HostsKept, HostOfVmsKept, RequestsKept DEF JobFinish
<1>6. QED
  BY <1>1, <1>2, <1>3, <1>4, <1>5

\* Five minutes pass, or a process dies with what its threads were doing.
LEMMA WorldKeeps ==
    ASSUME IInv,
           \/ \E t \in Tasks : Age(t)
           \/ \E rs \in SUBSET Requests, ts \in SUBSET Tasks : Crash(rs, ts)
    PROVE  IInv'
<1> USE DEF IInv
<1>1. ASSUME NEW t \in Tasks, Age(t)
      PROVE  IInv'
  BY <1>1, HostsKept, HostOfVmsKept, JobsKept, RequestsKept DEF Age, TasksInv
<1>2. ASSUME NEW rs \in SUBSET Requests, NEW ts \in SUBSET Tasks, Crash(rs, ts)
      PROVE  IInv'
  BY <1>2, IdlePlaced, NothingTyped, HostsKept, TasksKept DEF Crash, RequestsInv, JobsInv, HostOfVmsInv
<1>3. QED
  BY <1>1, <1>2

-----------------------------------------------------------------------------
(* The invariant and what follows from it. *)

\* At first there is no task and no request, and the vms fit their hosts.
LEMMA InitIInv == Init => IInv
<1> SUFFICES ASSUME Init
             PROVE  IInv
  OBVIOUS
<1>1. HostTypeOK
  <2> SUFFICES ASSUME NEW h \in Hosts
               PROVE  host[h] \in HostRow
    BY DEF Init, HostTypeOK
  <2> DEFINE Here(size) == [v \in Vms |-> IF vm_host[v] = h THEN size[v] ELSE 0]
             counted == {v \in Vms : vm_host[v] = h}
  <2>1. IsFiniteSet(Vms) /\ Here(Vcpu) \in [Vms -> Nat] /\ Here(Mem) \in [Vms -> Nat]
    BY MigrateAssumption
  <2>2. IsFiniteSet(counted)
    BY <2>1, FS_Subset
  <2>3. host[h] = [vcpu_allocated |-> Total(Here(Vcpu)), mem_allocated |-> Total(Here(Mem)),
                   vm_created |-> Cardinality(counted)]
    BY DEF Init
  <2> HIDE DEF Here, counted
  <2>4. /\ Total(Here(Vcpu)) \in Nat /\ Total(Here(Mem)) \in Nat
        /\ Cardinality(counted) \in Nat
    BY <2>1, <2>2, TotalIsNat, FS_CardinalityType
  <2>5. QED
    BY <2>3, <2>4 DEF HostRow
<1>2. HostsInv /\ HostOfVmsInv
  BY <1>1 DEF Init, HostsInv, HostOfVmsInv
<1>3. TasksInv
  BY NothingTyped DEF Init, TasksInv
<1>4. JobsInv
  BY NothingTyped DEF Init, JobsInv
<1>5. RequestsInv
  BY IdlePlaced DEF Init, RequestsInv
<1>6. QED
  BY <1>2, <1>3, <1>4, <1>5 DEF IInv

\* Every step of requests, pool and world, and a stutter, keeps the invariant.
LEMMA NextIInv == IInv /\ [Next]_vars => IInv'
<1> SUFFICES ASSUME IInv, [Next]_vars
             PROVE  IInv'
  OBVIOUS
<1>1. CASE UNCHANGED vars
  BY <1>1, HostsKept, HostOfVmsKept, TasksKept, JobsKept, RequestsKept DEF IInv, vars
<1>2. ASSUME NEW r \in Requests, RequestStep(r)
      PROVE  IInv'
  BY <1>2, OldTasksKeep, SomeTodoKeeps, NewTaskKeeps DEF RequestStep
<1>3. ASSUME NEW t \in Tasks, JobStep(t)
      PROVE  IInv'
  BY <1>3, JobMovesKeep, JobSettlesKeep DEF JobStep
<1>4. QED
  BY <1>1, <1>2, <1>3, WorldKeeps DEF Next

\* IInv is an invariant of every migration, serial or not.
THEOREM MigrateInvariance == Spec => []IInv
<1>1. QED
  BY InitIInv, NextIInv, PTL DEF Spec

\* Every variable keeps its type: no clean-up and no job writes a row, a host
\* or a counter of the wrong kind, though both work with rows loaded earlier
\* (_vm_old_task_check, live_migrate_vm_task).
THEOREM MigrateTypeCorrect == Spec => []MigrateTypeOK
<1>1. IInv => MigrateTypeOK
  BY DEF IInv, HostsInv, HostOfVmsInv, TasksInv, JobsInv, RequestsInv, MigrateTypeOK
<1>2. QED
  BY <1>1, MigrateInvariance, PTL

\* The claims of live migrations never pass the totals of a host, also where
\* clean-up and pool work on one task, calls fail and processes die.
THEOREM MigrateNeverOvercommits == Spec => []NoOvercommit
<1>1. IInv => NoOvercommit
  BY DEF IInv, HostsInv
<1>2. QED
  BY <1>1, MigrateInvariance, PTL

-----------------------------------------------------------------------------
(* What requests and jobs know of a task, while no request comes for a vm  *)
(* that is worked on.                                                      *)

\* A task that waits or is in process, and one that is left with something to do.
Fresh(row) ==
    /\ row.src # row.dst /\ row.content = "empty"
    /\ ~row.src_undefined /\ ~row.src_is_free /\ row.dst_is_claim

Settling(row) ==
    /\ row.src # row.dst /\ row.content = "empty"
    /\ row.src_undefined /\ row.dst_is_claim

Given(row) == row.status \notin {"none", "deleted"}

TaskKnown(row) ==
    /\ IF Given(row) THEN Placed(row) ELSE row.vm = NoVm
    /\ row.status \in {"wait", "in-process"} => Fresh(row)
    /\ row.status = "some-todo" => Settling(row)
    /\ row.status = "complete" => row.src_undefined /\ row.src_is_free /\ row.dst_is_claim
    /\ row.status = "failed" => ~row.src_undefined /\ ~row.dst_is_claim

MovedPcs == {"count", "todo", "uncount", "free", "free_save", "finish"}

\* The thread of a task: row is the row of the task, vmh the host in the row of
\* its vm, dom the host with the domain.
JobKnown(j, row, vmh, dom) ==
    /\ j.pc \in {"queued", "migrate", "fail", "fail_save", "save_host"} => ~j.log_msg
    /\ j.pc = "queued" => row.status = "wait" /\ vmh = row.src /\ dom = row.src
    /\ j.pc \in {"migrate", "fail", "fail_save", "save_host", "count", "todo"}
          => row.status = "in-process"
    /\ j.pc \in {"migrate", "fail", "save_host", "count", "todo", "uncount", "free", "finish"}
          => j.m_task = row
    /\ j.pc \in {"migrate", "fail", "fail_save"} => vmh = row.src /\ dom = row.src
    /\ j.pc = "migrate" => j.vm_host = row.src
    /\ j.pc = "fail_save" => j.m_task = [row EXCEPT !.dst_is_claim = FALSE]
    /\ j.pc \in {"save_host", "count", "todo"} => dom = row.dst
    /\ j.pc \in {"uncount", "free", "free_save", "finish"} => row.status = "some-todo"
    /\ j.pc \in {"uncount", "free", "free_save"} => ~row.src_is_free
    /\ j.pc = "free_save" => j.m_task = [row EXCEPT !.src_is_free = TRUE]
    /\ j.pc = "finish" => row.src_is_free
    /\ j.pc \in MovedPcs => vmh = dom \/ j.log_msg

FailPcs == {"fail_old", "fail_old_save"}

FixPcs == {"fix_src", "fix_dst", "fix_host", "fix_free", "fix_save", "fix_done"}

ClaimPcs == {"claim", "insert", "undo_claim", "submit", "undo_submit", "delete_task"}

\* A request: row is the row of the task at hand.
RequestKnown(s, row, vmh, dom) ==
    /\ s.pc \in {"check_old", "load_old", "fix_src", "fix_dst", "fix_host"} \cup FailPcs
          => s.vm_host = vmh
    /\ s.pc \in FailPcs \cup FixPcs =>
          row.vm = s.vm /\ \A t \in Tasks \ {s.id} : s.loaded[t] = NoTask
    /\ s.pc \in FailPcs => row.status = "wait"
    /\ s.pc \in FixPcs => row.status = "some-todo"
    /\ s.pc \in {"fail_old", "fix_src", "fix_dst", "fix_host", "fix_free", "fix_done"}
          => s.loaded[s.id] = row
    /\ s.pc = "fail_old_save" => s.loaded[s.id] = [row EXCEPT !.dst_is_claim = FALSE]
    /\ s.pc = "fix_save" => s.loaded[s.id] = [row EXCEPT !.src_is_free = TRUE] /\ ~row.src_is_free
    /\ s.pc = "fix_done" => row.src_is_free
    /\ s.pc \in {"fix_src", "fix_dst", "fix_host"} => s.seen = vmh
    /\ s.pc \in {"fix_free", "fix_save", "fix_done"} => vmh = dom
    /\ s.pc = "check" => s.vm_host = vmh \/ vmh = dom
    /\ s.pc \in ClaimPcs => s.vm_host = vmh /\ vmh = dom /\ s.dest # s.vm_host
    /\ s.pc \in OwnTaskPcs =>
          row.status = "wait" /\ row.vm = s.vm /\ row.src = s.vm_host /\ row.dst = s.dest

RowOf(tasks, id) == IF id \in Tasks THEN tasks[id] ELSE NoTask

\* Where a request has dealt with every earlier task of its vm.
NonePending(s) == s.pc \in {"check", "claim", "insert", "undo_claim"}

\* A task that somebody acts on, or will.
Active(t) == Pending(task[t]) \/ job[t].pc # "none"

ApartInv ==
    /\ \A r, x \in Requests :
          request[r].pc # "idle" /\ request[r].vm = request[x].vm => r = x
    /\ \A r \in Requests, t \in Tasks :
          request[r].pc # "idle" /\ task[t].vm = request[r].vm => job[t].pc = "none"
    /\ \A t, u \in Tasks : Active(t) /\ Active(u) /\ task[t].vm = task[u].vm => t = u
    /\ \A r \in Requests, t \in Tasks :
          NonePending(request[r]) /\ task[t].vm = request[r].vm => ~Pending(task[t])

TasksKnown ==
    \A t \in Tasks :
        /\ TaskKnown(task[t])
        /\ task[t].status = "some-todo" => domain_host[task[t].vm] = task[t].dst

JobsKnown ==
    \A t \in Tasks :
        IF job[t].pc = "none"
        THEN job[t] = NoJob
        ELSE JobKnown(job[t], task[t], vm_host[task[t].vm], domain_host[task[t].vm])

RequestsKnown ==
    \A r \in Requests :
        IF request[r].pc = "idle"
        THEN request[r] = Idle
        ELSE RequestKnown(request[r], RowOf(task, request[r].id), vm_host[request[r].vm],
                          domain_host[request[r].vm])

KInv == IInv /\ ApartInv /\ TasksKnown /\ JobsKnown /\ RequestsKnown

-----------------------------------------------------------------------------
(* What a step may change. *)

\* What KInv says of a request that is not idle.
LEMMA RequestHas ==
    ASSUME KInv, NEW r \in Requests, request[r].pc # "idle"
    PROVE  /\ request[r] \in RequestState /\ request[r].vm \in Vms
           /\ request[r].vm_host \in Hosts /\ request[r].dest \in Hosts
           /\ RequestKnown(request[r], RowOf(task, request[r].id), vm_host[request[r].vm],
                           domain_host[request[r].vm])
           /\ request[r].pc \in CleanUpPcs \cup OwnTaskPcs =>
                 request[r].id \in Tasks /\ RowOf(task, request[r].id) = task[request[r].id]
  BY DEF KInv, IInv, RequestsInv, RequestPlaced, RequestsKnown, RowOf

\* What it says of a job.
LEMMA JobHas ==
    ASSUME KInv, NEW t \in Tasks, job[t].pc # "none"
    PROVE  /\ job[t] \in JobState /\ task[t] \in TaskRow /\ Placed(task[t])
           /\ task[t].status \in {"wait", "in-process", "some-todo"}
           /\ JobKnown(job[t], task[t], vm_host[task[t].vm], domain_host[task[t].vm])
           /\ \A u \in Tasks \ {t} : task[u].vm = task[t].vm => ~Active(u)
           /\ \A r \in Requests : request[r].pc = "idle" \/ request[r].vm # task[t].vm
<1>1. job[t] \in JobState /\ task[t] \in TaskRow
  BY DEF KInv, IInv, JobsInv, TasksInv
<1>2. JobKnown(job[t], task[t], vm_host[task[t].vm], domain_host[task[t].vm])
  BY DEF KInv, JobsKnown
<1>3. task[t].status \in {"wait", "in-process", "some-todo"}
  BY <1>1, <1>2 DEF JobKnown, JobState, JobPcs
<1>4. Placed(task[t])
  BY <1>3 DEF KInv, TasksKnown, TaskKnown, Given
<1>5. \A u \in Tasks \ {t} : task[u].vm = task[t].vm => ~Active(u)
  BY DEF KInv, ApartInv, Active
<1>6. \A r \in Requests : request[r].pc = "idle" \/ request[r].vm # task[t].vm
  BY DEF KInv, ApartInv
<1>7. QED
  BY <1>1, <1>2, <1>3, <1>4, <1>5, <1>6

\* A step of a request on v that writes no task.
LEMMA RequestMoves ==
    ASSUME KInv, IInv', NEW r \in Requests, NEW s, NEW v \in Vms,
           request[r].pc # "idle", request[r].vm = v,
           request' = [request EXCEPT ![r] = s],
           UNCHANGED <<task, job, domain_host>>,
           \A x \in Vms \ {v} : vm_host'[x] = vm_host[x],
           \/ s = Idle
           \/ /\ s.pc # "idle" /\ s.vm = v
              /\ RequestKnown(s, RowOf(task, s.id), vm_host'[v], domain_host[v])
              /\ NonePending(s) => \A t \in Tasks : task[t].vm = v => ~Pending(task[t])
    PROVE  KInv'
<1>1. request'[r] = s /\ \A x \in Requests \ {r} : request'[x] = request[x]
  BY DEF KInv, IInv, RequestsInv
<1>2. Idle.pc = "idle" /\ Idle.vm = NoVm /\ NoVm \notin Vms
  BY MigrateAssumption DEF Idle
<1>3. \A x \in Requests \ {r} : request[x].pc = "idle" \/ (request[x].vm \in Vms /\ request[x].vm # v)
  BY RequestHas DEF KInv, ApartInv
<1>4. \A t \in Tasks : job[t].pc # "none" => task[t].vm \in Vms /\ task[t].vm # v
  BY JobHas DEF Placed
<1>5. ApartInv'
  BY <1>1, <1>2, <1>3, <1>4 DEF KInv, ApartInv, NonePending, Active
<1>6. JobsKnown'
  <2> SUFFICES ASSUME NEW t \in Tasks
               PROVE  IF job[t].pc = "none"
                      THEN job[t] = NoJob
                      ELSE JobKnown(job[t], task[t], vm_host'[task[t].vm], domain_host[task[t].vm])
    BY DEF JobsKnown
  <2>1. QED
    BY <1>4 DEF KInv, JobsKnown
<1>7. RequestsKnown'
  <2> SUFFICES ASSUME NEW x \in Requests
               PROVE  IF request'[x].pc = "idle"
                      THEN request'[x] = Idle
                      ELSE RequestKnown(request'[x], RowOf(task, request'[x].id),
                                        vm_host'[request'[x].vm], domain_host[request'[x].vm])
    BY DEF RequestsKnown
  <2>1. CASE x = r
    BY <1>1, <1>2, <2>1
  <2>2. CASE x # r
    BY <1>1, <1>3, <2>2 DEF KInv, RequestsKnown
  <2>3. QED
    BY <2>1, <2>2
<1>8. TasksKnown'
  BY DEF KInv, TasksKnown
<1>9. QED
  BY <1>5, <1>6, <1>7, <1>8 DEF KInv

\* A step of a request on v that writes task k, of v or a new one.
LEMMA RequestWrites ==
    ASSUME KInv, IInv', NEW r \in Requests, NEW s, NEW v \in Vms, NEW k \in Tasks, NEW row,
           request[r].pc # "idle", request[r].vm = v,
           request' = [request EXCEPT ![r] = s],
           task' = [task EXCEPT ![k] = row],
           UNCHANGED <<job, vm_host, domain_host>>,
           task[k].vm = v \/ (task[k].status = "none" /\ NonePending(request[r])),
           row.vm \in {v, NoVm}, TaskKnown(row),
           row.status = "some-todo" => domain_host[row.vm] = row.dst,
           Pending(row) => Pending(task[k]) \/ NonePending(request[r]),
           \/ s = Idle
           \/ /\ s.pc # "idle" /\ s.vm = v
              /\ RequestKnown(s, IF s.id = k THEN row ELSE RowOf(task, s.id),
                              vm_host[v], domain_host[v])
              /\ NonePending(s) => /\ ~Pending(row)
                                   /\ \A t \in Tasks \ {k} : task[t].vm = v => ~Pending(task[t])
    PROVE  KInv'
<1>1. request'[r] = s /\ \A x \in Requests \ {r} : request'[x] = request[x]
  BY DEF KInv, IInv, RequestsInv
<1>2. Idle.pc = "idle" /\ Idle.vm = NoVm /\ NoVm \notin Vms
  BY MigrateAssumption DEF Idle
<1>3. \A x \in Requests \ {r} : request[x].pc = "idle" \/ (request[x].vm \in Vms /\ request[x].vm # v)
  BY RequestHas DEF KInv, ApartInv
<1>4. \A t \in Tasks : job[t].pc # "none" => task[t].vm \in Vms /\ task[t].vm # v /\ t # k
  <2> SUFFICES ASSUME NEW t \in Tasks, job[t].pc # "none"
               PROVE  task[t].vm \in Vms /\ task[t].vm # v /\ t # k
    OBVIOUS
  <2>1. QED
    BY JobHas DEF Placed
<1>5. task'[k] = row /\ \A t \in Tasks \ {k} : task'[t] = task[t]
  BY DEF KInv, IInv, TasksInv
<1>6. task[k].vm \in {v, NoVm} /\ job[k].pc = "none"
  BY <1>4 DEF KInv, TasksKnown, TaskKnown, Given
<1>7. ApartInv'
  <2>1. \A x, y \in Requests :
           request'[x].pc # "idle" /\ request'[x].vm = request'[y].vm => x = y
    BY <1>1, <1>2, <1>3 DEF KInv, ApartInv
  <2>2. \A x \in Requests, t \in Tasks :
           request'[x].pc # "idle" /\ task'[t].vm = request'[x].vm => job[t].pc = "none"
    BY <1>1, <1>2, <1>4, <1>5, <1>6 DEF KInv, ApartInv
  <2>3. \A x \in Requests, t \in Tasks :
           NonePending(request'[x]) /\ task'[t].vm = request'[x].vm => ~Pending(task'[t])
    <3> SUFFICES ASSUME NEW x \in Requests, NEW t \in Tasks,
                        NonePending(request'[x]), task'[t].vm = request'[x].vm
                 PROVE  ~Pending(task'[t])
      OBVIOUS
    <3>1. CASE x = r
      BY <1>1, <1>2, <1>5, <3>1 DEF NonePending
    <3>2. CASE x # r
      BY <1>1, <1>2, <1>3, <1>5, <3>2 DEF KInv, ApartInv, NonePending
    <3>3. QED
      BY <3>1, <3>2
  <2>4. ASSUME NEW t \in Tasks, Pending(task'[t]) \/ job[t].pc # "none",
               NEW u \in Tasks, Pending(task'[u]) \/ job[u].pc # "none",
               task'[t].vm = task'[u].vm
        PROVE  t = u
    <3>1. ASSUME NEW x \in Tasks \ {k}, Active(x), task[x].vm = row.vm, Pending(row)
          PROVE  FALSE
      BY <1>2, <1>4, <1>6, <3>1 DEF TaskKnown, Placed, Given, Pending, KInv, ApartInv, Active
    <3>2. CASE t # k /\ u # k
      BY <1>5, <2>4, <3>2 DEF KInv, ApartInv, Active
    <3>3. CASE t = k /\ u # k
      BY <1>5, <1>6, <2>4, <3>1, <3>3 DEF Active
    <3>4. CASE t # k /\ u = k
      BY <1>5, <1>6, <2>4, <3>1, <3>4 DEF Active
    <3>5. QED
      BY <3>2, <3>3, <3>4
  <2>5. QED
    BY <2>1, <2>2, <2>3, <2>4 DEF ApartInv, Active
<1>8. JobsKnown'
  <2> SUFFICES ASSUME NEW t \in Tasks
               PROVE  IF job[t].pc = "none"
                      THEN job[t] = NoJob
                      ELSE JobKnown(job[t], task'[t], vm_host[task'[t].vm], domain_host[task'[t].vm])
    BY DEF JobsKnown
  <2>1. QED
    BY <1>4, <1>5 DEF KInv, JobsKnown
<1>9. RequestsKnown'
  <2> SUFFICES ASSUME NEW x \in Requests
               PROVE  IF request'[x].pc = "idle"
                      THEN request'[x] = Idle
                      ELSE RequestKnown(request'[x], RowOf(task', request'[x].id),
                                        vm_host[request'[x].vm], domain_host[request'[x].vm])
    BY DEF RequestsKnown
  <2>1. CASE x = r
    BY <1>1, <1>2, <1>5, <2>1 DEF RowOf
  <2>2. CASE x # r /\ request[x].pc # "idle"
    <3>1. RequestKnown(request[x], RowOf(task, request[x].id), vm_host[request[x].vm],
                       domain_host[request[x].vm])
      BY <2>2 DEF KInv, RequestsKnown
    <3>2. request[x].vm \in Vms \ {v} /\ request'[x] = request[x]
      BY <1>1, <1>3, <2>2
    <3>3. CASE request[x].id # k
      BY <1>5, <3>1, <3>2, <3>3, <2>2 DEF RowOf
    <3>4. CASE request[x].id = k
      BY <1>2, <1>6, <2>2, <3>1, <3>2, <3>4 DEF RowOf, RequestKnown, FailPcs, FixPcs, OwnTaskPcs
    <3>5. QED
      BY <3>3, <3>4
  <2>3. CASE x # r /\ request[x].pc = "idle"
    BY <1>1, <2>3 DEF KInv, RequestsKnown
  <2>4. QED
    BY <2>1, <2>2, <2>3
<1>10. TasksKnown'
  BY <1>5 DEF KInv, TasksKnown
<1>11. QED
  BY <1>7, <1>8, <1>9, <1>10 DEF KInv

\* A step of the job of t.
LEMMA JobWrites ==
    ASSUME KInv, IInv', NEW t \in Tasks, NEW j, NEW row,
           job[t].pc # "none",
           job' = [job EXCEPT ![t] = j],
           task' = [task EXCEPT ![t] = row],
           UNCHANGED request,
           \A x \in Vms \ {task[t].vm} :
              vm_host'[x] = vm_host[x] /\ domain_host'[x] = domain_host[x],
           row.vm = task[t].vm, TaskKnown(row),
           row.status = "some-todo" => domain_host'[row.vm] = row.dst,
           \/ j = NoJob
           \/ j.pc # "none" /\ JobKnown(j, row, vm_host'[row.vm], domain_host'[row.vm])
    PROVE  KInv'
<1> DEFINE v == task[t].vm
<1>1. /\ v \in Vms
      /\ \A u \in Tasks \ {t} : task[u].vm = v => ~Pending(task[u]) /\ job[u].pc = "none"
      /\ \A r \in Requests : request[r].pc = "idle" \/ request[r].vm # v
  BY JobHas DEF Placed, Active
<1>2. /\ task'[t] = row /\ \A u \in Tasks \ {t} : task'[u] = task[u]
      /\ job'[t] = j /\ \A u \in Tasks \ {t} : job'[u] = job[u]
  BY DEF KInv, IInv, TasksInv, JobsInv
<1>3. NoJob.pc = "none"
  BY DEF NoJob
<1>4. ApartInv'
  <2>1. \A r, x \in Requests :
           request[r].pc # "idle" /\ request[r].vm = request[x].vm => r = x
    BY DEF KInv, ApartInv
  <2>2. \A r \in Requests, u \in Tasks :
           request[r].pc # "idle" /\ task'[u].vm = request[r].vm => job'[u].pc = "none"
    BY <1>1, <1>2 DEF KInv, ApartInv
  <2>3. \A r \in Requests, u \in Tasks :
           NonePending(request[r]) /\ task'[u].vm = request[r].vm => ~Pending(task'[u])
    BY <1>1, <1>2 DEF KInv, ApartInv, NonePending
  <2>4. ASSUME NEW u \in Tasks, Pending(task'[u]) \/ job'[u].pc # "none",
               NEW x \in Tasks, Pending(task'[x]) \/ job'[x].pc # "none",
               task'[u].vm = task'[x].vm
        PROVE  u = x
    BY <1>1, <1>2, <2>4 DEF KInv, ApartInv, Active
  <2>5. QED
    BY <2>1, <2>2, <2>3, <2>4 DEF ApartInv, Active
<1>5. JobsKnown'
  <2> SUFFICES ASSUME NEW u \in Tasks
               PROVE  IF job'[u].pc = "none"
                      THEN job'[u] = NoJob
                      ELSE JobKnown(job'[u], task'[u], vm_host'[task'[u].vm],
                                    domain_host'[task'[u].vm])
    BY DEF JobsKnown
  <2>1. CASE u = t
    BY <1>2, <1>3, <2>1
  <2>2. CASE u # t /\ job[u].pc # "none"
    BY <1>1, <1>2, <2>2, JobHas DEF Placed, KInv, JobsKnown
  <2>3. CASE u # t /\ job[u].pc = "none"
    BY <1>2, <2>3 DEF KInv, JobsKnown
  <2>4. QED
    BY <2>1, <2>2, <2>3
<1>6. RequestsKnown'
  <2> SUFFICES ASSUME NEW x \in Requests
               PROVE  IF request[x].pc = "idle"
                      THEN request[x] = Idle
                      ELSE RequestKnown(request[x], RowOf(task', request[x].id),
                                        vm_host'[request[x].vm], domain_host'[request[x].vm])
    BY DEF RequestsKnown
  <2>1. CASE request[x].pc = "idle"
    BY <2>1 DEF KInv, RequestsKnown
  <2>2. CASE request[x].pc # "idle"
    <3>1. /\ RequestKnown(request[x], RowOf(task, request[x].id), vm_host[request[x].vm],
                          domain_host[request[x].vm])
          /\ request[x].vm \in Vms \ {v}
      BY <1>1, <2>2, RequestHas
    <3>2. RequestKnown(request[x], RowOf(task, request[x].id), vm_host'[request[x].vm],
                       domain_host'[request[x].vm])
      BY <3>1
    <3>3. CASE request[x].id # t
      BY <1>2, <2>2, <3>2, <3>3 DEF RowOf
    <3>4. CASE request[x].id = t
      BY <2>2, <3>1, <3>2, <3>4 DEF RowOf, RequestKnown, FailPcs, FixPcs, OwnTaskPcs
    <3>5. QED
      BY <3>3, <3>4
  <2>3. QED
    BY <2>1, <2>2
<1>7. TasksKnown'
  <2> SUFFICES ASSUME NEW u \in Tasks
               PROVE  /\ TaskKnown(task'[u])
                      /\ task'[u].status = "some-todo" => domain_host'[task'[u].vm] = task'[u].dst
    BY DEF TasksKnown
  <2>1. CASE u = t
    BY <1>2, <2>1
  <2>2. CASE u # t
    BY <1>1, <1>2, <2>2 DEF KInv, TasksKnown, TaskKnown, Placed, Given, Pending
  <2>3. QED
    BY <2>1, <2>2
<1>8. QED
  BY <1>4, <1>5, <1>6, <1>7 DEF KInv

\* A request begins for a vm that nobody works on.
LEMMA StartKnown ==
    ASSUME ~MayOverlap, KInv, IInv', NEW r \in Requests, NEW v \in Vms, NEW dest \in Hosts,
           Start(r, v, dest)
    PROVE  KInv'
<1> DEFINE s == [Idle EXCEPT !.pc = "check_old", !.vm = v, !.vm_host = vm_host[v],
                             !.dest = dest]
<1>1. /\ s.pc = "check_old" /\ s.vm = v /\ s.vm_host = vm_host[v]
      /\ RequestKnown(s, RowOf(task, s.id), vm_host[v], domain_host[v])
  <2>1. s.pc = "check_old" /\ s.vm = v /\ s.vm_host = vm_host[v]
    BY DEF Idle
  <2> HIDE DEF s
  <2>2. QED
    BY <2>1 DEF RequestKnown, FailPcs, FixPcs, ClaimPcs, OwnTaskPcs
<1>2. /\ request[r].pc = "idle" /\ VmIdle(v) /\ request' = [request EXCEPT ![r] = s]
      /\ UNCHANGED <<task, job, vm_host, domain_host>>
  BY DEF Start, AtRequest
<1> HIDE DEF s
<1>3. request'[r] = s /\ \A x \in Requests \ {r} : request'[x] = request[x]
  BY <1>2 DEF KInv, IInv, RequestsInv
<1>4. NoJob.pc = "none"
  BY DEF NoJob
<1>5. ApartInv'
  BY <1>1, <1>2, <1>3, <1>4 DEF KInv, ApartInv, VmIdle, NonePending, Active
<1>6. RequestsKnown'
  <2> SUFFICES ASSUME NEW x \in Requests
               PROVE  IF request'[x].pc = "idle"
                      THEN request'[x] = Idle
                      ELSE RequestKnown(request'[x], RowOf(task, request'[x].id),
                                        vm_host[request'[x].vm], domain_host[request'[x].vm])
    BY <1>2 DEF RequestsKnown
  <2>1. QED
    BY <1>1, <1>3 DEF KInv, RequestsKnown
<1>7. TasksKnown' /\ JobsKnown'
  BY <1>2 DEF KInv, TasksKnown, JobsKnown
<1>8. QED
  BY <1>5, <1>6, <1>7 DEF KInv

\* The pool takes a task from the request that made it.
LEMMA SubmitKnown ==
    ASSUME KInv, IInv', NEW r \in Requests, AtRequest(r, "submit"),
           GotoJob(request[r].id, "queued"), EndRequest(r),
           UNCHANGED <<task, vm_host, domain_host>>
    PROVE  KInv'
<1> DEFINE k == request[r].id
           v == request[r].vm
           j == [NoJob EXCEPT !.pc = "queued"]
<1>1. /\ k \in Tasks /\ v \in Vms /\ request[r].pc = "submit"
      /\ task[k].vm = v /\ task[k].status = "wait"
      /\ vm_host[v] = task[k].src /\ domain_host[v] = task[k].src
  <2>1. request[r].pc = "submit"
    BY DEF AtRequest
  <2>2. /\ k \in Tasks /\ v \in Vms
        /\ RequestKnown(request[r], task[k], vm_host[v], domain_host[v])
    BY <2>1, RequestHas DEF OwnTaskPcs
  <2>3. QED
    BY <2>1, <2>2 DEF RequestKnown, OwnTaskPcs, ClaimPcs
<1>2. job[k] = NoJob /\ \A t \in Tasks : task[t].vm = v => job[t].pc = "none"
  BY <1>1 DEF KInv, ApartInv, JobsKnown
<1>3. /\ job'[k] = j /\ \A t \in Tasks \ {k} : job'[t] = job[t]
      /\ request'[r] = Idle /\ \A x \in Requests \ {r} : request'[x] = request[x]
  BY <1>1, <1>2 DEF GotoJob, EndRequest, KInv, IInv, JobsInv, RequestsInv
<1>4. j.pc = "queued" /\ ~j.log_msg /\ Idle.pc = "idle" /\ Idle.vm \notin Vms
  BY MigrateAssumption DEF NoJob, Idle
<1>5. \A x \in Requests \ {r} : request[x].pc = "idle" \/ request[x].vm # v
  BY <1>1 DEF KInv, ApartInv
<1> HIDE DEF j
<1>6. ApartInv'
  <2>1. \A x, y \in Requests :
           request'[x].pc # "idle" /\ request'[x].vm = request'[y].vm => x = y
    BY <1>3, <1>4, RequestHas DEF KInv, ApartInv
  <2>2. \A x \in Requests, t \in Tasks :
           request'[x].pc # "idle" /\ task[t].vm = request'[x].vm => job'[t].pc = "none"
    BY <1>1, <1>3, <1>4, <1>5 DEF KInv, ApartInv
  <2>3. \A x \in Requests, t \in Tasks :
           NonePending(request'[x]) /\ task[t].vm = request'[x].vm => ~Pending(task[t])
    BY <1>3, <1>4 DEF KInv, ApartInv, NonePending
  <2>4. \A t, u \in Tasks :
           /\ Pending(task[t]) \/ job'[t].pc # "none"
           /\ Pending(task[u]) \/ job'[u].pc # "none"
           /\ task[t].vm = task[u].vm
           => t = u
    BY <1>1, <1>3 DEF KInv, ApartInv, Active, Pending
  <2>5. QED
    BY <2>1, <2>2, <2>3, <2>4 DEF ApartInv, Active
<1>7. JobsKnown'
  <2> SUFFICES ASSUME NEW t \in Tasks
               PROVE  IF job'[t].pc = "none"
                      THEN job'[t] = NoJob
                      ELSE JobKnown(job'[t], task[t], vm_host[task[t].vm], domain_host[task[t].vm])
    BY DEF JobsKnown
  <2>1. JobKnown(j, task[k], vm_host[v], domain_host[v])
    BY <1>1, <1>4 DEF JobKnown, MovedPcs
  <2>2. QED
    BY <1>1, <1>3, <1>4, <2>1 DEF KInv, JobsKnown
<1>8. RequestsKnown'
  BY <1>3, <1>4 DEF KInv, RequestsKnown
<1>9. TasksKnown'
  BY DEF KInv, TasksKnown
<1>10. QED
  BY <1>6, <1>7, <1>8, <1>9 DEF KInv

\* Time passes, and processes die.
LEMMA WorldKnown ==
    ASSUME KInv, IInv',
           \/ \E t \in Tasks : Age(t)
           \/ \E rs \in SUBSET Requests, ts \in SUBSET Tasks : Crash(rs, ts)
    PROVE  KInv'
<1>1. ASSUME NEW t \in Tasks, Age(t)
      PROVE  KInv'
  BY <1>1 DEF Age, KInv, ApartInv, Active, TasksKnown, JobsKnown, RequestsKnown
<1>2. ASSUME NEW rs \in SUBSET Requests, NEW ts \in SUBSET Tasks, Crash(rs, ts)
      PROVE  KInv'
  <2>1. /\ \A r \in Requests : request'[r] = IF r \in rs THEN Idle ELSE request[r]
        /\ \A t \in Tasks : job'[t] = IF t \in ts THEN NoJob ELSE job[t]
        /\ UNCHANGED <<task, vm_host, domain_host>>
    BY <1>2 DEF Crash
  <2>2. NoJob.pc = "none" /\ Idle.pc = "idle" /\ Idle.vm \notin Vms
    BY MigrateAssumption DEF NoJob, Idle
  <2>3. \A r \in Requests : request[r].pc # "idle" => request[r].vm \in Vms
    BY RequestHas
  <2>4. ApartInv'
    BY <2>1, <2>2, <2>3 DEF KInv, ApartInv, NonePending, Active
  <2>5. JobsKnown' /\ RequestsKnown' /\ TasksKnown'
    BY <2>1, <2>2 DEF KInv, JobsKnown, RequestsKnown, TasksKnown
  <2>6. QED
    BY <2>4, <2>5 DEF KInv
<1>3. QED
  BY <1>1, <1>2

\* While no host is committed beyond its totals, no release is refused.
LEMMA CanFree ==
    ASSUME HostsInv, NEW h \in Hosts, NEW v \in Vms
    PROVE  can_free_vm(h, v)
<1>1. /\ VcpuTotal[h] \in Int /\ MemTotal[h] \in Int
      /\ host[h].vcpu_allocated \in Int /\ host[h].mem_allocated \in Int
      /\ host[h].vcpu_allocated <= VcpuTotal[h] /\ host[h].mem_allocated <= MemTotal[h]
  BY HostAssumption DEF HostsInv, HostTypeOK, HostRow, NoOvercommit
<1>2. Vcpu[v] \in Nat \ {0} /\ Mem[v] \in Nat \ {0}
  BY MigrateAssumption
<1>3. QED
  BY <1>1, <1>2 DEF can_free_vm, deduct_matches

\* A request looks at the old tasks and fails the one that waits.
LEMMA OldTasksKnown ==
    ASSUME KInv, IInv', NEW r \in Requests,
           CheckOld(r) \/ LoadOld(r) \/ FailOld(r) \/ FailOldSave(r)
    PROVE  KInv'
<1> DEFINE q == request[r]
           v == q.vm
           k == q.id
<1>a. q.pc \in {"check_old", "load_old", "fail_old", "fail_old_save"}
  BY DEF CheckOld, LoadOld, FailOld, FailOldSave, AtRequest
<1>b. /\ q \in RequestState /\ v \in Vms /\ q.vm_host = vm_host[v]
      /\ RequestKnown(q, RowOf(task, k), vm_host[v], domain_host[v])
  BY <1>a, RequestHas DEF FailPcs, RequestKnown
<1>c. q.pc \in FailPcs =>
         /\ k \in Tasks /\ RowOf(task, k) = task[k]
         /\ task[k] \in TaskRow /\ task[k].vm = v /\ task[k].status = "wait"
         /\ Placed(task[k])
         /\ \A t \in Tasks \ {k} : q.loaded[t] = NoTask
  <2> SUFFICES ASSUME q.pc \in FailPcs
               PROVE  /\ k \in Tasks /\ RowOf(task, k) = task[k]
                      /\ task[k] \in TaskRow /\ task[k].vm = v /\ task[k].status = "wait"
                      /\ Placed(task[k])
                      /\ \A t \in Tasks \ {k} : q.loaded[t] = NoTask
    OBVIOUS
  <2>1. k \in Tasks /\ RowOf(task, k) = task[k]
    BY RequestHas DEF FailPcs, CleanUpPcs
  <2>2. task[k].vm = v /\ task[k].status = "wait" /\ \A t \in Tasks \ {k} : q.loaded[t] = NoTask
    BY <1>b, <2>1 DEF RequestKnown
  <2>3. task[k] \in TaskRow /\ Placed(task[k])
    BY <2>1, <2>2 DEF KInv, IInv, TasksInv, Pending
  <2>4. QED
    BY <2>1, <2>2, <2>3
<1>1. CASE CheckOld(r)
  <2> DEFINE s == [q EXCEPT !.pc = "load_old"]
  <2>1. /\ s.pc = "load_old" /\ s.vm = v /\ s.vm_host = vm_host[v]
    BY <1>b DEF RequestState
  <2>2. /\ request' = [request EXCEPT ![r] = Idle] \/ request' = [request EXCEPT ![r] = s]
        /\ UNCHANGED <<task, job, vm_host, domain_host>> /\ q.pc # "idle"
    BY <1>1 DEF CheckOld, EndRequest, GotoRequest, AtRequest
  <2> HIDE DEF s
  <2>3. /\ RequestKnown(s, RowOf(task, s.id), vm_host[v], domain_host[v])
        /\ ~NonePending(s)
    BY <2>1 DEF RequestKnown, NonePending, FailPcs, FixPcs, ClaimPcs, OwnTaskPcs
  <2>4. CASE request' = [request EXCEPT ![r] = Idle]
    BY <1>b, <2>2, <2>4, RequestMoves
  <2>5. CASE request' = [request EXCEPT ![r] = s]
    BY <1>b, <2>1, <2>2, <2>3, <2>5, RequestMoves
  <2>6. QED
    BY <2>2, <2>4, <2>5
<1>2. CASE LoadOld(r)
  <2> DEFINE loaded == [t \in Tasks |->
                          IF task[t].vm = v /\ task[t].status \in {"some-todo", "wait"}
                          THEN task[t] ELSE NoTask]
             s == [q EXCEPT !.loaded = loaded, !.seen = vm_host[v]]
             NextTo(pc, t) == [s EXCEPT !.pc = pc, !.id = t]
  <2>1. /\ q.pc # "idle" /\ GoOn(r, s)
        /\ UNCHANGED <<task, job, vm_host, domain_host>>
    BY <1>2 DEF LoadOld, AtRequest
  <2>2. /\ s.loaded = loaded /\ s.seen = vm_host[v]
        /\ \A pc, t : /\ NextTo(pc, t).pc = pc /\ NextTo(pc, t).id = t
                      /\ NextTo(pc, t).vm = v /\ NextTo(pc, t).vm_host = vm_host[v]
                      /\ NextTo(pc, t).loaded = loaded /\ NextTo(pc, t).seen = vm_host[v]
    BY <1>b DEF RequestState
  <2>3. \A t \in Tasks : IF task[t].vm = v /\ Pending(task[t])
                         THEN loaded[t] = task[t] ELSE loaded[t] = NoTask
    BY DEF Pending
  <2>4. NoTask.status = "none"
    BY DEF NoTask
  <2>5. \A t, u \in Tasks : /\ task[t].vm = v /\ Pending(task[t])
                            /\ task[u].vm = v /\ Pending(task[u])
                            => t = u
    BY DEF KInv, ApartInv, Active
  <2> HIDE DEF loaded
  <2>6. \/ \E t \in Tasks : /\ loaded[t].status = "wait"
                            /\ request' = [request EXCEPT ![r] = NextTo("fail_old", t)]
        \/ /\ \A t \in Tasks : loaded[t].status \notin {"wait", "some-todo"}
           /\ request' = [request EXCEPT ![r] = NextTo("check", 0)]
        \/ \E t \in Tasks : /\ loaded[t].status = "some-todo"
                            /\ request' = [request EXCEPT ![r] = NextTo("fix_src", t)]
        \/ request' = [request EXCEPT ![r] = Idle]
    BY <2>1, <2>2 DEF GoOn, LoadedAs, EndRequest
  <2> HIDE DEF s, NextTo
  <2>7. ASSUME NEW t \in Tasks, NEW pc \in {"fail_old", "fix_src"},
               loaded[t].status = IF pc = "fail_old" THEN "wait" ELSE "some-todo",
               request' = [request EXCEPT ![r] = NextTo(pc, t)]
        PROVE  KInv'
    <3>1. /\ task[t].vm = v /\ Pending(task[t]) /\ loaded[t] = task[t]
          /\ \A u \in Tasks \ {t} : loaded[u] = NoTask
      BY <2>3, <2>4, <2>5, <2>7
    <3>2. /\ RequestKnown(NextTo(pc, t), RowOf(task, NextTo(pc, t).id), vm_host[v], domain_host[v])
          /\ ~NonePending(NextTo(pc, t))
      BY <2>2, <2>7, <3>1
         DEF RowOf, RequestKnown, NonePending, FailPcs, FixPcs, ClaimPcs, OwnTaskPcs
    <3>3. NextTo(pc, t).vm = v /\ NextTo(pc, t).pc # "idle"
      BY <2>2
    <3>4. QED
      BY <1>b, <2>1, <2>7, <3>2, <3>3, RequestMoves
  <2>8. ASSUME \A t \in Tasks : loaded[t].status \notin {"wait", "some-todo"},
               request' = [request EXCEPT ![r] = NextTo("check", 0)]
        PROVE  KInv'
    <3>1. \A t \in Tasks : task[t].vm = v => ~Pending(task[t])
      BY <2>3, <2>8 DEF Pending
    <3>2. RequestKnown(NextTo("check", 0), RowOf(task, NextTo("check", 0).id),
                       vm_host[v], domain_host[v])
      BY <2>2 DEF RequestKnown, FailPcs, FixPcs, ClaimPcs, OwnTaskPcs
    <3>3. NextTo("check", 0).vm = v /\ NextTo("check", 0).pc # "idle"
      BY <2>2
    <3>4. QED
      BY <1>b, <2>1, <2>8, <3>1, <3>2, <3>3, RequestMoves
  <2>9. CASE request' = [request EXCEPT ![r] = Idle]
    BY <1>b, <2>1, <2>9, RequestMoves
  <2>10. QED
    BY <2>6, <2>7, <2>8, <2>9
<1>3. CASE FailOld(r)
  <2> DEFINE row == [task[k] EXCEPT !.dst_is_claim = FALSE]
             s == [q EXCEPT !.pc = "fail_old_save", !.loaded[k] = row]
  <2>1. q.pc = "fail_old" /\ UNCHANGED <<task, job, vm_host, domain_host>>
    BY <1>3 DEF FailOld, AtRequest
  <2>2. /\ k \in Tasks /\ RowOf(task, k) = task[k] /\ task[k] \in TaskRow
        /\ task[k].vm = v /\ task[k].status = "wait" /\ Placed(task[k])
        /\ \A t \in Tasks \ {k} : q.loaded[t] = NoTask
        /\ OldTask(r) = task[k]
    BY <1>b, <1>c, <2>1 DEF FailPcs, RequestKnown, OldTask
  <2>3. can_free_vm(OldTask(r).dst, OldTask(r).vm)
    BY <2>2, CanFree DEF KInv, IInv, Placed
  <2>4. request' = [request EXCEPT ![r] = s]
    BY <1>b, <1>3, <2>2, <2>3 DEF FailOld, KInv, IInv, RequestsInv, OldTask, RequestState
  <2> HIDE DEF row
  <2>5. /\ s.pc = "fail_old_save" /\ s.vm = v /\ s.id = k /\ s.vm_host = vm_host[v]
        /\ s.loaded[k] = row /\ \A t \in Tasks \ {k} : s.loaded[t] = NoTask
    BY <1>b, <2>2 DEF RequestState
  <2> HIDE DEF s
  <2>6. /\ RequestKnown(s, RowOf(task, s.id), vm_host[v], domain_host[v])
        /\ ~NonePending(s)
    BY <2>2, <2>5 DEF row, RequestKnown, NonePending, FailPcs, FixPcs, ClaimPcs, OwnTaskPcs
  <2>7. QED
    BY <1>b, <2>1, <2>4, <2>5, <2>6, RequestMoves
<1>4. CASE FailOldSave(r)
  <2> DEFINE row == [task[k] EXCEPT !.status = "failed", !.content = "problem",
                                    !.dst_is_claim = FALSE]
             s == [q EXCEPT !.loaded[k] = NoTask]
             s2 == [s EXCEPT !.pc = "check", !.id = 0]
  <2>1. q.pc = "fail_old_save" /\ UNCHANGED <<job, vm_host, domain_host>>
    BY <1>4 DEF FailOldSave, AtRequest
  <2>2. /\ k \in Tasks /\ RowOf(task, k) = task[k] /\ task[k] \in TaskRow
        /\ task[k].vm = v /\ task[k].status = "wait" /\ Placed(task[k])
        /\ \A t \in Tasks \ {k} : q.loaded[t] = NoTask
    BY <1>c, <2>1 DEF FailPcs
  <2>3. OldTask(r) = [task[k] EXCEPT !.dst_is_claim = FALSE]
    BY <1>b, <2>1, <2>2 DEF RequestKnown, OldTask
  <2>4. task' = [task EXCEPT ![k] = row] /\ GoOn(r, s)
    <3>1. SaveFailed(k, OldTask(r)) /\ GoOn(r, s)
      BY <1>4, <2>2 DEF FailOldSave
    <3>2. OldTask(r).dst_is_claim = FALSE
      BY <2>2, <2>3 DEF TaskRow
    <3>3. task \in [Tasks -> TaskRow]
      BY DEF KInv, IInv, TasksInv
    <3>4. QED
      BY <2>2, <3>1, <3>2, <3>3 DEF SaveFailed, TaskRow
  <2>5. /\ row.status = "failed" /\ ~row.src_undefined /\ ~row.dst_is_claim /\ row.vm = v
        /\ row.src = task[k].src /\ row.dst = task[k].dst
    BY <2>2 DEF KInv, TasksKnown, TaskKnown, Fresh, TaskRow
  <2>6. TaskKnown(row) /\ ~Pending(row)
    BY <2>2, <2>5 DEF TaskKnown, Given, Placed, Pending
  <2>7. NoTask.status = "none"
    BY DEF NoTask
  <2>8. \A t \in Tasks : s.loaded[t].status = "none"
    BY <1>b, <2>2, <2>7 DEF RequestState
  <2>9. /\ s2.pc = "check" /\ s2.vm = v /\ s2.id = 0 /\ s2.vm_host = vm_host[v]
    BY <1>b DEF RequestState
  <2> HIDE DEF row
  <2>10. request' = [request EXCEPT ![r] = Idle] \/ request' = [request EXCEPT ![r] = s2]
    BY <2>4, <2>8 DEF GoOn, LoadedAs, EndRequest
  <2> HIDE DEF s, s2
  <2>11. RequestKnown(s2, IF s2.id = k THEN row ELSE RowOf(task, s2.id), vm_host[v], domain_host[v])
    BY <2>9 DEF RequestKnown, FailPcs, FixPcs, ClaimPcs, OwnTaskPcs
  <2>12. \A t \in Tasks \ {k} : task[t].vm = v => ~Pending(task[t])
    BY <2>2 DEF KInv, ApartInv, Active, Pending
  <2>13. q.pc # "idle" /\ s2.pc # "idle" /\ row.status # "some-todo"
    BY <2>1, <2>5, <2>9
  <2>14. CASE request' = [request EXCEPT ![r] = Idle]
    BY <1>b, <2>1, <2>2, <2>4, <2>5, <2>6, <2>13, <2>14, RequestWrites
  <2>15. CASE request' = [request EXCEPT ![r] = s2]
    BY <1>b, <2>1, <2>2, <2>4, <2>5, <2>6, <2>9, <2>11, <2>12, <2>13, <2>15, RequestWrites
  <2>16. QED
    BY <2>10, <2>14, <2>15
<1>5. QED
  BY <1>1, <1>2, <1>3, <1>4

\* What a request knows that settles what an earlier task left to do.
LEMMA SomeTodoHas ==
    ASSUME KInv, NEW r \in Requests, request[r].pc \in FixPcs
    PROVE  LET q == request[r]
               row == task[q.id]
           IN  /\ q \in RequestState /\ q.vm \in Vms /\ q.id \in Tasks
               /\ RequestKnown(q, row, vm_host[q.vm], domain_host[q.vm])
               /\ row \in TaskRow /\ Placed(row) /\ TaskKnown(row) /\ Settling(row)
               /\ row.vm = q.vm /\ row.status = "some-todo"
               /\ domain_host[q.vm] = row.dst
               /\ \A t \in Tasks \ {q.id} : q.loaded[t] = NoTask
               /\ \A t \in Tasks \ {q.id} : task[t].vm = q.vm => ~Pending(task[t])
<1> DEFINE q == request[r]
           row == task[q.id]
<1>1. /\ q \in RequestState /\ q.vm \in Vms /\ q.id \in Tasks
      /\ RequestKnown(q, row, vm_host[q.vm], domain_host[q.vm])
  BY RequestHas DEF FixPcs, CleanUpPcs
<1>2. /\ row.vm = q.vm /\ row.status = "some-todo"
      /\ \A t \in Tasks \ {q.id} : q.loaded[t] = NoTask
  BY <1>1 DEF RequestKnown
<1>3. /\ row \in TaskRow /\ Placed(row)
      /\ TaskKnown(row) /\ domain_host[q.vm] = row.dst
  BY <1>1, <1>2 DEF KInv, IInv, TasksInv, Pending, TasksKnown
<1>4. Settling(row)
  BY <1>2, <1>3 DEF TaskKnown
<1>5. \A t \in Tasks \ {q.id} : task[t].vm = q.vm => ~Pending(task[t])
  BY <1>1, <1>2 DEF KInv, ApartInv, Active, Pending
<1>6. QED
  BY <1>1, <1>2, <1>3, <1>4, <1>5

\* A request settles what an earlier task left to do.
LEMMA SomeTodoKnown ==
    ASSUME KInv, IInv', NEW r \in Requests,
           FixSrc(r) \/ FixDst(r) \/ FixHost(r) \/ FixFree(r) \/ FixSave(r) \/ FixDone(r)
    PROVE  KInv'
<1> DEFINE q == request[r]
           v == q.vm
           k == q.id
           row == task[k]
           At(pc) == [q EXCEPT !.pc = pc]
<1>a. q.pc \in FixPcs /\ q.pc # "idle"
  BY DEF FixSrc, FixDst, FixHost, FixFree, FixSave, FixDone, AtRequest, FixPcs
<1>b. /\ q \in RequestState /\ v \in Vms /\ k \in Tasks
      /\ RequestKnown(q, row, vm_host[v], domain_host[v])
      /\ row \in TaskRow /\ Placed(row) /\ TaskKnown(row) /\ Settling(row)
      /\ row.vm = v /\ row.status = "some-todo"
      /\ domain_host[v] = row.dst
      /\ \A t \in Tasks \ {k} : q.loaded[t] = NoTask
      /\ \A t \in Tasks \ {k} : task[t].vm = v => ~Pending(task[t])
      /\ RowOf(task, k) = row
  BY <1>a, SomeTodoHas DEF RowOf
<1>c. \A pc : /\ At(pc).pc = pc /\ At(pc).vm = v /\ At(pc).id = k /\ At(pc).vm_host = q.vm_host
              /\ At(pc).seen = q.seen /\ At(pc).loaded = q.loaded
  BY <1>b DEF RequestState
<1>d. \A pc : GotoRequest(r, pc) => request' = [request EXCEPT ![r] = At(pc)]
  BY DEF GotoRequest
<1>e. EndRequest(r) => request' = [request EXCEPT ![r] = Idle]
  BY DEF EndRequest
<1>f. q.pc \notin {"fix_save"} => OldTask(r) = row
  BY <1>a, <1>b DEF RequestKnown, FixPcs, OldTask
<1> HIDE DEF At
<1>1. ASSUME UNCHANGED <<task, job, domain_host>>,
             \A x \in Vms \ {v} : vm_host'[x] = vm_host[x],
             NEW pc \in {"fix_dst", "fix_host", "fix_free", "fix_done"},
             GotoRequest(r, pc) \/ EndRequest(r),
             RequestKnown(At(pc), row, vm_host'[v], domain_host[v])
      PROVE  KInv'
  BY <1>c, <1>b, <1>a, <1>e, <1>d, <1>1, RequestMoves DEF NonePending
<1>2. CASE FixSrc(r)
  <2>1. /\ q.pc = "fix_src" /\ q.seen = vm_host[v] /\ q.vm_host = vm_host[v]
        /\ q.loaded[k] = row
    BY <1>2, <1>b DEF FixSrc, AtRequest, RequestKnown
  <2>2. UNCHANGED <<task, job, domain_host, vm_host>>
    BY <1>2 DEF FixSrc
  <2>3. \/ GotoRequest(r, "fix_free") /\ vm_host[v] = domain_host[v]
        \/ GotoRequest(r, "fix_dst")
        \/ EndRequest(r)
    BY <1>2, <1>b, <1>f, <2>1 DEF FixSrc
  <2>4. RequestKnown(At("fix_dst"), row, vm_host[v], domain_host[v])
    BY <1>b, <1>c, <2>1 DEF RequestKnown, FailPcs, FixPcs, ClaimPcs, OwnTaskPcs
  <2>5. vm_host[v] = domain_host[v] =>
           RequestKnown(At("fix_free"), row, vm_host[v], domain_host[v])
    BY <1>b, <1>c, <2>1 DEF RequestKnown, FailPcs, FixPcs, ClaimPcs, OwnTaskPcs
  <2>6. QED
    BY <2>2, <2>3, <2>4, <2>5, <1>1
<1>3. CASE FixDst(r)
  BY <1>b, <1>c, <1>1, <1>3 DEF FixDst, AtRequest, RequestKnown, FailPcs, FixPcs, ClaimPcs, OwnTaskPcs
<1>4. CASE FixHost(r)
  <2>1. q.pc = "fix_host" /\ q.loaded[k] = row
    BY <1>4, <1>b DEF FixHost, AtRequest, RequestKnown
  <2>2. UNCHANGED <<task, job, domain_host>>
    BY <1>4 DEF FixHost
  <2>3. CASE vm_host' = [vm_host EXCEPT ![v] = OldTask(r).dst] /\ GotoRequest(r, "fix_free")
    <3>1. vm_host'[v] = domain_host[v] /\ \A x \in Vms \ {v} : vm_host'[x] = vm_host[x]
      BY <1>b, <1>f, <2>1, <2>3 DEF KInv, IInv, HostOfVmsInv
    <3>2. RequestKnown(At("fix_free"), row, vm_host'[v], domain_host[v])
      BY <1>b, <1>c, <2>1, <3>1 DEF RequestKnown, FailPcs, FixPcs, ClaimPcs, OwnTaskPcs
    <3>3. QED
      BY <2>2, <2>3, <3>1, <3>2, <1>1
  <2>4. CASE EndRequest(r) /\ UNCHANGED vm_host
    BY <1>a, <1>b, <1>e, <2>2, <2>4, RequestMoves
  <2>5. QED
    BY <1>4, <2>3, <2>4 DEF FixHost
<1>5. CASE FixFree(r)
  <2>1. q.pc = "fix_free" /\ q.loaded[k] = row /\ vm_host[v] = domain_host[v]
    BY <1>5, <1>b DEF FixFree, AtRequest, RequestKnown
  <2>2. UNCHANGED <<task, job, domain_host, vm_host>>
    BY <1>5 DEF FixFree
  <2>3. CASE row.src_is_free
    <3>1. GotoRequest(r, "fix_done")
      BY <1>5, <1>f, <2>1, <2>3 DEF FixFree
    <3>2. RequestKnown(At("fix_done"), row, vm_host[v], domain_host[v])
      BY <1>b, <1>c, <2>1, <2>3 DEF RequestKnown, FailPcs, FixPcs, ClaimPcs, OwnTaskPcs
    <3>3. QED
      BY <2>2, <3>1, <3>2, <1>1
  <2>4. CASE ~row.src_is_free
    <3> DEFINE freed == [row EXCEPT !.src_is_free = TRUE]
               s == [q EXCEPT !.pc = "fix_save", !.loaded[k] = freed]
    <3>1. can_free_vm(OldTask(r).src, OldTask(r).vm)
      BY <1>b, <1>f, <2>1, CanFree DEF KInv, IInv, Placed
    <3>2. request' = [request EXCEPT ![r] = s]
      BY <1>f, <1>b, <1>5, <2>1, <2>4, <3>1 DEF FixFree, KInv, IInv, RequestsInv, RequestState
    <3> HIDE DEF freed
    <3>3. /\ s.pc = "fix_save" /\ s.vm = v /\ s.id = k
          /\ s.loaded[k] = freed /\ \A t \in Tasks \ {k} : s.loaded[t] = NoTask
      BY <1>b DEF RequestState
    <3> HIDE DEF s
    <3>4. RequestKnown(s, RowOf(task, s.id), vm_host[v], domain_host[v]) /\ ~NonePending(s)
      <4>1. RowOf(task, s.id) = row /\ row.vm = s.vm /\ row.status = "some-todo"
        BY <1>b, <3>3
      <4>2. s.loaded[s.id] = [row EXCEPT !.src_is_free = TRUE] /\ ~row.src_is_free
        BY <2>4, <3>3 DEF freed
      <4>3. vm_host[v] = domain_host[v] /\ \A t \in Tasks \ {s.id} : s.loaded[t] = NoTask
        BY <2>1, <3>3
      <4>4. QED
        BY <3>3, <4>1, <4>2, <4>3
           DEF RequestKnown, NonePending, FailPcs, FixPcs, ClaimPcs, OwnTaskPcs
    <3>5. QED
      BY <1>a, <1>b, <2>2, <3>2, <3>3, <3>4, RequestMoves
  <2>5. QED
    BY <2>3, <2>4
<1>6. CASE FixSave(r)
  <2> DEFINE freed == [row EXCEPT !.src_is_free = TRUE]
  <2>1. q.pc = "fix_save" /\ q.loaded[k] = freed /\ vm_host[v] = domain_host[v]
    BY <1>6, <1>b DEF FixSave, AtRequest, RequestKnown
  <2>2. UNCHANGED <<job, vm_host, domain_host>>
    BY <1>6 DEF FixSave
  <2>3. task' = [task EXCEPT ![k] = freed] /\ request' = [request EXCEPT ![r] = At("fix_done")]
    BY <1>6, <1>d, <2>1 DEF FixSave, OldTask
  <2>4. /\ freed.vm = v /\ freed.status = "some-todo" /\ freed.src_is_free
        /\ freed.src = row.src /\ freed.dst = row.dst /\ freed.content = row.content
        /\ freed.src_undefined = row.src_undefined /\ freed.dst_is_claim = row.dst_is_claim
    BY <1>b DEF TaskRow
  <2> HIDE DEF freed
  <2>5. TaskKnown(freed)
    BY <1>b, <2>4 DEF TaskKnown, Given, Placed, Settling
  <2>6. RequestKnown(At("fix_done"), freed, vm_host[v], domain_host[v])
    BY <1>b, <1>c, <2>1, <2>4 DEF RequestKnown, FailPcs, FixPcs, ClaimPcs, OwnTaskPcs
  <2>7. ~NonePending(At("fix_done")) /\ At("fix_done").pc # "idle" /\ At("fix_done").vm = v
        /\ At("fix_done").id = k
    BY <1>c DEF NonePending
  <2>8. Pending(task[k]) /\ domain_host[freed.vm] = freed.dst
    BY <1>b, <2>4 DEF Pending
  <2>9. QED
    BY <1>a, <1>b, <2>2, <2>3, <2>4, <2>5, <2>6, <2>7, <2>8, RequestWrites
<1>7. CASE FixDone(r)
  <2> DEFINE done == [row EXCEPT !.status = "complete"]
  <2>1. q.pc = "fix_done" /\ row.src_is_free /\ vm_host[v] = domain_host[v]
    BY <1>7, <1>b DEF FixDone, AtRequest, RequestKnown
  <2>2. UNCHANGED <<job, vm_host, domain_host>>
    BY <1>7 DEF FixDone
  <2>3. task' = [task EXCEPT ![k] = done] /\ request' = [request EXCEPT ![r] = At("check")]
    BY <1>7, <1>b, <1>d, <1>f, <2>1 DEF FixDone, Settling
  <2>4. /\ done.vm = v /\ done.status = "complete" /\ done.src_is_free
        /\ done.src = row.src /\ done.dst = row.dst
        /\ done.src_undefined = row.src_undefined /\ done.dst_is_claim = row.dst_is_claim
    BY <1>b, <2>1 DEF TaskRow
  <2> HIDE DEF done
  <2>5. TaskKnown(done) /\ ~Pending(done)
    BY <1>b, <2>4 DEF TaskKnown, Given, Placed, Settling, Pending
  <2>6. RequestKnown(At("check"), IF At("check").id = k THEN done ELSE RowOf(task, At("check").id),
                     vm_host[v], domain_host[v])
    BY <1>b, <1>c, <2>1 DEF RequestKnown, FailPcs, FixPcs, ClaimPcs, OwnTaskPcs
  <2>7. At("check").pc # "idle" /\ At("check").vm = v
    BY <1>c
  <2>8. QED
    BY <1>a, <1>b, <2>2, <2>3, <2>4, <2>5, <2>6, <2>7, RequestWrites
<1>8. QED
  BY <1>2, <1>3, <1>4, <1>5, <1>6, <1>7

\* A request checks, claims, makes its task and hands it to the pool, or takes
\* back what it did.
LEMMA NewTaskKnown ==
    ASSUME KInv, IInv', NEW r \in Requests,
           \/ Check(r) \/ Claim(r) \/ Insert(r) \/ UndoClaim(r) \/ Submit(r) \/ DeleteTask(r)
    PROVE  KInv'
<1> DEFINE q == request[r]
           v == q.vm
           k == q.id
           At(pc) == [q EXCEPT !.pc = pc]
<1>a. q.pc \in {"check"} \cup ClaimPcs /\ q.pc # "idle"
  BY DEF Check, Claim, Insert, UndoClaim, Submit, DeleteTask, AtRequest, ClaimPcs
<1>b. /\ q \in RequestState /\ v \in Vms /\ q.vm_host \in Hosts /\ q.dest \in Hosts
      /\ RequestKnown(q, RowOf(task, k), vm_host[v], domain_host[v])
      /\ q.pc \in OwnTaskPcs => k \in Tasks /\ RowOf(task, k) = task[k]
  BY <1>a, RequestHas
<1>c. \A pc : /\ At(pc).pc = pc /\ At(pc).vm = v /\ At(pc).id = k /\ At(pc).vm_host = q.vm_host
              /\ At(pc).dest = q.dest /\ At(pc).loaded = q.loaded
  BY <1>b DEF RequestState
<1>d. \A pc : GotoRequest(r, pc) => request' = [request EXCEPT ![r] = At(pc)]
  BY DEF GotoRequest
<1>e. EndRequest(r) => request' = [request EXCEPT ![r] = Idle]
  BY DEF EndRequest
<1>f. q.pc \in ClaimPcs => q.vm_host = vm_host[v] /\ vm_host[v] = domain_host[v] /\ q.dest # q.vm_host
  BY <1>b DEF RequestKnown
<1>g. NonePending(q) => \A t \in Tasks : task[t].vm = v => ~Pending(task[t])
  BY DEF KInv, ApartInv
<1> HIDE DEF At
<1>h. ASSUME UNCHANGED <<task, job, vm_host, domain_host>>, EndRequest(r)
      PROVE  KInv'
  BY <1>a, <1>b, <1>e, <1>h, RequestMoves
<1>i. ASSUME UNCHANGED <<task, job, vm_host, domain_host>>,
             NEW pc \in ClaimPcs, GotoRequest(r, pc),
             q.vm_host = vm_host[v], vm_host[v] = domain_host[v], q.dest # q.vm_host,
             pc \in OwnTaskPcs <=> q.pc \in OwnTaskPcs
      PROVE  KInv'
  <2>1. RequestKnown(At(pc), RowOf(task, At(pc).id), vm_host[v], domain_host[v])
    BY <1>b, <1>c, <1>i DEF RequestKnown, FailPcs, FixPcs, ClaimPcs, OwnTaskPcs
  <2>2. NonePending(At(pc)) => NonePending(q)
    BY <1>a, <1>c, <1>i DEF NonePending, ClaimPcs, OwnTaskPcs
  <2>3. At(pc).pc # "idle" /\ At(pc).vm = v
    BY <1>c, <1>i DEF ClaimPcs
  <2>4. QED
    BY <1>a, <1>b, <1>d, <1>g, <1>i, <2>1, <2>2, <2>3, RequestMoves
<1>1. CASE Check(r)
  BY <1>b, <1>h, <1>i, <1>1 DEF Check, AtRequest, RequestKnown, ClaimPcs, OwnTaskPcs
<1>2. CASE Claim(r)
  BY <1>f, <1>h, <1>i, <1>2 DEF Claim, AtRequest, ClaimPcs, OwnTaskPcs
<1>3. CASE Insert(r)
  <2>1. q.pc = "insert" /\ UNCHANGED <<job, vm_host, domain_host>>
    BY <1>3 DEF Insert, AtRequest
  <2>2. /\ "insert" \in ClaimPcs /\ "insert" \notin OwnTaskPcs
        /\ "undo_claim" \in ClaimPcs /\ "undo_claim" \notin OwnTaskPcs
    BY DEF ClaimPcs, OwnTaskPcs
  <2>3. CASE GotoRequest(r, "undo_claim") /\ UNCHANGED task
    BY <1>f, <2>1, <2>2, <2>3, <1>i
  <2>4. ASSUME NEW t \in Tasks, task[t].status = "none",
               task' = [task EXCEPT ![t] =
                  [NoTask EXCEPT !.status = "wait", !.vm = q.vm, !.src = q.vm_host,
                                 !.dst = q.dest, !.dst_is_claim = TRUE]],
               request' = [request EXCEPT ![r].pc = "submit", ![r].id = t]
        PROVE  KInv'
    <3> DEFINE row == [NoTask EXCEPT !.status = "wait", !.vm = v, !.src = q.vm_host,
                                     !.dst = q.dest, !.dst_is_claim = TRUE]
               s == [q EXCEPT !.pc = "submit", !.id = t]
    <3>1. task' = [task EXCEPT ![t] = row] /\ request' = [request EXCEPT ![r] = s]
      BY <2>4
    <3>2. /\ row.status = "wait" /\ row.vm = v /\ row.src = q.vm_host /\ row.dst = q.dest
          /\ row.dst_is_claim /\ row.content = "empty" /\ ~row.src_undefined /\ ~row.src_is_free
      BY DEF NoTask
    <3>3. /\ s.pc = "submit" /\ s.vm = v /\ s.id = t /\ s.vm_host = q.vm_host /\ s.dest = q.dest
      BY <1>b DEF RequestState
    <3> HIDE DEF row, s
    <3>4. TaskKnown(row)
      BY <1>b, <1>f, <2>1, <2>2, <3>2 DEF TaskKnown, Given, Placed, Fresh
    <3>5. RequestKnown(s, row, vm_host[v], domain_host[v]) /\ ~NonePending(s)
      BY <1>f, <2>1, <2>2, <3>2, <3>3
         DEF RequestKnown, NonePending, FailPcs, FixPcs, ClaimPcs, OwnTaskPcs
    <3>6. NonePending(q) /\ row.status # "some-todo" /\ s.pc # "idle"
      BY <2>1, <3>2, <3>3 DEF NonePending
    <3>7. RequestKnown(s, IF s.id = t THEN row ELSE RowOf(task, s.id), vm_host[v], domain_host[v])
      BY <3>3, <3>5
    <3>8. t \in Tasks /\ task[t].status = "none"
      BY <2>4
    <3>9. QED
      BY <1>a, <1>b, <2>1, <3>1, <3>2, <3>3, <3>4, <3>5, <3>6, <3>7, <3>8, RequestWrites
  <2>5. QED
    BY <1>3, <2>3, <2>4 DEF Insert
<1>4. CASE UndoClaim(r)
  BY <1>f, <1>h, <1>i, <1>4 DEF UndoClaim, AtRequest, ClaimPcs, OwnTaskPcs
<1>5. CASE Submit(r)
  <2>1. CASE GotoJob(request[r].id, "queued") /\ EndRequest(r)
    BY <1>5, <2>1, SubmitKnown DEF Submit
  <2>2. CASE GotoRequest(r, "undo_submit") /\ UNCHANGED job
    BY <1>f, <1>i, <1>5, <2>2 DEF Submit, AtRequest, ClaimPcs, OwnTaskPcs
  <2>3. QED
    BY <1>5, <2>1, <2>2 DEF Submit
<1>6. CASE DeleteTask(r)
  <2> DEFINE row == [NoTask EXCEPT !.status = "deleted"]
  <2>1. /\ q.pc = "delete_task" /\ UNCHANGED <<job, vm_host, domain_host>>
        /\ task' = [task EXCEPT ![k] = row] /\ EndRequest(r)
    BY <1>6 DEF DeleteTask, AtRequest
  <2>2. row.status = "deleted" /\ row.vm = NoVm
    BY DEF NoTask
  <2> HIDE DEF row
  <2>3. TaskKnown(row) /\ ~Pending(row)
    BY <2>2 DEF TaskKnown, Given, Pending
  <2>4. k \in Tasks /\ task[k].vm = v
    BY <1>b, <2>1 DEF RequestKnown, OwnTaskPcs
  <2>5. QED
    BY <1>a, <1>b, <1>e, <2>1, <2>2, <2>3, <2>4, RequestWrites
<1>7. QED
  BY <1>1, <1>2, <1>3, <1>4, <1>5, <1>6

\* The thread of the pool starts, moves the domain or fails.
LEMMA JobMovesKnown ==
    ASSUME KInv, IInv', NEW t \in Tasks,
           JobStart(t) \/ JobMigrate(t) \/ JobFail(t) \/ JobFailSave(t) \/ JobSaveHost(t)
    PROVE  KInv'
<1> DEFINE row == task[t]
           v == row.vm
           At(pc) == [job[t] EXCEPT !.pc = pc]
<1>a. job[t].pc # "none" /\ UNCHANGED request
  BY DEF JobStart, JobMigrate, JobFail, JobFailSave, JobSaveHost, AtJob
<1>b. /\ job[t] \in JobState /\ row \in TaskRow /\ Placed(row) /\ TaskKnown(row)
      /\ JobKnown(job[t], row, vm_host[v], domain_host[v])
      /\ row.status = "some-todo" => domain_host[v] = row.dst
      /\ v \in Vms /\ row.src \in Hosts /\ row.dst \in Hosts
      /\ task' = task => task' = [task EXCEPT ![t] = row]
  BY <1>a, JobHas DEF Placed, KInv, TasksKnown, IInv, TasksInv
<1>c. \A pc : /\ At(pc).pc = pc /\ At(pc).vm_host = job[t].vm_host
              /\ At(pc).m_task = job[t].m_task /\ At(pc).log_msg = job[t].log_msg
  BY <1>b DEF JobState
<1>d. \A pc : GotoJob(t, pc) => job' = [job EXCEPT ![t] = At(pc)]
  BY DEF GotoJob
<1>e. EndJob(t) => job' = [job EXCEPT ![t] = NoJob]
  BY DEF EndJob
<1>f. row.status \in {"wait", "in-process"} => Fresh(row)
  BY <1>b DEF TaskKnown
<1> HIDE DEF At
<1>1. CASE JobStart(t)
  <2> DEFINE started == [row EXCEPT !.status = "in-process"]
             j == [NoJob EXCEPT !.pc = "migrate", !.vm_host = vm_host[started.vm],
                                !.m_task = started]
  <2>1. job[t].pc = "queued" /\ UNCHANGED <<vm_host, domain_host>>
    BY <1>1 DEF JobStart, AtJob
  <2>2. row.status = "wait" /\ vm_host[v] = row.src /\ domain_host[v] = row.src
    BY <1>b, <2>1 DEF JobKnown
  <2>3. task' = [task EXCEPT ![t] = started] /\ job' = [job EXCEPT ![t] = j]
    BY <1>1, <2>2 DEF JobStart
  <2>4. /\ started.status = "in-process" /\ started.vm = v
        /\ started.src = row.src /\ started.dst = row.dst /\ started.content = row.content
        /\ started.src_undefined = row.src_undefined /\ started.src_is_free = row.src_is_free
        /\ started.dst_is_claim = row.dst_is_claim
    BY <1>b DEF TaskRow
  <2> HIDE DEF started
  <2>5. j.pc = "migrate" /\ j.vm_host = vm_host[v] /\ j.m_task = started /\ ~j.log_msg
    BY <2>4 DEF NoJob
  <2> HIDE DEF j
  <2>6. TaskKnown(started)
    BY <1>b, <1>f, <2>2, <2>4 DEF TaskKnown, Given, Placed, Fresh
  <2>7. JobKnown(j, started, vm_host[v], domain_host[v])
    BY <2>2, <2>4, <2>5 DEF JobKnown, MovedPcs
  <2>8. QED
    BY <1>a, <2>1, <2>3, <2>4, <2>5, <2>6, <2>7, JobWrites
<1>2. CASE JobMigrate(t)
  <2>1. job[t].pc = "migrate" /\ UNCHANGED <<task, vm_host>>
    BY <1>2 DEF JobMigrate, AtJob
  <2>2. /\ row.status = "in-process" /\ job[t].m_task = row /\ JobTask(t) = row
        /\ vm_host[v] = row.src /\ domain_host[v] = row.src /\ ~job[t].log_msg
    BY <1>b, <2>1 DEF JobKnown, JobTask
  <2>3. CASE domain_host' = [domain_host EXCEPT ![v] = row.dst] /\ GotoJob(t, "save_host")
    <3>1. domain_host'[v] = row.dst /\ \A x \in Vms \ {v} : domain_host'[x] = domain_host[x]
      BY <1>b, <2>3 DEF KInv, IInv, HostOfVmsInv
    <3>2. JobKnown(At("save_host"), row, vm_host'[v], domain_host'[v])
      BY <1>b, <1>c, <2>1, <2>2, <3>1 DEF JobKnown, MovedPcs
    <3>3. At("save_host").pc # "none" /\ row.status # "some-todo"
      BY <1>c, <2>2
    <3>4. QED
      BY <1>a, <1>b, <1>d, <2>1, <2>3, <3>1, <3>2, <3>3, JobWrites
  <2>4. CASE UNCHANGED domain_host /\ GotoJob(t, "fail")
    <3>1. JobKnown(At("fail"), row, vm_host'[v], domain_host'[v])
      BY <1>b, <1>c, <2>1, <2>2, <2>4 DEF JobKnown, MovedPcs
    <3>2. At("fail").pc # "none" /\ row.status # "some-todo"
      BY <1>c, <2>2
    <3>3. QED
      BY <1>a, <1>b, <1>d, <2>1, <2>4, <3>1, <3>2, JobWrites
  <2>5. QED
    BY <1>2, <2>2, <2>3, <2>4 DEF JobMigrate
<1>3. CASE JobFail(t)
  <2> DEFINE failed == [row EXCEPT !.dst_is_claim = FALSE]
             j == [job[t] EXCEPT !.pc = "fail_save", !.m_task = failed]
  <2>1. job[t].pc = "fail" /\ UNCHANGED <<task, vm_host, domain_host>>
    BY <1>3 DEF JobFail, AtJob
  <2>2. /\ row.status = "in-process" /\ job[t].m_task = row /\ JobTask(t) = row
        /\ vm_host[v] = row.src /\ domain_host[v] = row.src /\ ~job[t].log_msg
    BY <1>b, <2>1 DEF JobKnown, JobTask
  <2>3. can_free_vm(JobTask(t).dst, JobTask(t).vm)
    BY <1>b, <2>2, CanFree DEF KInv, IInv
  <2>4. job' = [job EXCEPT ![t] = j]
    BY <1>b, <1>3, <2>2, <2>3 DEF JobFail, KInv, IInv, JobsInv, JobState
  <2> HIDE DEF failed
  <2>5. j.pc = "fail_save" /\ j.m_task = failed /\ j.log_msg = job[t].log_msg
    BY <1>b DEF JobState
  <2> HIDE DEF j
  <2>6. JobKnown(j, row, vm_host[v], domain_host[v])
    BY <2>2, <2>5 DEF failed, JobKnown, MovedPcs
  <2>7. j.pc # "none" /\ row.status # "some-todo"
    BY <2>2, <2>5
  <2>8. QED
    BY <1>a, <1>b, <2>1, <2>4, <2>6, <2>7, JobWrites
<1>4. CASE JobFailSave(t)
  <2> DEFINE failed == [row EXCEPT !.status = "failed", !.content = "problem",
                                   !.dst_is_claim = FALSE]
  <2>1. /\ job[t].pc = "fail_save" /\ UNCHANGED <<vm_host, domain_host>>
        /\ SaveFailed(t, JobTask(t)) /\ EndJob(t)
    BY <1>4 DEF JobFailSave, AtJob
  <2>2. row.status = "in-process" /\ JobTask(t) = [row EXCEPT !.dst_is_claim = FALSE]
    BY <1>b, <2>1 DEF JobKnown, JobTask
  <2>3. task' = [task EXCEPT ![t] = failed]
    BY <1>b, <2>1, <2>2 DEF TaskRow, KInv, IInv, TasksInv, SaveFailed
  <2>4. /\ failed.status = "failed" /\ failed.vm = v /\ ~failed.dst_is_claim
        /\ failed.src = row.src /\ failed.dst = row.dst
        /\ failed.src_undefined = row.src_undefined
    BY <1>b DEF TaskRow
  <2> HIDE DEF failed
  <2>5. TaskKnown(failed)
    BY <1>b, <1>f, <2>2, <2>4 DEF TaskKnown, Given, Placed, Fresh
  <2>6. QED
    BY <1>a, <1>e, <2>1, <2>3, <2>4, <2>5, JobWrites
<1>5. CASE JobSaveHost(t)
  <2> DEFINE j == [job[t] EXCEPT !.pc = "count", !.log_msg = TRUE]
  <2>1. job[t].pc = "save_host" /\ UNCHANGED <<task, domain_host>>
    BY <1>5 DEF JobSaveHost, AtJob
  <2>2. /\ row.status = "in-process" /\ job[t].m_task = row /\ JobTask(t) = row
        /\ domain_host[v] = row.dst
    BY <1>b, <2>1 DEF JobKnown, JobTask
  <2>3. CASE vm_host' = [vm_host EXCEPT ![v] = row.dst] /\ GotoJob(t, "count")
    <3>1. vm_host'[v] = row.dst /\ \A x \in Vms \ {v} : vm_host'[x] = vm_host[x]
      BY <1>b, <2>3 DEF KInv, IInv, HostOfVmsInv
    <3>2. JobKnown(At("count"), row, vm_host'[v], domain_host'[v])
      BY <1>b, <1>c, <2>1, <2>2, <3>1 DEF JobKnown, MovedPcs
    <3>3. At("count").pc # "none" /\ row.status # "some-todo"
      BY <1>c, <2>2
    <3>4. QED
      BY <1>a, <1>b, <1>d, <2>1, <2>3, <3>1, <3>2, <3>3, JobWrites
  <2>4. CASE UNCHANGED vm_host /\ job' = [job EXCEPT ![t] = j]
    <3>1. j.pc = "count" /\ j.m_task = row /\ j.log_msg
      BY <1>b, <2>2 DEF JobState
    <3> HIDE DEF j
    <3>2. JobKnown(j, row, vm_host'[v], domain_host'[v])
      BY <2>1, <2>2, <2>4, <3>1 DEF JobKnown, MovedPcs
    <3>3. j.pc # "none" /\ row.status # "some-todo"
      BY <2>2, <3>1
    <3>4. QED
      BY <1>a, <1>b, <2>1, <2>4, <3>2, <3>3, JobWrites
  <2>5. CASE UNCHANGED vm_host /\ job' = [job EXCEPT ![t].pc = "count", ![t].log_msg = TRUE]
    BY <1>b, <2>4, <2>5 DEF KInv, IInv, JobsInv
  <2>6. QED
    BY <1>5, <2>2, <2>3, <2>5 DEF JobSaveHost
<1>6. QED
  BY <1>1, <1>2, <1>3, <1>4, <1>5

\* The thread of the pool settles the counters and the quota of the source.
LEMMA JobSettlesKnown ==
    ASSUME KInv, IInv', NEW t \in Tasks,
           \/ JobCount(t) \/ JobTodo(t) \/ JobUncount(t)
           \/ JobFree(t) \/ JobFreeSave(t) \/ JobFinish(t)
    PROVE  KInv'
<1> DEFINE row == task[t]
           v == row.vm
           At(pc) == [job[t] EXCEPT !.pc = pc]
<1>a. job[t].pc \in MovedPcs /\ job[t].pc # "none" /\ UNCHANGED <<request, vm_host, domain_host>>
  BY DEF JobCount, JobTodo, JobUncount, JobFree, JobFreeSave, JobFinish, AtJob, MovedPcs
<1>b. /\ job[t] \in JobState /\ row \in TaskRow /\ Placed(row) /\ TaskKnown(row)
      /\ JobKnown(job[t], row, vm_host[v], domain_host[v])
      /\ row.status = "some-todo" => domain_host[v] = row.dst
      /\ v \in Vms /\ row.src \in Hosts /\ row.dst \in Hosts
      /\ task' = task => task' = [task EXCEPT ![t] = row]
  BY <1>a, JobHas DEF Placed, KInv, TasksKnown, IInv, TasksInv
<1>c. \A pc : /\ At(pc).pc = pc /\ At(pc).vm_host = job[t].vm_host
              /\ At(pc).m_task = job[t].m_task /\ At(pc).log_msg = job[t].log_msg
  BY <1>b DEF JobState
<1>d. \A pc : GotoJob(t, pc) => job' = [job EXCEPT ![t] = At(pc)]
  BY DEF GotoJob
<1>e. vm_host[v] = domain_host[v] \/ job[t].log_msg
  BY <1>a, <1>b DEF JobKnown
<1>f. row.status = "some-todo" => Settling(row)
  BY <1>b DEF TaskKnown
<1> HIDE DEF At
<1>1. CASE JobCount(t)
  <2>1. job[t].pc = "count" /\ UNCHANGED task /\ GotoJob(t, "todo")
    BY <1>1 DEF JobCount, AtJob
  <2>2. JobKnown(At("todo"), row, vm_host[v], domain_host[v])
    BY <1>b, <1>c, <1>e, <2>1 DEF JobKnown, MovedPcs
  <2>3. At("todo").pc # "none"
    BY <1>c
  <2>4. QED
    BY <1>a, <1>b, <1>d, <2>1, <2>2, <2>3, JobWrites
<1>2. CASE JobTodo(t)
  <2> DEFINE todo == [row EXCEPT !.src_undefined = TRUE, !.status = "some-todo"]
             j == [job[t] EXCEPT !.pc = "uncount", !.m_task = todo]
  <2>1. job[t].pc = "todo" /\ row.status = "in-process" /\ JobTask(t) = row
        /\ domain_host[v] = row.dst
    BY <1>2, <1>b DEF JobTodo, AtJob, JobKnown, JobTask
  <2>2. task' = [task EXCEPT ![t] = todo] /\ job' = [job EXCEPT ![t] = j]
    BY <1>2, <1>b, <2>1 DEF JobTodo, KInv, IInv, JobsInv
  <2>3. /\ todo.status = "some-todo" /\ todo.vm = v /\ todo.src_undefined
        /\ todo.src = row.src /\ todo.dst = row.dst /\ todo.content = row.content
        /\ todo.src_is_free = row.src_is_free /\ todo.dst_is_claim = row.dst_is_claim
    BY <1>b DEF TaskRow
  <2> HIDE DEF todo
  <2>4. j.pc = "uncount" /\ j.m_task = todo /\ j.log_msg = job[t].log_msg
    BY <1>b DEF JobState
  <2> HIDE DEF j
  <2>5. Fresh(row)
    BY <1>b, <2>1 DEF TaskKnown
  <2>6. TaskKnown(todo)
    BY <1>b, <2>3, <2>5 DEF TaskKnown, Given, Placed, Fresh, Settling
  <2>7. JobKnown(j, todo, vm_host[v], domain_host[v])
    BY <1>e, <2>3, <2>4, <2>5 DEF JobKnown, MovedPcs, Fresh
  <2>8. QED
    BY <1>a, <2>1, <2>2, <2>3, <2>4, <2>6, <2>7, JobWrites
<1>3. CASE JobUncount(t)
  <2>1. job[t].pc = "uncount" /\ UNCHANGED task /\ GotoJob(t, "free")
    BY <1>3 DEF JobUncount, AtJob
  <2>2. JobKnown(At("free"), row, vm_host[v], domain_host[v])
    BY <1>b, <1>c, <1>e, <2>1 DEF JobKnown, MovedPcs
  <2>3. At("free").pc # "none"
    BY <1>c
  <2>4. QED
    BY <1>a, <1>b, <1>d, <2>1, <2>2, <2>3, JobWrites
<1>4. CASE JobFree(t)
  <2> DEFINE freed == [row EXCEPT !.src_is_free = TRUE]
             j == [job[t] EXCEPT !.pc = "free_save", !.m_task = freed]
  <2>1. job[t].pc = "free" /\ UNCHANGED task
    BY <1>4 DEF JobFree, AtJob
  <2>2. /\ row.status = "some-todo" /\ job[t].m_task = row /\ JobTask(t) = row
        /\ ~row.src_is_free
    BY <1>b, <2>1 DEF JobKnown, JobTask
  <2>3. can_free_vm(JobTask(t).src, JobTask(t).vm)
    BY <1>b, <2>2, CanFree DEF KInv, IInv
  <2>4. job' = [job EXCEPT ![t] = j]
    BY <1>b, <1>4, <2>2, <2>3 DEF JobFree, KInv, IInv, JobsInv, JobState
  <2> HIDE DEF freed
  <2>5. j.pc = "free_save" /\ j.m_task = freed /\ j.log_msg = job[t].log_msg
    BY <1>b DEF JobState
  <2> HIDE DEF j
  <2>6. JobKnown(j, row, vm_host[v], domain_host[v])
    BY <1>e, <2>2, <2>5 DEF freed, JobKnown, MovedPcs
  <2>7. j.pc # "none"
    BY <2>5
  <2>8. QED
    BY <1>a, <1>b, <2>1, <2>4, <2>6, <2>7, JobWrites
<1>5. CASE JobFreeSave(t)
  <2> DEFINE freed == [row EXCEPT !.src_is_free = TRUE]
  <2>1. job[t].pc = "free_save" /\ GotoJob(t, "finish")
    BY <1>5 DEF JobFreeSave, AtJob
  <2>2. row.status = "some-todo" /\ job[t].m_task = freed
    BY <1>b, <2>1 DEF JobKnown
  <2>3. task' = [task EXCEPT ![t] = freed]
    BY <1>5, <2>2 DEF JobFreeSave, JobTask
  <2>4. /\ freed.vm = v /\ freed.status = "some-todo" /\ freed.src_is_free
        /\ freed.src = row.src /\ freed.dst = row.dst /\ freed.content = row.content
        /\ freed.src_undefined = row.src_undefined /\ freed.dst_is_claim = row.dst_is_claim
    BY <1>b, <2>2 DEF TaskRow
  <2> HIDE DEF freed
  <2>5. TaskKnown(freed)
    BY <1>b, <1>f, <2>2, <2>4 DEF TaskKnown, Given, Placed, Settling
  <2>6. JobKnown(At("finish"), freed, vm_host[v], domain_host[v])
    BY <1>c, <1>e, <2>2, <2>4 DEF JobKnown, MovedPcs
  <2>7. At("finish").pc # "none" /\ domain_host[v] = freed.dst
    BY <1>b, <1>c, <2>2, <2>4
  <2>8. job' = [job EXCEPT ![t] = At("finish")]
    BY <1>d, <2>1
  <2>9. QED
    BY <1>a, <2>3, <2>4, <2>5, <2>6, <2>7, <2>8, JobWrites
<1>6. CASE JobFinish(t)
  <2> DEFINE done == [row EXCEPT !.status = "complete",
                                 !.content = IF job[t].log_msg THEN "problem" ELSE "normal"]
  <2>1. job[t].pc = "finish" /\ EndJob(t)
    BY <1>6 DEF JobFinish, AtJob
  <2>2. row.status = "some-todo" /\ JobTask(t) = row /\ row.src_is_free
    BY <1>b, <2>1 DEF JobKnown, JobTask
  <2>3. task' = [task EXCEPT ![t] = done]
    BY <1>6, <2>2 DEF JobFinish
  <2>4. /\ done.vm = v /\ done.status = "complete" /\ done.src_is_free
        /\ done.src = row.src /\ done.dst = row.dst
        /\ done.src_undefined = row.src_undefined /\ done.dst_is_claim = row.dst_is_claim
    BY <1>b, <2>2 DEF TaskRow
  <2> HIDE DEF done
  <2>5. TaskKnown(done)
    BY <1>b, <1>f, <2>2, <2>4 DEF TaskKnown, Given, Placed, Settling
  <2>6. job' = [job EXCEPT ![t] = NoJob]
    BY <2>1 DEF EndJob
  <2>7. QED
    BY <1>a, <2>3, <2>4, <2>5, <2>6, JobWrites
<1>7. QED
  BY <1>1, <1>2, <1>3, <1>4, <1>5, <1>6

\* At first nobody knows of a task.
LEMMA InitKInv == Init => KInv
<1> SUFFICES ASSUME Init
             PROVE  KInv
  OBVIOUS
<1>1. NoTask.status = "none" /\ NoTask.vm = NoVm /\ NoJob.pc = "none" /\ Idle.pc = "idle"
  BY DEF NoTask, NoJob, Idle
<1>2. ApartInv
  BY <1>1 DEF Init, ApartInv, NonePending, Active, Pending
<1>3. TasksKnown
  BY <1>1 DEF Init, TasksKnown, TaskKnown, Given
<1>4. JobsKnown /\ RequestsKnown
  BY <1>1 DEF Init, JobsKnown, RequestsKnown
<1>5. QED
  BY <1>2, <1>3, <1>4, InitIInv DEF KInv

\* Every step, and a stutter, keeps it, while requests for one vm do not meet.
LEMMA NextKInv == ~MayOverlap /\ KInv /\ [Next]_vars => KInv'
<1> SUFFICES ASSUME ~MayOverlap, KInv, [Next]_vars
             PROVE  KInv'
  OBVIOUS
<1>1. IInv'
  BY NextIInv DEF KInv
<1>2. CASE UNCHANGED vars
  BY <1>1, <1>2 DEF vars, KInv, ApartInv, Active, TasksKnown, JobsKnown, RequestsKnown
<1>3. ASSUME NEW r \in Requests, RequestStep(r)
      PROVE  KInv'
  BY <1>1, <1>3, StartKnown, OldTasksKnown, SomeTodoKnown, NewTaskKnown DEF RequestStep
<1>4. ASSUME NEW t \in Tasks, JobStep(t)
      PROVE  KInv'
  BY <1>1, <1>4, JobMovesKnown, JobSettlesKnown DEF JobStep
<1>5. QED
  BY <1>1, <1>2, <1>3, <1>4, WorldKnown DEF Next

\* KInv is an invariant of the migrations that do not meet on a vm, whatever
\* fails and wherever processes die.
THEOREM KnownInvariance == ASSUME ~MayOverlap PROVE Spec => []KInv
<1>1. KInv /\ [Next]_vars => KInv'
  BY NextKInv
<1>2. QED
  BY <1>1, InitKInv, PTL DEF Spec

\* What an ended task says of itself is so, also where a request settled it
\* after the process of its thread died (_do_task_failed,
\* handle_some_todo_migrate_log, live_migrate_vm_task).
THEOREM EndedTasksAreTrue == ASSUME ~MayOverlap PROVE Spec => []EndedTaskIsTrue
<1>1. KInv => EndedTaskIsTrue
  <2> SUFFICES ASSUME KInv, NEW t \in Tasks
               PROVE  /\ task[t].status = "complete" =>
                            task[t].src_undefined /\ task[t].src_is_free /\ task[t].dst_is_claim
                      /\ task[t].status = "failed" =>
                            ~task[t].src_undefined /\ ~task[t].dst_is_claim /\ ~Moved(t)
    BY DEF EndedTaskIsTrue
  <2>1. TaskKnown(task[t])
    BY DEF KInv, TasksKnown
  <2>2. task[t].status = "failed" => ~Moved(t)
    BY JobHas DEF Moved
  <2>3. QED
    BY <2>1, <2>2 DEF TaskKnown
<1>2. QED
  BY <1>1, KnownInvariance, PTL

-----------------------------------------------------------------------------
(* A vm whose row is wrong has a task that says so. *)

\* The thread of a task, or its row, knows that the row of the vm may be wrong.
Traced(j, row) ==
    \/ j.pc = "save_host"
    \/ j.log_msg
    \/ row.content = "problem"
    \/ j = NoJob /\ row.status = "some-todo"

\* A step keeps every trace, but those of the vms whose row it puts right.
LEMMA TracesKept ==
    ASSUME StaleRowIsReported,
           \A v \in Vms :
              \/ vm_host'[v] = domain_host'[v]
              \/ vm_host'[v] = vm_host[v] /\ domain_host'[v] = domain_host[v]
              \/ \E t \in Tasks : /\ task'[t].vm = v /\ task'[t].dst = domain_host'[v]
                                  /\ Traced(job'[t], task'[t]),
           \A t \in Tasks :
              task[t].vm \in Vms /\ Traced(job[t], task[t]) =>
                 \/ vm_host'[task[t].vm] = domain_host'[task[t].vm]
                 \/ /\ task'[t].vm = task[t].vm /\ task'[t].dst = task[t].dst
                    /\ Traced(job'[t], task'[t])
    PROVE  StaleRowIsReported'
<1> SUFFICES ASSUME NEW v \in Vms, vm_host'[v] # domain_host'[v]
             PROVE  \E t \in Tasks : /\ task'[t].vm = v /\ task'[t].dst = domain_host'[v]
                                     /\ Traced(job'[t], task'[t])
  BY DEF StaleRowIsReported, Traced, AtJob
<1>1. CASE vm_host'[v] = vm_host[v] /\ domain_host'[v] = domain_host[v]
  <2>1. PICK t \in Tasks : /\ task[t].vm = v /\ task[t].dst = domain_host[v]
                           /\ Traced(job[t], task[t])
    BY <1>1 DEF StaleRowIsReported, Traced, AtJob
  <2>2. QED
    BY <1>1, <2>1
<1>2. QED
  BY <1>1

\* A task whose thread has not moved the domain, and nobody finished, has no trace.
LEMMA FreshUntraced ==
    ASSUME KInv, NEW t \in Tasks, task[t].status \in {"wait", "in-process"},
           job[t].pc \in {"none", "queued", "migrate", "fail", "fail_save"}
    PROVE  ~Traced(job[t], task[t])
<1>1. task[t].content = "empty"
  BY DEF KInv, TasksKnown, TaskKnown, Fresh
<1>2. ~job[t].log_msg
  <2>1. CASE job[t].pc = "none"
    BY <2>1 DEF KInv, JobsKnown, NoJob
  <2>2. CASE job[t].pc # "none"
    BY <2>2, JobHas DEF JobKnown
  <2>3. QED
    BY <2>1, <2>2
<1>3. QED
  BY <1>1, <1>2 DEF Traced

\* A request leaves no wrong row without a trace.
LEMMA RequestReports ==
    ASSUME KInv, StaleRowIsReported, NEW r \in Requests, RequestStep(r)
    PROVE  StaleRowIsReported'
<1> DEFINE q == request[r]
           v == q.vm
           k == q.id
<1>a. /\ task \in [Tasks -> TaskRow] /\ job \in [Tasks -> JobState]
      /\ vm_host \in [Vms -> Hosts]
  BY DEF KInv, IInv, TasksInv, JobsInv, HostOfVmsInv
<1>b. ASSUME UNCHANGED <<vm_host, domain_host, task, job>>
      PROVE  StaleRowIsReported'
  BY <1>b, TracesKept
<1>c. ASSUME q.pc = "fail_old_save" \/ q.pc \in OwnTaskPcs
      PROVE  k \in Tasks /\ task[k].status = "wait" /\ ~Traced(job[k], task[k])
  <2>1. /\ q.pc # "idle" /\ q.pc \in CleanUpPcs \cup OwnTaskPcs
    BY <1>c DEF CleanUpPcs, OwnTaskPcs
  <2>2. k \in Tasks /\ RequestKnown(q, task[k], vm_host[v], domain_host[v])
    BY <2>1, RequestHas
  <2>3. task[k].status = "wait" /\ task[k].vm = v
    BY <1>c, <2>2 DEF RequestKnown, FailPcs
  <2>4. job[k].pc = "none"
    BY <2>1, <2>2, <2>3 DEF KInv, ApartInv
  <2>5. QED
    BY <2>2, <2>3, <2>4, FreshUntraced
<1>d. ASSUME NEW t \in Tasks, task[t].vm \notin Vms \/ ~Traced(job[t], task[t]),
             \A x \in Tasks \ {t} : task'[x] = task[x] /\ job'[x] = job[x],
             UNCHANGED <<vm_host, domain_host>>
      PROVE  StaleRowIsReported'
  BY <1>d, TracesKept
<1>1. CASE FailOldSave(r)
  BY <1>a, <1>c, <1>d, <1>1 DEF FailOldSave, AtRequest, SaveFailed
<1>2. CASE FixHost(r)
  <2>1. q.pc = "fix_host" /\ UNCHANGED <<domain_host, task, job>>
    BY <1>2 DEF FixHost, AtRequest
  <2>2. /\ k \in Tasks /\ v \in Vms /\ OldTask(r) = task[k] /\ domain_host[v] = task[k].dst
    BY <2>1, SomeTodoHas DEF FixPcs, RequestKnown, OldTask
  <2>3. CASE vm_host' = [vm_host EXCEPT ![v] = OldTask(r).dst]
    BY <1>a, <2>1, <2>2, <2>3, TracesKept
  <2>4. CASE UNCHANGED vm_host
    BY <1>b, <2>1, <2>4
  <2>5. QED
    BY <1>2, <2>3, <2>4 DEF FixHost
<1>3. CASE FixSave(r) \/ FixDone(r)
  <2> DEFINE row == task[k]
  <2>1. q.pc \in {"fix_save", "fix_done"} /\ UNCHANGED <<vm_host, domain_host, job>>
    BY <1>3 DEF FixSave, FixDone, AtRequest
  <2>2. k \in Tasks /\ row.vm = v /\ vm_host[v] = domain_host[v]
    BY <2>1, SomeTodoHas DEF FixPcs, RequestKnown
  <2>3. \A x \in Tasks \ {k} : task'[x] = task[x]
    BY <1>3, <1>a, <2>2 DEF FixSave, FixDone
  <2>4. QED
    BY <2>1, <2>2, <2>3, TracesKept
<1>4. CASE Insert(r)
  <2>1. UNCHANGED <<vm_host, domain_host, job>>
    BY <1>4 DEF Insert
  <2>2. ASSUME NEW t \in Tasks, task[t].status = "none", NEW row,
               task' = [task EXCEPT ![t] = row]
        PROVE  StaleRowIsReported'
    BY <1>a, <1>d, <2>1, <2>2, MigrateAssumption DEF KInv, TasksKnown, TaskKnown, Given
  <2>3. QED
    BY <1>4, <1>b, <2>1, <2>2 DEF Insert
<1>5. CASE Submit(r)
  BY <1>a, <1>c, <1>d, <1>5 DEF Submit, AtRequest, GotoJob, OwnTaskPcs
<1>6. CASE DeleteTask(r)
  BY <1>a, <1>c, <1>d, <1>6 DEF DeleteTask, AtRequest, OwnTaskPcs
<1>7. CASE \/ \E w \in Vms, dest \in Hosts : Start(r, w, dest)
           \/ CheckOld(r) \/ LoadOld(r) \/ FailOld(r) \/ FixSrc(r) \/ FixDst(r) \/ FixFree(r)
           \/ Check(r) \/ Claim(r) \/ UndoClaim(r)
  BY <1>7, <1>b DEF Start, CheckOld, LoadOld, FailOld, FixSrc, FixDst, FixFree, Check, Claim,
                    UndoClaim
<1>8. QED
  BY <1>1, <1>2, <1>3, <1>4, <1>5, <1>6, <1>7 DEF RequestStep

\* Nor does a thread of the pool.
LEMMA JobReports ==
    ASSUME KInv, StaleRowIsReported, NEW t \in Tasks, JobStep(t)
    PROVE  StaleRowIsReported'
<1> DEFINE row == task[t]
           v == row.vm
<1>a. /\ task \in [Tasks -> TaskRow] /\ job \in [Tasks -> JobState]
      /\ vm_host \in [Vms -> Hosts] /\ domain_host \in [Vms -> Hosts]
  BY DEF KInv, IInv, TasksInv, JobsInv, HostOfVmsInv
<1>b. /\ job[t] \in JobState /\ row \in TaskRow /\ v \in Vms /\ row.dst \in Hosts
      /\ JobKnown(job[t], row, vm_host[v], domain_host[v])
      /\ row.status \in {"wait", "in-process", "some-todo"}
  <2>1. job[t].pc # "none"
    BY DEF JobStep, JobStart, JobMigrate, JobFail, JobFailSave, JobSaveHost, JobCount, JobTodo,
           JobUncount, JobFree, JobFreeSave, JobFinish, AtJob
  <2>2. QED
    BY <2>1, JobHas DEF Placed
<1>c. \A x \in Tasks \ {t} : task'[x] = task[x] /\ job'[x] = job[x]
  BY <1>a DEF JobStep, JobStart, JobMigrate, JobFail, JobFailSave, JobSaveHost, JobCount, JobTodo,
           JobUncount, JobFree, JobFreeSave, JobFinish, GotoJob, EndJob, SaveFailed
<1>d. ASSUME UNCHANGED <<vm_host, domain_host>>,
             Traced(job[t], row) =>
                \/ vm_host[v] = domain_host[v]
                \/ /\ task'[t].vm = v /\ task'[t].dst = row.dst
                   /\ Traced(job'[t], task'[t])
      PROVE  StaleRowIsReported'
  BY <1>c, <1>d, TracesKept
<1>1. CASE JobStart(t) \/ JobFail(t) \/ JobFailSave(t)
  BY <1>b, <1>d, <1>1, FreshUntraced DEF JobStart, JobFail, JobFailSave, AtJob, JobKnown
<1>2. CASE JobMigrate(t)
  <2>1. job[t].pc = "migrate" /\ UNCHANGED <<vm_host, task>>
    BY <1>2 DEF JobMigrate, AtJob
  <2>2. JobTask(t) = row /\ ~Traced(job[t], row)
    BY <1>b, <2>1, FreshUntraced DEF JobKnown, JobTask
  <2>3. CASE UNCHANGED domain_host
    BY <1>d, <2>1, <2>2, <2>3
  <2>4. CASE domain_host' = [domain_host EXCEPT ![v] = row.dst] /\ GotoJob(t, "save_host")
    BY <1>a, <1>b, <1>c, <2>1, <2>2, <2>4, TracesKept DEF Traced, GotoJob, JobState
  <2>5. QED
    BY <1>2, <2>2, <2>3, <2>4 DEF JobMigrate
<1>3. CASE JobSaveHost(t)
  <2>1. job[t].pc = "save_host" /\ UNCHANGED <<domain_host, task>>
    BY <1>3 DEF JobSaveHost, AtJob
  <2>2. JobTask(t) = row /\ domain_host[v] = row.dst
    BY <1>b, <2>1 DEF JobKnown, JobTask
  <2>3. CASE vm_host' = [vm_host EXCEPT ![v] = row.dst]
    BY <1>a, <1>b, <1>c, <2>1, <2>2, <2>3, TracesKept
  <2>4. CASE UNCHANGED vm_host /\ job' = [job EXCEPT ![t].pc = "count", ![t].log_msg = TRUE]
    BY <1>a, <1>d, <2>1, <2>4 DEF Traced, JobState
  <2>5. QED
    BY <1>3, <2>2, <2>3, <2>4 DEF JobSaveHost
<1>4. CASE JobCount(t) \/ JobUncount(t) \/ JobTodo(t) \/ JobFree(t) \/ JobFreeSave(t) \/ JobFinish(t)
  <2>1. job[t].pc \in MovedPcs /\ UNCHANGED <<vm_host, domain_host>>
    BY <1>4 DEF JobCount, JobUncount, JobTodo, JobFree, JobFreeSave, JobFinish, AtJob, MovedPcs
  <2>2. vm_host[v] = domain_host[v] \/ job[t].log_msg
    BY <1>b, <2>1 DEF JobKnown
  <2>3. task'[t].vm = v /\ task'[t].dst = row.dst
    <3>1. CASE JobCount(t) \/ JobUncount(t) \/ JobFree(t)
      BY <3>1 DEF JobCount, JobUncount, JobFree
    <3>2. CASE JobTodo(t) \/ JobFinish(t)
      <4>1. JobTask(t) = row
        BY <1>b, <3>2 DEF JobTodo, JobFinish, AtJob, JobKnown, JobTask
      <4>2. ASSUME NEW content
            PROVE  LET todo == [row EXCEPT !.src_undefined = TRUE, !.status = "some-todo"]
                       done == [row EXCEPT !.status = "complete", !.content = content]
                   IN  /\ todo.vm = v /\ todo.dst = row.dst
                       /\ done.vm = v /\ done.dst = row.dst
        BY <1>b DEF TaskRow
      <4>3. \E content :
               \/ task'[t] = [row EXCEPT !.src_undefined = TRUE, !.status = "some-todo"]
               \/ task'[t] = [row EXCEPT !.status = "complete", !.content = content]
        BY <1>a, <3>2, <4>1 DEF JobTodo, JobFinish
      <4>4. QED
        BY <4>2, <4>3
    <3>3. CASE JobFreeSave(t)
      BY <1>b, <1>a, <3>3 DEF JobFreeSave, AtJob, JobKnown, JobTask, TaskRow
    <3>4. QED
      BY <1>4, <3>1, <3>2, <3>3
  <2>4. job[t].log_msg => Traced(job'[t], task'[t])
    <3>1. CASE JobFinish(t)
      BY <1>a, <1>b, <3>1 DEF JobFinish, JobTask, JobState, TaskRow, Traced
    <3>2. CASE JobCount(t) \/ JobUncount(t) \/ JobTodo(t) \/ JobFree(t) \/ JobFreeSave(t)
      BY <1>a, <1>b, <3>2 DEF JobCount, JobUncount, JobTodo, JobFree, JobFreeSave, GotoJob, JobState, Traced
    <3>3. QED
      BY <1>4, <3>1, <3>2
  <2>5. QED
    BY <1>d, <2>1, <2>2, <2>3, <2>4
<1>5. QED
  BY <1>1, <1>2, <1>3, <1>4 DEF JobStep

\* Nor does a process that dies, except between the move of the domain and the
\* mark in the task.
LEMMA CrashReports ==
    ASSUME KInv, StaleRowIsReported, CrashPoints \cap {"save_host", "count", "todo"} = {},
           NEW rs \in SUBSET Requests, NEW ts \in SUBSET Tasks, Crash(rs, ts)
    PROVE  StaleRowIsReported'
<1>1. /\ \A t \in Tasks : job'[t] = IF t \in ts THEN NoJob ELSE job[t]
      /\ \A t \in ts : job[t].pc \in CrashPoints
      /\ UNCHANGED <<task, vm_host, domain_host>>
  BY DEF Crash
<1>2. ASSUME NEW t \in Tasks, Traced(job[t], task[t])
      PROVE  Traced(job'[t], task[t])
  <2>1. CASE t \notin ts \/ job[t].pc = "none"
    BY <1>1, <1>2, <2>1 DEF KInv, JobsKnown
  <2>2. CASE t \in ts /\ job[t].pc # "none"
    <3>1. job[t] \in JobState /\ JobKnown(job[t], task[t], vm_host[task[t].vm], domain_host[task[t].vm])
      BY <2>2, JobHas
    <3>2. job[t].pc \notin {"save_host", "count", "todo"}
      BY <1>1, <2>2
    <3>3. job[t].log_msg => task[t].status = "some-todo"
      BY <2>2, <3>1, <3>2 DEF JobKnown, JobState, JobPcs
    <3>4. QED
      BY <1>1, <1>2, <2>2, <3>2, <3>3 DEF Traced, NoJob
  <2>3. QED
    BY <2>1, <2>2
<1>3. QED
  BY <1>1, <1>2, TracesKept

\* No row of a vm is wrong without a trace, however many processes die, if none
\* dies between the move of a domain and the some-todo mark of its task
\* (live_migrate_vm_task saves the row of the vm first and the mark after it).
THEOREM StaleRowsAreReported ==
    ASSUME ~MayOverlap, CrashPoints \cap {"save_host", "count", "todo"} = {}
    PROVE  Spec => []StaleRowIsReported
<1>1. Init => StaleRowIsReported
  BY DEF Init, StaleRowIsReported
<1>2. KInv /\ StaleRowIsReported /\ [Next]_vars => StaleRowIsReported'
  <2> SUFFICES ASSUME KInv, StaleRowIsReported, [Next]_vars
               PROVE  StaleRowIsReported'
    OBVIOUS
  <2>1. CASE UNCHANGED <<vm_host, domain_host, task, job>>
    BY <2>1, TracesKept
  <2>2. CASE UNCHANGED vars \/ \E t \in Tasks : Age(t)
    BY <2>1, <2>2 DEF vars, Age
  <2>3. QED
    BY <2>2, RequestReports, JobReports, CrashReports DEF Next
<1>3. Spec => []KInv
  BY KnownInvariance
<1>4. QED
  BY <1>1, <1>2, <1>3, PTL DEF Spec

-----------------------------------------------------------------------------
(* The columns are exact. *)

QuotaExact ==
    \A h \in Hosts :
       /\ host[h].vcpu_allocated = ClaimedOn(h, Vcpu)
       /\ host[h].mem_allocated = ClaimedOn(h, Mem)

CountExact == \A h \in Hosts : host[h].vm_created = CountedOn(h)

\* What a vm, a task and a request have on h.
VmShare(v, h, size) == IF domain_host[v] = h THEN size[v] ELSE 0

TaskShare(t, h, size) == IF TaskHolds(t) = h THEN size[task[t].vm] ELSE 0

RequestShare(r, h, size) == IF RequestHolds(r) = h THEN size[request[r].vm] ELSE 0

SharesTyped ==
    \A h \in Hosts, size \in {Vcpu, Mem} :
       /\ \A v \in Vms : VmShare(v, h, size) \in Nat
       /\ \A t \in Tasks : TaskShare(t, h, size) \in Nat
       /\ \A r \in Requests : RequestShare(r, h, size) \in Nat

\* Shares are numbers: who holds something on a host names a vm.
LEMMA SharesAreTyped == KInv => SharesTyped
<1> SUFFICES ASSUME KInv, NEW h \in Hosts, NEW size \in {Vcpu, Mem}
             PROVE  /\ \A v \in Vms : VmShare(v, h, size) \in Nat
                    /\ \A t \in Tasks : TaskShare(t, h, size) \in Nat
                    /\ \A r \in Requests : RequestShare(r, h, size) \in Nat
  BY DEF SharesTyped
<1>1. \A v \in Vms : size[v] \in Nat
  BY MigrateAssumption
<1>2. ASSUME NEW t \in Tasks, TaskHolds(t) = h
      PROVE  task[t].vm \in Vms
  <2>1. HoldsDst(t) \/ HoldsSrc(t)
    BY <1>2, MigrateAssumption DEF TaskHolds
  <2>2. job[t].pc = "none" => job[t] = NoJob
    BY DEF KInv, JobsKnown
  <2>3. CASE job[t].pc # "none"
    BY <2>3, JobHas DEF Placed
  <2>4. CASE job[t].pc = "none"
    BY <2>1, <2>4 DEF HoldsDst, HoldsSrc, Given, KInv, TasksKnown, TaskKnown, Placed
  <2>5. QED
    BY <2>3, <2>4
<1>3. ASSUME NEW r \in Requests, RequestHolds(r) = h
      PROVE  request[r].vm \in Vms
  BY <1>3, MigrateAssumption, RequestHas DEF RequestHolds, HoldsClaim
<1>4. QED
  BY <1>1, <1>2, <1>3 DEF VmShare, TaskShare, RequestShare

\* The same in the next state.
LEMMA SharesAreTypedNext == KInv' => SharesTyped'
  BY SharesAreTyped, PTL

\* How much the shares on h change of v, k and r, which need not be there.
ShareChange(v, k, r, h, size) ==
    (IF v \in Vms THEN VmShare(v, h, size)' - VmShare(v, h, size) ELSE 0)
    + (IF k \in Tasks THEN TaskShare(k, h, size)' - TaskShare(k, h, size) ELSE 0)
    + (IF r \in Requests THEN RequestShare(r, h, size)' - RequestShare(r, h, size) ELSE 0)

\* The sum on a host changes by what the shares change.
LEMMA ClaimedChanges ==
    ASSUME KInv, KInv', NEW h \in Hosts, NEW size \in {Vcpu, Mem}, NEW v, NEW k, NEW r,
           \A x \in Vms \ {v} : VmShare(x, h, size)' = VmShare(x, h, size),
           \A x \in Tasks \ {k} : TaskShare(x, h, size)' = TaskShare(x, h, size),
           \A x \in Requests \ {r} : RequestShare(x, h, size)' = RequestShare(x, h, size)
    PROVE  /\ ClaimedOn(h, size) \in Nat
           /\ ClaimedOn(h, size)' = ClaimedOn(h, size) + ShareChange(v, k, r, h, size)
<1> DEFINE vs == [x \in Vms |-> VmShare(x, h, size)]
           ts == [x \in Tasks |-> TaskShare(x, h, size)]
           rs == [x \in Requests |-> RequestShare(x, h, size)]
           vs2 == [x \in Vms |-> VmShare(x, h, size)']
           ts2 == [x \in Tasks |-> TaskShare(x, h, size)']
           rs2 == [x \in Requests |-> RequestShare(x, h, size)']
<1>1. /\ ClaimedOn(h, size) = Total(vs) + Total(ts) + Total(rs)
      /\ ClaimedOn(h, size)' = Total(vs2) + Total(ts2) + Total(rs2)
  BY DEF ClaimedOn, VmShare, TaskShare, RequestShare
<1>2. SharesTyped /\ SharesTyped'
  BY SharesAreTyped, SharesAreTypedNext
<1>3. /\ vs \in [Vms -> Nat] /\ vs2 \in [Vms -> Nat]
      /\ ts \in [Tasks -> Nat] /\ ts2 \in [Tasks -> Nat]
      /\ rs \in [Requests -> Nat] /\ rs2 \in [Requests -> Nat]
  BY <1>2 DEF SharesTyped
<1>4. IsFiniteSet(Vms) /\ IsFiniteSet(Tasks) /\ IsFiniteSet(Requests)
  BY MigrateAssumption, FS_Interval DEF Tasks
<1>5. /\ \A x \in Vms \ {v} : vs2[x] = vs[x]
      /\ \A x \in Tasks \ {k} : ts2[x] = ts[x]
      /\ \A x \in Requests \ {r} : rs2[x] = rs[x]
  OBVIOUS
<1>6. ShareChange(v, k, r, h, size) =
         (IF v \in Vms THEN vs2[v] - vs[v] ELSE 0)
         + (IF k \in Tasks THEN ts2[k] - ts[k] ELSE 0)
         + (IF r \in Requests THEN rs2[r] - rs[r] ELSE 0)
  BY DEF ShareChange
<1> HIDE DEF vs, ts, rs, vs2, ts2, rs2
<1>7. Total(vs2) = Total(vs) + (IF v \in Vms THEN vs2[v] - vs[v] ELSE 0)
  BY <1>3, <1>4, <1>5, TotalChanges
<1>8. Total(ts2) = Total(ts) + (IF k \in Tasks THEN ts2[k] - ts[k] ELSE 0)
  BY <1>3, <1>4, <1>5, TotalChanges
<1>9. Total(rs2) = Total(rs) + (IF r \in Requests THEN rs2[r] - rs[r] ELSE 0)
  BY <1>3, <1>4, <1>5, TotalChanges
<1>10. Total(vs) \in Nat /\ Total(ts) \in Nat /\ Total(rs) \in Nat
  BY <1>3, <1>4, TotalIsNat
<1>11. /\ v \in Vms => vs2[v] \in Nat /\ vs[v] \in Nat
       /\ k \in Tasks => ts2[k] \in Nat /\ ts[k] \in Nat
       /\ r \in Requests => rs2[r] \in Nat /\ rs[r] \in Nat
  BY <1>3
<1>12. QED
  BY <1>1, <1>6, <1>7, <1>8, <1>9, <1>10, <1>11

\* A task and a request that the step leaves alone.
SameTask(t) ==
    TaskHolds(t)' = TaskHolds(t) /\ (TaskHolds(t) \in Hosts => task'[t].vm = task[t].vm)

SameRequest(r) ==
    /\ RequestHolds(r)' = RequestHolds(r)
    /\ RequestHolds(r) \in Hosts => request'[r].vm = request[r].vm

\* Where at most v, k and r change, exact columns stay so if they change with
\* the shares.
LEMMA QuotaFollows ==
    ASSUME KInv, KInv', QuotaExact, NEW v, NEW k, NEW r,
           \A x \in Vms \ {v} : domain_host'[x] = domain_host[x],
           \A x \in Tasks \ {k} : SameTask(x),
           \A x \in Requests \ {r} : SameRequest(x),
           \A h \in Hosts :
              /\ host'[h].vcpu_allocated
                    = host[h].vcpu_allocated + ShareChange(v, k, r, h, Vcpu)
              /\ host'[h].mem_allocated
                    = host[h].mem_allocated + ShareChange(v, k, r, h, Mem)
    PROVE  QuotaExact'
<1>1. ASSUME NEW h \in Hosts, NEW size \in {Vcpu, Mem}
      PROVE  ClaimedOn(h, size)' = ClaimedOn(h, size) + ShareChange(v, k, r, h, size)
  BY ClaimedChanges DEF VmShare, TaskShare, SameTask, RequestShare, SameRequest
<1>2. QED
  BY <1>1 DEF QuotaExact

-----------------------------------------------------------------------------
(* What a task holds, from its row and its thread. *)

ReleasePcs == {"fail_old_save", "delete_task", "fix_save"}

\* A request has given back what t holds, and not noted it.
Released(t) == \E r \in Requests : request[r].pc \in ReleasePcs /\ request[r].id = t

Holding(j, row) ==
    IF /\ row.status \in {"wait", "in-process"}
       /\ j.pc \notin {"save_host", "fail_save"} \cup MovedPcs
    THEN row.dst
    ELSE IF \/ j.pc \in {"save_host", "count", "todo", "uncount", "free"}
            \/ j = NoJob /\ row.status = "some-todo" /\ ~row.src_is_free
         THEN row.src ELSE NoHost

\* What a task holds follows from its row, its thread, and whether a request
\* has given it back.
LEMMA TaskHoldsIs ==
    ASSUME KInv, NEW t \in Tasks
    PROVE  TaskHolds(t) = IF Released(t) THEN NoHost ELSE Holding(job[t], task[t])
<1>1. ASSUME NEW r \in Requests, request[r].pc \in ReleasePcs, request[r].id = t
      PROVE  TaskHolds(t) = NoHost
  <2>1. request[r].pc # "idle" /\ RequestKnown(request[r], task[t], vm_host[request[r].vm],
                                               domain_host[request[r].vm])
    BY <1>1, RequestHas DEF ReleasePcs, CleanUpPcs, OwnTaskPcs
  <2>2. /\ request[r].pc = "fix_save" => task[t].status = "some-todo"
        /\ request[r].pc # "fix_save" => task[t].status = "wait"
        /\ task[t].vm = request[r].vm
    BY <1>1, <2>1 DEF RequestKnown, ReleasePcs, FailPcs, FixPcs, OwnTaskPcs
  <2>3. job[t].pc = "none"
    BY <2>1, <2>2 DEF KInv, ApartInv
  <2>4. ~HoldsDst(t) /\ ~HoldsSrc(t)
    BY <1>1, <2>2, <2>3 DEF HoldsDst, HoldsSrc, Releasing, AtRequest, ReleasePcs
  <2>5. QED
    BY <2>4 DEF TaskHolds
<1>2. CASE ~Released(t)
  <2>1. HoldsDst(t) <=> /\ task[t].status \in {"wait", "in-process"}
                        /\ job[t].pc \notin {"save_host", "fail_save"} \cup MovedPcs
    BY <1>2 DEF Released, ReleasePcs, HoldsDst, Moved, MovedPcs, AtJob, Releasing, AtRequest
  <2>2. HoldsSrc(t) <=> \/ job[t].pc \in {"save_host", "count", "todo", "uncount", "free"}
                        \/ job[t] = NoJob /\ task[t].status = "some-todo" /\ ~task[t].src_is_free
    BY <1>2 DEF Released, ReleasePcs, HoldsSrc, Releasing, AtRequest
  <2>3. QED
    BY <1>2, <2>1, <2>2 DEF TaskHolds, Holding
<1>3. QED
  BY <1>1, <1>2 DEF Released

\* The same in the next state.
LEMMA TaskHoldsIsNext ==
    KInv' => \A t \in Tasks :
                TaskHolds(t)' = IF Released(t)' THEN NoHost ELSE Holding(job'[t], task'[t])
<1>1. KInv => \A t \in Tasks :
                TaskHolds(t) = IF Released(t) THEN NoHost ELSE Holding(job[t], task[t])
  BY TaskHoldsIs
<1>2. (KInv => \A t \in Tasks :
                TaskHolds(t) = IF Released(t) THEN NoHost ELSE Holding(job[t], task[t]))'
  BY <1>1, PTL
<1>3. QED
  BY <1>2

\* Only the request of a vm releases what its tasks hold.
LEMMA ReleasedBy ==
    ASSUME KInv, NEW r \in Requests, request[r].pc \in ReleasePcs
    PROVE  request[r].id \in Tasks /\ task[request[r].id].vm = request[r].vm
<1>1. /\ request[r].pc # "idle" /\ request[r].pc \in CleanUpPcs \cup OwnTaskPcs
      /\ request[r].pc \in FailPcs \cup FixPcs \cup OwnTaskPcs
  BY DEF ReleasePcs, CleanUpPcs, OwnTaskPcs, FailPcs, FixPcs
<1>2. QED
  BY <1>1, RequestHas DEF RequestKnown

\* The same in the next state.
LEMMA ReleasedByNext ==
    KInv' => \A r \in Requests : request'[r].pc \in ReleasePcs =>
                request'[r].id \in Tasks /\ task'[request'[r].id].vm = request'[r].vm
<1>1. KInv => \A r \in Requests : request[r].pc \in ReleasePcs =>
                 request[r].id \in Tasks /\ task[request[r].id].vm = request[r].vm
  BY ReleasedBy
<1>2. (KInv => \A r \in Requests : request[r].pc \in ReleasePcs =>
                 request[r].id \in Tasks /\ task[request[r].id].vm = request[r].vm)'
  BY <1>1, PTL
<1>3. QED
  BY <1>2

-----------------------------------------------------------------------------
(* The kinds of step: nothing is handed over, a task or a request gives back  *)
(* what it held, a request claims.                                            *)

\* Some thing that is neither a vm, nor a task, nor a request.
Nobody == CHOOSE x : x \notin Vms \cup Tasks \cup Requests

\* There is such a thing: no set contains everything.
LEMMA NobodyIsNone == Nobody \notin Vms /\ Nobody \notin Tasks /\ Nobody \notin Requests
  BY NoSetContainsEverything DEF Nobody

SameQuota ==
    \A h \in Hosts :
       /\ host'[h].vcpu_allocated = host[h].vcpu_allocated
       /\ host'[h].mem_allocated = host[h].mem_allocated

QuotaFreed(h0, v) ==
    \A h \in Hosts :
       /\ host'[h].vcpu_allocated = host[h].vcpu_allocated - IF h = h0 THEN Vcpu[v] ELSE 0
       /\ host'[h].mem_allocated = host[h].mem_allocated - IF h = h0 THEN Mem[v] ELSE 0

\* A release gives back the size of the vm: it is never refused.
LEMMA FreeVmFrees ==
    ASSUME HostsInv, NEW h0 \in Hosts, NEW v \in Vms, free_vm(h0, v)
    PROVE  QuotaFreed(h0, v) /\ \A h \in Hosts : host'[h].vm_created = host[h].vm_created
<1>1. /\ Vcpu[v] \in Nat /\ Mem[v] \in Nat
      /\ \A h \in Hosts : host[h].vcpu_allocated \in Int /\ host[h].mem_allocated \in Int
  BY MigrateAssumption DEF HostsInv, HostTypeOK, HostRow
<1>2. deduct_delta(h0, -Vcpu[v], -Mem[v])
  BY CanFree DEF free_vm, free, can_free_vm
<1>3. \A h \in Hosts : host'[h] =
         IF h = h0 THEN [vcpu_allocated |-> host[h].vcpu_allocated + (-Vcpu[v]),
                         mem_allocated |-> host[h].mem_allocated + (-Mem[v]),
                         vm_created |-> host[h].vm_created]
         ELSE host[h]
  BY <1>2 DEF deduct_delta, HostsInv, HostTypeOK
<1>4. ASSUME NEW h \in Hosts
      PROVE  /\ host'[h].vcpu_allocated = host[h].vcpu_allocated - IF h = h0 THEN Vcpu[v] ELSE 0
             /\ host'[h].mem_allocated = host[h].mem_allocated - IF h = h0 THEN Mem[v] ELSE 0
             /\ host'[h].vm_created = host[h].vm_created
  <2>1. CASE h = h0
    <3>1. host'[h] = [vcpu_allocated |-> host[h].vcpu_allocated + (-Vcpu[v]),
                      mem_allocated |-> host[h].mem_allocated + (-Mem[v]),
                      vm_created |-> host[h].vm_created]
      BY <1>3, <2>1
    <3>2. /\ host'[h].vcpu_allocated = host[h].vcpu_allocated + (-Vcpu[v])
          /\ host'[h].mem_allocated = host[h].mem_allocated + (-Mem[v])
          /\ host'[h].vm_created = host[h].vm_created
      BY <3>1
    <3>3. QED
      BY <1>1, <2>1, <3>2
  <2>2. CASE h # h0
    <3>1. host'[h] = host[h]
      BY <1>3, <2>2
    <3>2. QED
      BY <1>1, <2>2, <3>1
  <2>3. QED
    BY <2>1, <2>2
<1>5. QED
  BY <1>4 DEF QuotaFreed

\* What exact columns are numbers of.
LEMMA ColumnsTyped ==
    ASSUME KInv
    PROVE  \A h \in Hosts : /\ host[h].vcpu_allocated \in Int /\ host[h].mem_allocated \in Int
                            /\ host[h].vm_created \in Int
  BY DEF KInv, IInv, HostsInv, HostTypeOK, HostRow

\* Nothing is handed over.
LEMMA QuotaKept ==
    ASSUME KInv, KInv', QuotaExact, SameQuota,
           \A x \in Vms : domain_host'[x] = domain_host[x],
           \A x \in Tasks : SameTask(x),
           \A x \in Requests : SameRequest(x)
    PROVE  QuotaExact'
<1>1. \A h, size : ShareChange(Nobody, Nobody, Nobody, h, size) = 0
  BY NobodyIsNone DEF ShareChange
<1>2. \A h \in Hosts :
         /\ host'[h].vcpu_allocated
               = host[h].vcpu_allocated + ShareChange(Nobody, Nobody, Nobody, h, Vcpu)
         /\ host'[h].mem_allocated
               = host[h].mem_allocated + ShareChange(Nobody, Nobody, Nobody, h, Mem)
  BY <1>1, ColumnsTyped DEF SameQuota
<1>3. QED
  BY <1>2, QuotaFollows

\* A task gives back what it held.
LEMMA TaskFreed ==
    ASSUME KInv, KInv', QuotaExact, NEW k \in Tasks, NEW h0 \in Hosts,
           TaskHolds(k) = h0, TaskHolds(k)' = NoHost,
           QuotaFreed(h0, task[k].vm),
           \A x \in Vms : domain_host'[x] = domain_host[x],
           \A x \in Tasks \ {k} : SameTask(x),
           \A x \in Requests : SameRequest(x)
    PROVE  QuotaExact'
<1>1. ASSUME NEW h \in Hosts, NEW size \in {Vcpu, Mem}
      PROVE  /\ h = h0 => size[task[k].vm] \in Nat
             /\ ShareChange(Nobody, k, Nobody, h, size) = - (IF h = h0 THEN size[task[k].vm] ELSE 0)
  BY SharesAreTyped, MigrateAssumption, NobodyIsNone DEF SharesTyped, TaskShare, ShareChange
<1>2. \A h \in Hosts :
         /\ host'[h].vcpu_allocated
               = host[h].vcpu_allocated + ShareChange(Nobody, k, Nobody, h, Vcpu)
         /\ host'[h].mem_allocated
               = host[h].mem_allocated + ShareChange(Nobody, k, Nobody, h, Mem)
  BY <1>1, ColumnsTyped DEF QuotaFreed
<1>3. QED
  BY <1>2, QuotaFollows

\* A request gives back what it held.
LEMMA RequestFreed ==
    ASSUME KInv, KInv', QuotaExact, NEW r \in Requests, NEW h0 \in Hosts,
           RequestHolds(r) = h0, RequestHolds(r)' = NoHost,
           QuotaFreed(h0, request[r].vm),
           \A x \in Vms : domain_host'[x] = domain_host[x],
           \A x \in Tasks : SameTask(x),
           \A x \in Requests \ {r} : SameRequest(x)
    PROVE  QuotaExact'
<1>1. ASSUME NEW h \in Hosts, NEW size \in {Vcpu, Mem}
      PROVE  /\ h = h0 => size[request[r].vm] \in Nat
             /\ ShareChange(Nobody, Nobody, r, h, size)
                   = - (IF h = h0 THEN size[request[r].vm] ELSE 0)
  BY SharesAreTyped, MigrateAssumption, NobodyIsNone DEF SharesTyped, RequestShare, ShareChange
<1>2. \A h \in Hosts :
         /\ host'[h].vcpu_allocated
               = host[h].vcpu_allocated + ShareChange(Nobody, Nobody, r, h, Vcpu)
         /\ host'[h].mem_allocated
               = host[h].mem_allocated + ShareChange(Nobody, Nobody, r, h, Mem)
  BY <1>1, ColumnsTyped DEF QuotaFreed
<1>3. QED
  BY <1>2, QuotaFollows

\* A request claims.
LEMMA RequestClaimed ==
    ASSUME KInv, KInv', QuotaExact, NEW r \in Requests, NEW h0 \in Hosts, NEW v \in Vms,
           RequestHolds(r) = NoHost, RequestHolds(r)' = h0, request'[r].vm = v,
           claim_from_host(h0, Vcpu[v], Mem[v]),
           \A x \in Vms : domain_host'[x] = domain_host[x],
           \A x \in Tasks : SameTask(x),
           \A x \in Requests \ {r} : SameRequest(x)
    PROVE  QuotaExact'
<1>1. ASSUME NEW h \in Hosts, NEW size \in {Vcpu, Mem}
      PROVE  ShareChange(Nobody, Nobody, r, h, size) = IF h = h0 THEN size[v] ELSE 0
  BY MigrateAssumption, NobodyIsNone DEF RequestShare, ShareChange
<1>2. \A h \in Hosts : host'[h] =
         IF h = h0 THEN [vcpu_allocated |-> host[h].vcpu_allocated + Vcpu[v],
                         mem_allocated |-> host[h].mem_allocated + Mem[v],
                         vm_created |-> host[h].vm_created]
         ELSE host[h]
  BY DEF claim_from_host, deduct_delta, KInv, IInv, HostsInv, HostTypeOK
<1>3. \A h \in Hosts :
         /\ host'[h].vcpu_allocated
               = host[h].vcpu_allocated + ShareChange(Nobody, Nobody, r, h, Vcpu)
         /\ host'[h].mem_allocated
               = host[h].mem_allocated + ShareChange(Nobody, Nobody, r, h, Mem)
  <2> SUFFICES ASSUME NEW h \in Hosts
               PROVE  /\ host'[h].vcpu_allocated
                            = host[h].vcpu_allocated + ShareChange(Nobody, Nobody, r, h, Vcpu)
                      /\ host'[h].mem_allocated
                            = host[h].mem_allocated + ShareChange(Nobody, Nobody, r, h, Mem)
    OBVIOUS
  <2>1. /\ ShareChange(Nobody, Nobody, r, h, Vcpu) = IF h = h0 THEN Vcpu[v] ELSE 0
        /\ ShareChange(Nobody, Nobody, r, h, Mem) = IF h = h0 THEN Mem[v] ELSE 0
    BY <1>1
  <2>2. CASE h = h0
    <3>1. host'[h] = [vcpu_allocated |-> host[h].vcpu_allocated + Vcpu[v],
                      mem_allocated |-> host[h].mem_allocated + Mem[v],
                      vm_created |-> host[h].vm_created]
      BY <1>2, <2>2
    <3>2. /\ host'[h].vcpu_allocated = host[h].vcpu_allocated + Vcpu[v]
          /\ host'[h].mem_allocated = host[h].mem_allocated + Mem[v]
      BY <3>1
    <3>3. QED
      BY <2>1, <2>2, <3>2
  <2>3. CASE h # h0
    <3>1. host'[h] = host[h]
      BY <1>2, <2>3
    <3>2. host[h].vcpu_allocated \in Int /\ host[h].mem_allocated \in Int
      BY ColumnsTyped
    <3>3. QED
      BY <2>1, <2>3, <3>1, <3>2
  <2>4. QED
    BY <2>2, <2>3
<1>4. QED
  BY <1>3, QuotaFollows

-----------------------------------------------------------------------------
(* What the tasks of a vm hold before and after a step of its request.        *)

\* A task that ended, or was never made, has no thread and holds nothing.
LEMMA EndedHoldsNothing ==
    ASSUME KInv, NEW t \in Tasks, task[t].status \notin {"wait", "in-process", "some-todo"}
    PROVE  job[t] = NoJob /\ TaskHolds(t) = NoHost
<1>1. job[t] = NoJob
  BY JobHas DEF KInv, JobsKnown
<1>2. QED
  BY <1>1, TaskHoldsIs DEF Holding, NoJob

\* The same in the next state.
LEMMA EndedHoldsNothingNext ==
    KInv' => \A t \in Tasks : task'[t].status \notin {"wait", "in-process", "some-todo"}
                                 => TaskHolds(t)' = NoHost
<1>1. KInv => \A t \in Tasks : task[t].status \notin {"wait", "in-process", "some-todo"}
                                  => TaskHolds(t) = NoHost
  BY EndedHoldsNothing
<1>2. (KInv => \A t \in Tasks : task[t].status \notin {"wait", "in-process", "some-todo"}
                                  => TaskHolds(t) = NoHost)'
  BY <1>1, PTL
<1>3. QED
  BY <1>2

\* A request goes on to one of pcs, on the vm it was made for, or ends.
Steps(r, pcs) ==
    /\ request[r].pc # "idle"
    /\ \A x \in Requests \ {r} : request'[x] = request[x]
    /\ request'[r].pc \in pcs
    /\ \/ request'[r].pc = "idle"
       \/ request'[r].vm = request[r].vm /\ request'[r].dest = request[r].dest

\* A request that ends, or goes on to its next statement, takes such a step.
LEMMA RequestStepsOn ==
    ASSUME KInv, NEW r \in Requests, request[r].pc # "idle"
    PROVE  /\ EndRequest(r) => Steps(r, {"idle"})
           /\ \A pc : GotoRequest(r, pc) => Steps(r, {pc}) /\ request'[r].id = request[r].id
<1>1. request \in [Requests -> RequestState]
  BY DEF KInv, IInv, RequestsInv
<1>2. Idle.pc = "idle"
  BY DEF Idle
<1>3. EndRequest(r) => Steps(r, {"idle"})
  BY <1>1, <1>2 DEF EndRequest, Steps
<1>4. ASSUME NEW pc, GotoRequest(r, pc)
      PROVE  Steps(r, {pc}) /\ request'[r].id = request[r].id
  <2> DEFINE s == [request[r] EXCEPT !.pc = pc]
  <2>1. request' = [request EXCEPT ![r] = s]
    BY <1>4 DEF GotoRequest
  <2>2. s.pc = pc /\ s.vm = request[r].vm /\ s.dest = request[r].dest /\ s.id = request[r].id
    BY <1>1 DEF RequestState
  <2> HIDE DEF s
  <2>3. QED
    BY <1>1, <2>1, <2>2 DEF Steps
<1>5. QED
  BY <1>3, <1>4

\* So does one that goes on with the old tasks.
LEMMA GoOnSteps ==
    ASSUME KInv, NEW r \in Requests, request[r].pc # "idle", NEW s \in RequestState,
           s.vm = request[r].vm, s.dest = request[r].dest, GoOn(r, s)
    PROVE  Steps(r, {"fail_old", "check", "fix_src", "idle"})
<1> DEFINE NextTo(pc, t) == [s EXCEPT !.pc = pc, !.id = t]
<1>1. \A pc, t : /\ NextTo(pc, t).pc = pc
                 /\ NextTo(pc, t).vm = s.vm /\ NextTo(pc, t).dest = s.dest
  BY DEF RequestState
<1>2. \/ \E t : \/ request' = [request EXCEPT ![r] = NextTo("fail_old", t)]
                \/ request' = [request EXCEPT ![r] = NextTo("fix_src", t)]
                \/ request' = [request EXCEPT ![r] = NextTo("check", t)]
      \/ EndRequest(r)
  BY DEF GoOn
<1> HIDE DEF NextTo
<1>3. request \in [Requests -> RequestState]
  BY DEF KInv, IInv, RequestsInv
<1>4. QED
  BY <1>1, <1>2, <1>3, RequestStepsOn DEF Steps

\* A request touches the tasks of its vm only; these hold what their rows say,
\* unless the request has given it back.
LEMMA RequestTouches ==
    ASSUME KInv, KInv', NEW r \in Requests, NEW pcs, Steps(r, pcs), "idle" \notin ReleasePcs,
           \A t \in Tasks : \/ task'[t] = task[t] /\ job'[t] = job[t]
                            \/ task[t].vm = request[r].vm \/ task'[t].vm = request[r].vm
    PROVE  /\ \A x \in Requests \ {r} : SameRequest(x)
           /\ \A t \in Tasks : task[t].vm # request[r].vm /\ task'[t].vm # request[r].vm
                                  => SameTask(t)
           /\ \A t \in Tasks : task[t].vm = request[r].vm =>
                 /\ job[t] = NoJob
                 /\ TaskHolds(t) = IF request[r].pc \in ReleasePcs /\ request[r].id = t
                                   THEN NoHost ELSE Holding(NoJob, task[t])
           /\ \A t \in Tasks : task'[t].vm = request[r].vm =>
                 TaskHolds(t)' = IF request'[r].pc \in ReleasePcs /\ request'[r].id = t
                                 THEN NoHost ELSE Holding(job'[t], task'[t])
<1> DEFINE v == request[r].vm
           Releases(s, t) == s.pc \in ReleasePcs /\ s.id = t
<1>1. /\ \A x \in Requests \ {r} : request'[x] = request[x]
      /\ request'[r].pc = "idle" \/ request'[r].vm = v
      /\ request[r].pc # "idle"
  BY DEF Steps
<1>2. /\ request[r].pc \in ReleasePcs => task[request[r].id].vm = v
      /\ request'[r].pc \in ReleasePcs => task'[request'[r].id].vm = v
  BY <1>1, ReleasedBy, ReleasedByNext
<1>3. \A x \in Requests \ {r} : SameRequest(x)
  BY <1>1 DEF SameRequest, RequestHolds, HoldsClaim
<1>4. ASSUME NEW t \in Tasks, task[t].vm # v, task'[t].vm # v
      PROVE  SameTask(t)
  BY <1>1, <1>2, <1>4, TaskHoldsIs, TaskHoldsIsNext DEF Released, SameTask
<1>5. ASSUME NEW t \in Tasks, task[t].vm = v
      PROVE  /\ job[t] = NoJob
             /\ TaskHolds(t) = IF Releases(request[r], t)
                               THEN NoHost ELSE Holding(NoJob, task[t])
  <2>1. job[t] = NoJob
    BY <1>1, <1>5 DEF KInv, ApartInv, JobsKnown
  <2>2. Released(t) <=> Releases(request[r], t)
    <3>1. ASSUME NEW x \in Requests, request[x].pc \in ReleasePcs, request[x].id = t
          PROVE  x = r
      BY <1>5, <3>1, ReleasedBy DEF KInv, ApartInv
    <3>2. QED
      BY <3>1 DEF Released
  <2>3. QED
    BY <2>1, <2>2, TaskHoldsIs
<1>6. ASSUME NEW t \in Tasks, task'[t].vm = v
      PROVE  TaskHolds(t)' = IF Releases(request'[r], t)
                             THEN NoHost ELSE Holding(job'[t], task'[t])
  <2>1. Released(t)' <=> Releases(request'[r], t)
    <3>1. ASSUME NEW x \in Requests, request'[x].pc \in ReleasePcs, request'[x].id = t
          PROVE  x = r
      BY <1>1, <1>6, <3>1, ReleasedByNext DEF KInv, ApartInv
    <3>2. QED
      BY <3>1 DEF Released
  <2>2. QED
    BY <2>1, TaskHoldsIsNext
<1>7. QED
  BY <1>3, <1>4, <1>5, <1>6

\* A request that only goes on leaves every task what it holds, except one
\* that it is about to note as released.
LEMMA RequestLeavesTasks ==
    ASSUME KInv, KInv', NEW r \in Requests, NEW pcs, Steps(r, pcs),
           request[r].pc \notin ReleasePcs, UNCHANGED <<task, job>>
    PROVE  /\ \A x \in Requests \ {r} : SameRequest(x)
           /\ \A t \in Tasks : \/ request'[r].pc \in ReleasePcs /\ request'[r].id = t
                               \/ SameTask(t)
           /\ \A t \in Tasks : /\ request'[r].pc \in ReleasePcs /\ request'[r].id = t
                               /\ task[t].vm = request[r].vm
                               => /\ TaskHolds(t) = Holding(NoJob, task[t])
                                  /\ TaskHolds(t)' = NoHost
<1>1. "idle" \notin ReleasePcs
  BY DEF ReleasePcs
<1>2. /\ \A x \in Requests \ {r} : SameRequest(x)
      /\ \A t \in Tasks : task[t].vm # request[r].vm => SameTask(t)
      /\ \A t \in Tasks : task[t].vm = request[r].vm =>
            /\ job[t] = NoJob
            /\ TaskHolds(t) = Holding(NoJob, task[t])
            /\ TaskHolds(t)' = IF request'[r].pc \in ReleasePcs /\ request'[r].id = t
                               THEN NoHost ELSE Holding(job[t], task[t])
  BY <1>1, RequestTouches
<1>3. ASSUME NEW t \in Tasks, ~(request'[r].pc \in ReleasePcs /\ request'[r].id = t)
      PROVE  SameTask(t)
  BY <1>2, <1>3 DEF SameTask
<1>4. QED
  BY <1>2, <1>3

\* A request that goes on, and neither takes nor gives.
LEMMA RequestGoesOnExact ==
    ASSUME KInv, KInv', QuotaExact, NEW r \in Requests, NEW pcs, Steps(r, pcs),
           request[r].pc \notin ReleasePcs, pcs \cap ReleasePcs = {},
           request[r].pc \in {"insert", "undo_claim"} <=> request'[r].pc \in {"insert", "undo_claim"},
           UNCHANGED <<host, domain_host, task, job>>
    PROVE  QuotaExact'
<1>1. /\ \A x \in Requests \ {r} : SameRequest(x)
      /\ \A t \in Tasks : SameTask(t)
  BY RequestLeavesTasks DEF Steps
<1>2. SameRequest(r)
  BY MigrateAssumption DEF Steps, SameRequest, RequestHolds, HoldsClaim
<1>3. QED
  BY <1>1, <1>2, QuotaKept DEF SameQuota

\* What a request knows that has an earlier task at hand.
LEMMA FailingHas ==
    ASSUME KInv, NEW r \in Requests, request[r].pc \in FailPcs
    PROVE  LET q == request[r]
           IN  /\ q \in RequestState /\ q.id \in Tasks
               /\ task[q.id] \in TaskRow /\ Placed(task[q.id])
               /\ task[q.id].vm = q.vm /\ task[q.id].status = "wait"
               /\ q.pc = "fail_old" => OldTask(r) = task[q.id]
<1>1. request[r].pc # "idle" /\ request[r].pc \in CleanUpPcs
  BY DEF FailPcs, CleanUpPcs
<1>2. /\ request[r] \in RequestState /\ request[r].id \in Tasks
      /\ RequestKnown(request[r], task[request[r].id], vm_host[request[r].vm],
                      domain_host[request[r].vm])
  BY <1>1, RequestHas
<1>3. /\ task[request[r].id].vm = request[r].vm /\ task[request[r].id].status = "wait"
      /\ request[r].pc = "fail_old" => OldTask(r) = task[request[r].id]
  BY <1>2 DEF RequestKnown, OldTask
<1>4. task[request[r].id] \in TaskRow /\ Placed(task[request[r].id])
  BY <1>2, <1>3 DEF KInv, IInv, TasksInv, Pending
<1>5. QED
  BY <1>2, <1>3, <1>4

\* A request that notes on its task that it gave back what the task held.
LEMMA RequestNotes ==
    ASSUME KInv, KInv', QuotaExact, NEW r \in Requests, NEW pcs, Steps(r, pcs),
           request[r].pc \in ReleasePcs \cup {"fix_done"},
           pcs \cap (ReleasePcs \cup {"insert", "undo_claim"}) = {},
           NEW k \in Tasks, k = request[r].id, task[k].vm = request[r].vm,
           TaskHolds(k) = NoHost, Holding(NoJob, task'[k]) = NoHost,
           \A t \in Tasks \ {k} : task'[t] = task[t],
           task'[k].vm \in {request[r].vm, NoVm},
           UNCHANGED <<host, domain_host, job>>
    PROVE  QuotaExact'
<1>1. "idle" \notin ReleasePcs
  BY DEF ReleasePcs
<1>2. request'[r].pc \notin ReleasePcs \cup {"insert", "undo_claim"}
  BY DEF Steps
<1>3. request[r].pc \notin {"insert", "undo_claim"}
  BY DEF ReleasePcs
<1>4. /\ \A x \in Requests \ {r} : SameRequest(x)
      /\ \A t \in Tasks : task[t].vm # request[r].vm /\ task'[t].vm # request[r].vm
                             => SameTask(t)
      /\ \A t \in Tasks : task[t].vm = request[r].vm =>
            /\ job[t] = NoJob
            /\ TaskHolds(t) = IF request[r].pc \in ReleasePcs /\ request[r].id = t
                              THEN NoHost ELSE Holding(NoJob, task[t])
      /\ \A t \in Tasks : task'[t].vm = request[r].vm =>
            TaskHolds(t)' = Holding(job[t], task'[t])
  BY <1>1, <1>2, RequestTouches
<1>5. \A t \in Tasks \ {k} : SameTask(t)
  BY <1>4 DEF SameTask
<1>6. SameTask(k)
  <2>1. CASE task'[k].vm = request[r].vm
    BY <1>4, <2>1, MigrateAssumption DEF SameTask
  <2>2. CASE task'[k].vm # request[r].vm
    BY <1>4, TaskHoldsIsNext, MigrateAssumption DEF SameTask
  <2>3. QED
    BY <2>1, <2>2
<1>7. SameRequest(r)
  BY <1>2, <1>3, MigrateAssumption DEF SameRequest, RequestHolds, HoldsClaim
<1>8. QED
  BY <1>4, <1>5, <1>6, <1>7, QuotaKept DEF SameQuota

\* The old tasks.
LEMMA OldTasksExact ==
    ASSUME KInv, KInv', QuotaExact, NEW r \in Requests,
           CheckOld(r) \/ LoadOld(r) \/ FailOld(r) \/ FailOldSave(r)
    PROVE  QuotaExact'
<1> DEFINE q == request[r]
           k == q.id
<1>a. q.pc \in {"check_old", "load_old", "fail_old", "fail_old_save"}
  BY DEF CheckOld, LoadOld, FailOld, FailOldSave, AtRequest
<1>b. q.pc # "idle" /\ q \in RequestState
  BY <1>a, RequestHas
<1>c. /\ \A pc \in ReleasePcs : pc \notin {"check_old", "load_old", "fail_old", "check", "fix_src", "idle"}
      /\ "fail_old_save" \in ReleasePcs
  BY DEF ReleasePcs
<1>1. CASE CheckOld(r)
  <2>1. q.pc = "check_old" /\ UNCHANGED <<host, domain_host, task, job>>
    BY <1>1 DEF CheckOld, AtRequest
  <2>2. Steps(r, {"idle"}) \/ Steps(r, {"load_old"})
    BY <1>1, <1>b, RequestStepsOn DEF CheckOld
  <2>3. Steps(r, {"idle", "load_old"})
    BY <2>2 DEF Steps
  <2>4. {"idle", "load_old"} \cap ReleasePcs = {} /\ request'[r].pc \in {"idle", "load_old"}
    BY <1>c, <2>3 DEF Steps
  <2>5. QED
    BY <1>c, <2>1, <2>3, <2>4, RequestGoesOnExact
<1>2. CASE LoadOld(r)
  <2> DEFINE loaded == [t \in Tasks |->
                          IF task[t].vm = q.vm /\ task[t].status \in {"some-todo", "wait"}
                          THEN task[t] ELSE NoTask]
             s == [q EXCEPT !.loaded = loaded, !.seen = vm_host[q.vm]]
             pcs == {"fail_old", "check", "fix_src", "idle"}
  <2>1. q.pc = "load_old" /\ UNCHANGED <<host, domain_host, task, job>> /\ GoOn(r, s)
    BY <1>2 DEF LoadOld, AtRequest
  <2>2. s \in RequestState /\ s.vm = q.vm /\ s.dest = q.dest
    <3>1. loaded \in [Tasks -> TaskRow]
      BY NothingTyped DEF KInv, IInv, TasksInv
    <3>2. vm_host[q.vm] \in Hosts
      BY <1>b, RequestHas DEF KInv, IInv, HostOfVmsInv
    <3> HIDE DEF loaded
    <3>3. QED
      BY <1>b, <3>1, <3>2 DEF RequestState
  <2> HIDE DEF s
  <2>3. Steps(r, pcs)
    BY <1>b, <2>1, <2>2, GoOnSteps
  <2>4. pcs \cap ReleasePcs = {} /\ request'[r].pc \in pcs
    BY <1>c, <2>3 DEF Steps
  <2>5. QED
    BY <1>c, <2>1, <2>3, <2>4, RequestGoesOnExact
<1>3. CASE FailOld(r)
  <2>1. q.pc = "fail_old" /\ UNCHANGED <<domain_host, task, job>>
    BY <1>3 DEF FailOld, AtRequest
  <2>2. /\ k \in Tasks /\ task[k].vm = q.vm /\ task[k].status = "wait" /\ Placed(task[k])
        /\ OldTask(r) = task[k]
    BY <2>1, FailingHas DEF FailPcs
  <2>3. Steps(r, {"fail_old_save"}) /\ request'[r].id = k
    <3> DEFINE claim == q.loaded[k].dst_is_claim /\ ~can_free_vm(OldTask(r).dst, OldTask(r).vm)
               s == [q EXCEPT !.pc = "fail_old_save", !.loaded[k].dst_is_claim = claim]
    <3>1. request' = [request EXCEPT ![r] = s]
      BY <1>3 DEF FailOld
    <3> HIDE DEF claim
    <3>2. s.pc = "fail_old_save" /\ s.id = k /\ s.vm = q.vm /\ s.dest = q.dest
      BY <1>b DEF RequestState
    <3> HIDE DEF s
    <3>3. request \in [Requests -> RequestState]
      BY DEF KInv, IInv, RequestsInv
    <3>4. QED
      BY <1>b, <3>1, <3>2, <3>3 DEF Steps
  <2>4. request'[r].pc = "fail_old_save"
    BY <2>3 DEF Steps
  <2>5. PICK t \in Tasks : t = k
    BY <2>2
  <2>6. /\ \A x \in Requests \ {r} : SameRequest(x)
        /\ \A u \in Tasks \ {t} : SameTask(u)
        /\ TaskHolds(t) = Holding(NoJob, task[t])
        /\ TaskHolds(t)' = NoHost
    BY <1>c, <2>1, <2>2, <2>3, <2>4, <2>5, RequestLeavesTasks
  <2>7. TaskHolds(t) = task[t].dst
    BY <2>2, <2>5, <2>6 DEF Holding, NoJob, MovedPcs
  <2>8. QuotaFreed(task[t].dst, task[t].vm)
    BY <1>3, <2>2, <2>5, FreeVmFrees DEF FailOld, Placed, KInv, IInv
  <2>9. SameRequest(r)
    BY <2>1, <2>4, MigrateAssumption DEF SameRequest, RequestHolds, HoldsClaim
  <2>10. /\ task[t].dst \in Hosts
         /\ \A x \in Vms : domain_host'[x] = domain_host[x]
         /\ \A x \in Requests : SameRequest(x)
    BY <2>1, <2>2, <2>5, <2>6, <2>9 DEF Placed
  <2>11. QED
    BY <2>6, <2>7, <2>8, <2>10, TaskFreed
<1>4. CASE FailOldSave(r)
  <2> DEFINE s == [q EXCEPT !.loaded[k] = NoTask]
             pcs == {"fail_old", "check", "fix_src", "idle"}
  <2>1. q.pc = "fail_old_save" /\ UNCHANGED <<host, domain_host, job>>
    BY <1>4 DEF FailOldSave, AtRequest
  <2>2. /\ k \in Tasks /\ task[k].vm = q.vm /\ task[k].status = "wait" /\ Placed(task[k])
    BY <2>1, FailingHas DEF FailPcs
  <2>3. SaveFailed(k, OldTask(r)) /\ GoOn(r, s)
    BY <1>4, <2>2 DEF FailOldSave
  <2>4. s \in RequestState /\ s.vm = q.vm /\ s.dest = q.dest
    BY <1>b, NothingTyped DEF RequestState
  <2> HIDE DEF s
  <2>5. Steps(r, pcs)
    BY <1>b, <2>3, <2>4, GoOnSteps
  <2>6. task'[k].status = "failed" /\ task'[k].vm = q.vm /\ \A t \in Tasks \ {k} : task'[t] = task[t]
    <3>1. task \in [Tasks -> TaskRow]
      BY DEF KInv, IInv, TasksInv
    <3>2. task[k] \in TaskRow
      BY <2>2, <3>1
    <3>3. task' = [task EXCEPT ![k] = [task[k] EXCEPT !.status = "failed", !.content = "problem",
                                         !.dst_is_claim = OldTask(r).dst_is_claim]]
      BY <2>3, <3>1 DEF SaveFailed
    <3>4. task'[k] = [task[k] EXCEPT !.status = "failed", !.content = "problem",
                        !.dst_is_claim = OldTask(r).dst_is_claim]
      BY <2>2, <3>1, <3>3
    <3>5. task'[k].status = "failed" /\ task'[k].vm = task[k].vm
      BY <3>2, <3>4 DEF TaskRow
    <3>6. \A t \in Tasks \ {k} : task'[t] = task[t]
      BY <3>1, <3>3
    <3>7. QED
      BY <2>2, <3>5, <3>6
  <2>7. Holding(NoJob, task'[k]) = NoHost
    BY <2>6 DEF Holding, NoJob
  <2>8. TaskHolds(k) = NoHost
    BY <1>c, <2>1, <2>2, TaskHoldsIs DEF Released
  <2>9. pcs \cap (ReleasePcs \cup {"insert", "undo_claim"}) = {}
    BY <1>c
  <2>10. QED
    BY <1>c, <2>1, <2>2, <2>5, <2>6, <2>7, <2>8, <2>9, RequestNotes
<1>5. QED
  BY <1>1, <1>2, <1>3, <1>4

\* What was left to do.
LEMMA SomeTodoExact ==
    ASSUME KInv, KInv', QuotaExact, NEW r \in Requests,
           FixSrc(r) \/ FixDst(r) \/ FixHost(r) \/ FixFree(r) \/ FixSave(r) \/ FixDone(r)
    PROVE  QuotaExact'
<1> DEFINE q == request[r]
           k == q.id
           row == task[k]
           pcs == {"fix_dst", "fix_host", "fix_free", "fix_done", "check", "idle"}
<1>a. q.pc \in FixPcs /\ q.pc # "idle"
  BY DEF FixSrc, FixDst, FixHost, FixFree, FixSave, FixDone, AtRequest, FixPcs
<1>b. /\ q \in RequestState /\ q.vm \in Vms /\ k \in Tasks
      /\ RequestKnown(q, row, vm_host[q.vm], domain_host[q.vm])
      /\ row \in TaskRow /\ Placed(row) /\ Settling(row)
      /\ row.vm = q.vm /\ row.status = "some-todo"
  BY <1>a, SomeTodoHas
<1>c. q.pc # "fix_save" => OldTask(r) = row /\ q.pc \notin ReleasePcs
  BY <1>a, <1>b DEF RequestKnown, FixPcs, OldTask, ReleasePcs
<1>d. pcs \cap (ReleasePcs \cup {"insert", "undo_claim"}) = {} /\ "fix_save" \in ReleasePcs
  BY DEF ReleasePcs
<1>e. q.pc \notin {"insert", "undo_claim"}
  BY <1>a DEF FixPcs
<1>f. /\ EndRequest(r) => Steps(r, pcs)
      /\ \A pc \in pcs : GotoRequest(r, pc) => Steps(r, pcs)
  BY <1>a, RequestStepsOn DEF Steps
<1>g. ASSUME q.pc # "fix_save", Steps(r, pcs), UNCHANGED <<host, domain_host, task, job>>
      PROVE  QuotaExact'
  BY <1>g, <1>c, <1>d, <1>e, RequestGoesOnExact DEF Steps
<1>1. CASE FixSrc(r) \/ FixDst(r) \/ FixHost(r)
  BY <1>f, <1>g, <1>1 DEF FixSrc, FixDst, FixHost, AtRequest
<1>2. CASE FixFree(r) /\ row.src_is_free
  BY <1>c, <1>f, <1>g, <1>2 DEF FixFree, AtRequest
<1>3. CASE FixFree(r) /\ ~row.src_is_free
  <2>1. q.pc = "fix_free" /\ UNCHANGED <<domain_host, task, job>> /\ OldTask(r) = row
    BY <1>3, <1>c DEF FixFree, AtRequest
  <2>2. can_free_vm(row.src, row.vm)
    BY <1>b, CanFree DEF KInv, IInv, Placed
  <2>3. Steps(r, {"fix_save"}) /\ request'[r].id = k
    <3> DEFINE s == [q EXCEPT !.pc = "fix_save", !.loaded[k].src_is_free = TRUE]
    <3>1. request' = [request EXCEPT ![r] = s]
      BY <1>3, <2>1, <2>2 DEF FixFree
    <3>2. s.pc = "fix_save" /\ s.id = k /\ s.vm = q.vm /\ s.dest = q.dest
      BY <1>b DEF RequestState
    <3> HIDE DEF s
    <3>3. request \in [Requests -> RequestState]
      BY DEF KInv, IInv, RequestsInv
    <3>4. QED
      BY <1>a, <3>1, <3>2, <3>3 DEF Steps
  <2>4. request'[r].pc = "fix_save"
    BY <2>3 DEF Steps
  <2>5. PICK t \in Tasks : t = k
    BY <1>b
  <2>6. /\ \A x \in Requests \ {r} : SameRequest(x)
        /\ \A u \in Tasks \ {t} : SameTask(u)
        /\ TaskHolds(t) = Holding(NoJob, task[t])
        /\ TaskHolds(t)' = NoHost
    BY <1>b, <1>c, <1>d, <2>1, <2>3, <2>4, <2>5, RequestLeavesTasks
  <2>7. TaskHolds(t) = task[t].src
    BY <1>b, <1>3, <2>5, <2>6 DEF Holding, NoJob
  <2>8. QuotaFreed(task[t].src, task[t].vm)
    BY <1>b, <1>3, <2>1, <2>5, FreeVmFrees DEF FixFree, Placed, KInv, IInv
  <2>9. SameRequest(r)
    BY <1>e, <2>4, MigrateAssumption DEF SameRequest, RequestHolds, HoldsClaim
  <2>10. /\ task[t].src \in Hosts
         /\ \A x \in Vms : domain_host'[x] = domain_host[x]
         /\ \A x \in Requests : SameRequest(x)
    BY <1>b, <2>1, <2>5, <2>6, <2>9 DEF Placed
  <2>11. QED
    BY <2>6, <2>7, <2>8, <2>10, TaskFreed
<1>4. CASE FixSave(r) \/ FixDone(r)
  <2>1. /\ q.pc \in {"fix_save", "fix_done"} /\ UNCHANGED <<host, domain_host, job>>
        /\ q.pc = "fix_save" <=> FixSave(r)
    BY <1>4 DEF FixSave, FixDone, AtRequest
  <2>2. Steps(r, pcs)
    BY <1>4, <1>f DEF FixSave, FixDone
  <2>3. TaskHolds(k) = NoHost
    <3>1. CASE q.pc = "fix_save"
      BY <1>b, <1>d, <3>1, TaskHoldsIs DEF Released
    <3>2. CASE q.pc = "fix_done"
      BY <1>a, <1>b, <3>2, TaskHoldsIs DEF RequestKnown, KInv, ApartInv, JobsKnown, Holding, NoJob
    <3>3. QED
      BY <2>1, <3>1, <3>2
  <2>4. /\ Holding(NoJob, task'[k]) = NoHost /\ task'[k].vm = q.vm
        /\ \A t \in Tasks \ {k} : task'[t] = task[t]
    <3>1. CASE q.pc = "fix_save"
      BY <1>b, <2>1, <3>1 DEF RequestKnown, OldTask, FixSave, KInv, IInv, TasksInv, TaskRow, Holding, NoJob
    <3>2. CASE q.pc = "fix_done"
      BY <1>b, <1>c, <1>4, <2>1, <3>2 DEF FixDone, Settling, KInv, IInv, TasksInv, TaskRow, Holding, NoJob
    <3>3. QED
      BY <2>1, <3>1, <3>2
  <2>5. q.pc \in ReleasePcs \cup {"fix_done"}
    BY <1>d, <2>1
  <2>6. QED
    BY <1>b, <1>d, <2>1, <2>2, <2>3, <2>4, <2>5, RequestNotes
<1>5. QED
  BY <1>1, <1>2, <1>3, <1>4

\* What a request knows that has a task of its own.
LEMMA OwnTaskHas ==
    ASSUME KInv, NEW r \in Requests, request[r].pc \in OwnTaskPcs
    PROVE  LET q == request[r]
           IN  /\ q.id \in Tasks /\ task[q.id].vm = q.vm /\ task[q.id].status = "wait"
               /\ task[q.id].dst = q.dest
<1>1. request[r].pc # "idle"
  BY DEF OwnTaskPcs
<1>2. /\ request[r].id \in Tasks
      /\ RequestKnown(request[r], task[request[r].id], vm_host[request[r].vm],
                      domain_host[request[r].vm])
  BY <1>1, RequestHas
<1>3. QED
  BY <1>2 DEF RequestKnown

\* The claim of a request becomes that of its task.
LEMMA InsertExact ==
    ASSUME KInv, KInv', QuotaExact, NEW r \in Requests, request[r].pc = "insert",
           NEW t \in Tasks, task[t].status = "none",
           task' = [task EXCEPT ![t] =
              [NoTask EXCEPT !.status = "wait", !.vm = request[r].vm, !.src = request[r].vm_host,
                             !.dst = request[r].dest, !.dst_is_claim = TRUE]],
           request' = [request EXCEPT ![r].pc = "submit", ![r].id = t],
           UNCHANGED <<host, domain_host, job>>
    PROVE  QuotaExact'
<1> DEFINE q == request[r]
           row == [NoTask EXCEPT !.status = "wait", !.vm = q.vm, !.src = q.vm_host,
                                 !.dst = q.dest, !.dst_is_claim = TRUE]
           s == [q EXCEPT !.pc = "submit", !.id = t]
<1>1. q \in RequestState /\ q.vm \in Vms /\ q.dest \in Hosts /\ q.pc # "idle"
  BY RequestHas
<1>2. task' = [task EXCEPT ![t] = row] /\ request' = [request EXCEPT ![r] = s]
  OBVIOUS
<1>3. row.status = "wait" /\ row.vm = q.vm /\ row.dst = q.dest
  BY DEF NoTask
<1>4. s.pc = "submit" /\ s.vm = q.vm /\ s.dest = q.dest
  BY <1>1 DEF RequestState
<1> HIDE DEF row, s
<1>5. /\ task'[t] = row /\ \A u \in Tasks \ {t} : task'[u] = task[u]
      /\ request'[r] = s
  BY <1>2 DEF KInv, IInv, TasksInv, RequestsInv
<1>6. Steps(r, {"submit"})
  BY <1>1, <1>2, <1>4, <1>5 DEF Steps, KInv, IInv, RequestsInv
<1>7. "submit" \notin ReleasePcs /\ "idle" \notin ReleasePcs /\ "insert" \notin ReleasePcs
  BY DEF ReleasePcs
<1>8. /\ \A x \in Requests \ {r} : SameRequest(x)
      /\ \A u \in Tasks : task[u].vm # q.vm /\ task'[u].vm # q.vm => SameTask(u)
      /\ \A u \in Tasks : task[u].vm = q.vm =>
            /\ job[u] = NoJob
            /\ TaskHolds(u) = Holding(NoJob, task[u])
      /\ \A u \in Tasks : task'[u].vm = q.vm => TaskHolds(u)' = Holding(job[u], task'[u])
  BY <1>3, <1>4, <1>5, <1>6, <1>7, RequestTouches
<1>9. \A u \in Tasks \ {t} : SameTask(u)
  BY <1>5, <1>8 DEF SameTask
<1>10. TaskHolds(t) = NoHost /\ TaskHolds(t)' = q.dest
  BY <1>3, <1>5, <1>8, EndedHoldsNothing DEF Holding, NoJob, MovedPcs
<1>11. RequestHolds(r) = q.dest /\ RequestHolds(r)' = NoHost
  BY <1>4, <1>5 DEF RequestHolds, HoldsClaim
<1>12. ASSUME NEW h \in Hosts, NEW size \in {Vcpu, Mem}
       PROVE  ShareChange(Nobody, t, r, h, size) = 0
  <2>1. size[q.vm] \in Nat
    BY <1>1, MigrateAssumption
  <2>2. TaskShare(t, h, size) = 0 /\ RequestShare(r, h, size)' = 0
    BY <1>10, <1>11, MigrateAssumption DEF TaskShare, RequestShare
  <2>3. TaskShare(t, h, size)' = IF h = q.dest THEN size[q.vm] ELSE 0
    BY <1>3, <1>5, <1>10 DEF TaskShare
  <2>4. RequestShare(r, h, size) = IF h = q.dest THEN size[q.vm] ELSE 0
    BY <1>11 DEF RequestShare
  <2>5. ShareChange(Nobody, t, r, h, size)
           = 0 + (TaskShare(t, h, size)' - 0) + (0 - RequestShare(r, h, size))
    BY <2>2, NobodyIsNone DEF ShareChange
  <2>6. QED
    BY <2>1, <2>3, <2>4, <2>5
<1>13. \A h \in Hosts :
          /\ host'[h].vcpu_allocated
                = host[h].vcpu_allocated + ShareChange(Nobody, t, r, h, Vcpu)
          /\ host'[h].mem_allocated
                = host[h].mem_allocated + ShareChange(Nobody, t, r, h, Mem)
  BY <1>12, ColumnsTyped
<1>14. QED
  BY <1>8, <1>9, <1>13, QuotaFollows

\* The new task.
LEMMA NewTaskExact ==
    ASSUME KInv, KInv', QuotaExact, NEW r \in Requests,
           \/ Check(r) \/ Claim(r) \/ Insert(r) \/ UndoClaim(r) \/ Submit(r) \/ DeleteTask(r)
    PROVE  QuotaExact'
<1> DEFINE q == request[r]
           k == q.id
           v == q.vm
<1>a. q.pc \in {"check"} \cup ClaimPcs /\ q.pc # "idle"
  BY DEF Check, Claim, Insert, UndoClaim, Submit, DeleteTask, AtRequest, ClaimPcs
<1>b. q \in RequestState /\ v \in Vms /\ q.dest \in Hosts
  BY <1>a, RequestHas
<1>c. "delete_task" \in ReleasePcs /\ \A pc \in ReleasePcs \ {"delete_task"} :
         pc \notin {"check", "claim", "insert", "undo_claim", "submit", "undo_submit", "idle"}
  BY DEF ReleasePcs
<1>d. /\ EndRequest(r) => Steps(r, {"idle"})
      /\ \A pc : GotoRequest(r, pc) => Steps(r, {pc}) /\ request'[r].id = k
  BY <1>a, RequestStepsOn
<1>e. /\ request'[r].pc \in {"idle", "claim", "submit", "undo_submit", "delete_task"}
            => RequestHolds(r)' = NoHost
      /\ q.pc \in {"check", "claim", "submit", "undo_submit", "delete_task"}
            => RequestHolds(r) = NoHost
      /\ q.pc \in {"insert", "undo_claim"} => RequestHolds(r) = q.dest
  BY DEF RequestHolds, HoldsClaim
<1>f. ASSUME NEW pc, pc \notin ReleasePcs, Steps(r, {pc}), q.pc \notin ReleasePcs,
             q.pc \in {"insert", "undo_claim"} <=> pc \in {"insert", "undo_claim"},
             UNCHANGED <<host, domain_host, task, job>>
      PROVE  QuotaExact'
  BY <1>f, RequestGoesOnExact DEF Steps
<1>g. UNCHANGED domain_host => \A x \in Vms : domain_host'[x] = domain_host[x]
  OBVIOUS
<1>1. CASE Check(r)
  BY <1>d, <1>c, <1>f, <1>1 DEF Check, AtRequest
<1>2. CASE Claim(r)
  <2>1. q.pc = "claim" /\ UNCHANGED <<domain_host, task, job>>
    BY <1>2 DEF Claim, AtRequest
  <2>2. CASE EndRequest(r) /\ UNCHANGED host
    BY <1>c, <1>d, <1>f, <2>1, <2>2
  <2>3. CASE claim_from_host(q.dest, Vcpu[v], Mem[v]) /\ GotoRequest(r, "insert")
    <3>1. Steps(r, {"insert"}) /\ request'[r].pc = "insert"
      BY <1>d, <2>3 DEF Steps
    <3>2. request'[r].vm = v /\ request'[r].dest = q.dest
      BY <3>1 DEF Steps
    <3>3. /\ \A x \in Requests \ {r} : SameRequest(x)
          /\ \A x \in Tasks : SameTask(x)
      BY <1>c, <2>1, <3>1, RequestLeavesTasks
    <3>4. RequestHolds(r)' = q.dest
      BY <3>1, <3>2 DEF RequestHolds, HoldsClaim
    <3>5. QED
      BY <1>b, <1>e, <1>g, <2>1, <2>3, <3>2, <3>3, <3>4, RequestClaimed
  <2>4. QED
    BY <1>2, <2>2, <2>3 DEF Claim
<1>3. CASE Insert(r)
  BY <1>c, <1>d, <1>f, <1>3, InsertExact DEF Insert, AtRequest
<1>4. CASE AtRequest(r, "undo_claim") /\ EndRequest(r) /\ UndoClaim(r)
  <2>1. q.pc = "undo_claim" /\ UNCHANGED <<domain_host, task, job>> /\ free_vm(q.dest, v)
    BY <1>4 DEF UndoClaim, AtRequest
  <2>2. QuotaFreed(q.dest, v)
    BY <1>b, <2>1, FreeVmFrees DEF KInv, IInv
  <2>3. Steps(r, {"idle"}) /\ request'[r].pc = "idle"
    BY <1>4, <1>d DEF Steps
  <2>4. /\ \A x \in Requests \ {r} : SameRequest(x)
        /\ \A x \in Tasks : SameTask(x)
    BY <1>c, <2>1, <2>3, RequestLeavesTasks
  <2>5. QED
    BY <1>b, <1>e, <1>g, <2>1, <2>2, <2>3, <2>4, RequestFreed
<1>5. CASE AtRequest(r, "undo_submit") /\ GotoRequest(r, "delete_task") /\ UndoClaim(r)
  <2>1. q.pc = "undo_submit" /\ UNCHANGED <<domain_host, task, job>> /\ free_vm(q.dest, v)
    BY <1>5 DEF UndoClaim, AtRequest
  <2>2. PICK t \in Tasks : t = k /\ task[t].vm = v /\ task[t].status = "wait" /\ task[t].dst = q.dest
    BY <2>1, OwnTaskHas DEF OwnTaskPcs
  <2>3. QuotaFreed(q.dest, task[t].vm)
    BY <1>b, <2>1, <2>2, FreeVmFrees DEF KInv, IInv
  <2>4. Steps(r, {"delete_task"}) /\ request'[r].pc = "delete_task" /\ request'[r].id = t
    BY <1>5, <1>d, <2>2 DEF Steps
  <2>5. /\ \A x \in Requests \ {r} : SameRequest(x)
        /\ \A u \in Tasks \ {t} : SameTask(u)
        /\ TaskHolds(t) = Holding(NoJob, task[t])
        /\ TaskHolds(t)' = NoHost
    BY <1>c, <2>1, <2>2, <2>4, RequestLeavesTasks
  <2>6. TaskHolds(t) = q.dest
    BY <2>2, <2>5 DEF Holding, NoJob, MovedPcs
  <2>7. SameRequest(r)
    BY <1>e, <2>1, <2>4, MigrateAssumption DEF SameRequest
  <2>8. \A x \in Requests : SameRequest(x)
    BY <2>5, <2>7
  <2>9. QED
    BY <1>b, <1>g, <2>1, <2>3, <2>5, <2>6, <2>8, TaskFreed
<1>6. CASE Submit(r)
  <2>1. q.pc = "submit" /\ UNCHANGED <<host, domain_host, task>>
    BY <1>6 DEF Submit, AtRequest
  <2>2. CASE GotoRequest(r, "undo_submit") /\ UNCHANGED job
    BY <1>c, <1>d, <1>f, <2>1, <2>2
  <2>3. CASE GotoJob(k, "queued") /\ EndRequest(r)
    <3>1. k \in Tasks /\ task[k].vm = v /\ task[k].status = "wait"
      BY <2>1, OwnTaskHas DEF OwnTaskPcs
    <3>2. \A t \in Tasks \ {k} : job'[t] = job[t]
      BY <2>3, <3>1 DEF GotoJob, KInv, IInv, JobsInv
    <3>3. job'[k].pc = "queued"
      BY <2>3, <3>1 DEF GotoJob, KInv, IInv, JobsInv, JobState
    <3>4. Steps(r, {"idle"}) /\ request'[r].pc = "idle"
      BY <1>d, <2>3 DEF Steps
    <3>5. "idle" \notin ReleasePcs /\ "submit" \notin ReleasePcs
      BY <1>c
    <3>6. /\ \A x \in Requests \ {r} : SameRequest(x)
          /\ \A t \in Tasks : task[t].vm # v => SameTask(t)
          /\ \A t \in Tasks : task[t].vm = v =>
                /\ job[t] = NoJob
                /\ TaskHolds(t) = Holding(NoJob, task[t])
                /\ TaskHolds(t)' = Holding(job'[t], task[t])
      BY <2>1, <3>1, <3>2, <3>4, <3>5, RequestTouches
    <3>7. Holding(job'[k], task[k]) = Holding(NoJob, task[k])
      BY <3>1, <3>3 DEF Holding, NoJob, MovedPcs
    <3>8. \A t \in Tasks : SameTask(t)
      BY <2>1, <3>2, <3>6, <3>7 DEF SameTask
    <3>9. SameRequest(r)
      BY <1>e, <2>1, <3>4, MigrateAssumption DEF SameRequest
    <3>10. QED
      BY <1>g, <2>1, <3>6, <3>8, <3>9, QuotaKept DEF SameQuota
  <2>4. QED
    BY <1>6, <2>2, <2>3 DEF Submit
<1>7. CASE DeleteTask(r)
  <2>1. q.pc = "delete_task" /\ UNCHANGED <<host, domain_host, job>> /\ Steps(r, {"idle"})
    BY <1>7, <1>d DEF DeleteTask, AtRequest
  <2>2. k \in Tasks /\ task[k].vm = v
    BY <2>1, OwnTaskHas DEF OwnTaskPcs
  <2>3. /\ task'[k] = [NoTask EXCEPT !.status = "deleted"]
        /\ \A t \in Tasks \ {k} : task'[t] = task[t]
    BY <1>7, <2>2 DEF DeleteTask, KInv, IInv, TasksInv
  <2>4. task'[k].status = "deleted" /\ task'[k].vm = NoVm
    BY <2>3 DEF NoTask
  <2>5. Holding(NoJob, task'[k]) = NoHost
    BY <2>4 DEF Holding, NoJob
  <2>6. TaskHolds(k) = NoHost
    BY <1>c, <2>1, <2>2, TaskHoldsIs DEF Released
  <2>7. {"idle"} \cap (ReleasePcs \cup {"insert", "undo_claim"}) = {}
    BY <1>c
  <2>8. QED
    BY <1>c, <2>1, <2>2, <2>3, <2>4, <2>5, <2>6, <2>7, RequestNotes
<1>8. QED
  BY <1>1, <1>2, <1>3, <1>4, <1>5, <1>6, <1>7 DEF UndoClaim

\* A request that begins.
LEMMA StartExact ==
    ASSUME KInv, KInv', QuotaExact, NEW r \in Requests, NEW v \in Vms, NEW dest \in Hosts,
           Start(r, v, dest)
    PROVE  QuotaExact'
<1> DEFINE s == [Idle EXCEPT !.pc = "check_old", !.vm = v, !.vm_host = vm_host[v],
                             !.dest = dest]
<1>1. /\ request[r].pc = "idle" /\ request' = [request EXCEPT ![r] = s]
      /\ UNCHANGED <<host, domain_host, task, job>>
  BY DEF Start, AtRequest
<1>2. s.pc = "check_old"
  BY DEF Idle
<1> HIDE DEF s
<1>3. request'[r] = s /\ \A x \in Requests \ {r} : request'[x] = request[x]
  BY <1>1 DEF KInv, IInv, RequestsInv
<1>4. \A t \in Tasks : Released(t)' <=> Released(t)
  BY <1>1, <1>2, <1>3 DEF Released, ReleasePcs
<1>5. \A t \in Tasks : SameTask(t)
  BY <1>1, <1>4, TaskHoldsIs, TaskHoldsIsNext DEF SameTask
<1>6. \A x \in Requests : SameRequest(x)
  BY <1>1, <1>2, <1>3, MigrateAssumption DEF SameRequest, RequestHolds, HoldsClaim
<1>7. QED
  BY <1>1, <1>5, <1>6, QuotaKept DEF SameQuota

\* Every step of a request keeps the columns exact.
LEMMA RequestExact ==
    ASSUME KInv, KInv', QuotaExact, NEW r \in Requests, RequestStep(r)
    PROVE  QuotaExact'
  BY StartExact, OldTasksExact, SomeTodoExact, NewTaskExact DEF RequestStep

-----------------------------------------------------------------------------
(* What a task holds before and after a step of its thread. *)

\* The thread of a task touches no other; what its task holds follows from the
\* row and the thread.
LEMMA JobTouches ==
    ASSUME KInv, KInv', NEW t \in Tasks, job[t].pc # "none", UNCHANGED request,
           \A u \in Tasks \ {t} : task'[u] = task[u] /\ job'[u] = job[u]
    PROVE  /\ \A r \in Requests : SameRequest(r)
           /\ \A u \in Tasks \ {t} : SameTask(u)
           /\ TaskHolds(t) = Holding(job[t], task[t])
           /\ TaskHolds(t)' = Holding(job'[t], task'[t])
<1>1. \A r \in Requests : SameRequest(r)
  BY DEF SameRequest, RequestHolds, HoldsClaim
<1>2. \A u \in Tasks : Released(u)' <=> Released(u)
  BY DEF Released
<1>3. \A u \in Tasks \ {t} : SameTask(u)
  BY <1>2, TaskHoldsIs, TaskHoldsIsNext DEF SameTask
<1>4. ~Released(t)
  <2> SUFFICES ASSUME NEW r \in Requests, request[r].pc \in ReleasePcs, request[r].id = t
               PROVE  FALSE
    BY DEF Released
  <2>1. task[t].vm = request[r].vm
    BY ReleasedBy
  <2>2. request[r].pc # "idle"
    BY DEF ReleasePcs
  <2>3. QED
    BY <2>1, <2>2, JobHas
<1>5. QED
  BY <1>1, <1>2, <1>3, <1>4, TaskHoldsIs, TaskHoldsIsNext

\* A step of a thread that hands nothing over.
LEMMA JobGoesOnExact ==
    ASSUME KInv, KInv', QuotaExact, NEW t \in Tasks, job[t].pc # "none",
           UNCHANGED <<request, domain_host>>, SameQuota,
           \A u \in Tasks \ {t} : task'[u] = task[u] /\ job'[u] = job[u],
           Holding(job'[t], task'[t]) = Holding(job[t], task[t]), task'[t].vm = task[t].vm
    PROVE  QuotaExact'
<1>1. /\ \A r \in Requests : SameRequest(r)
      /\ \A u \in Tasks \ {t} : SameTask(u)
      /\ TaskHolds(t) = Holding(job[t], task[t])
      /\ TaskHolds(t)' = Holding(job'[t], task'[t])
  BY JobTouches
<1>2. \A u \in Tasks : SameTask(u)
  BY <1>1 DEF SameTask
<1>3. QED
  BY <1>1, <1>2, QuotaKept

\* The domain takes its claim to the target, and the task is left with the one
\* on the source.
LEMMA MoveExact ==
    ASSUME KInv, KInv', QuotaExact, NEW t \in Tasks, job[t].pc = "migrate",
           domain_host' = [domain_host EXCEPT ![task[t].vm] = task[t].dst],
           GotoJob(t, "save_host"), UNCHANGED <<host, task, request>>
    PROVE  QuotaExact'
<1> DEFINE row == task[t]
<1>0. PICK v \in Vms : v = row.vm
  BY JobHas DEF Placed
<1>1. /\ Placed(row) /\ row.status = "in-process" /\ domain_host[v] = row.src
  BY <1>0, JobHas DEF JobKnown
<1>2. /\ job'[t].pc = "save_host" /\ \A u \in Tasks \ {t} : job'[u] = job[u]
  BY DEF GotoJob, KInv, IInv, JobsInv, JobState
<1>3. /\ domain_host'[v] = row.dst
      /\ \A x \in Vms \ {v} : domain_host'[x] = domain_host[x]
  BY <1>0, <1>1 DEF Placed, KInv, IInv, HostOfVmsInv
<1>4. /\ \A r \in Requests : SameRequest(r)
      /\ \A u \in Tasks \ {t} : SameTask(u)
      /\ TaskHolds(t) = Holding(job[t], row)
      /\ TaskHolds(t)' = Holding(job'[t], row)
  BY <1>2, JobTouches
<1>5. TaskHolds(t) = row.dst /\ TaskHolds(t)' = row.src
  BY <1>1, <1>2, <1>4 DEF Holding, MovedPcs
<1>6. ASSUME NEW h \in Hosts, NEW size \in {Vcpu, Mem}
      PROVE  ShareChange(v, t, Nobody, h, size) = 0
  BY <1>0, <1>1, <1>3, <1>5, MigrateAssumption, NobodyIsNone DEF VmShare, TaskShare, ShareChange
<1>7. \A h \in Hosts :
         /\ host'[h].vcpu_allocated
               = host[h].vcpu_allocated + ShareChange(v, t, Nobody, h, Vcpu)
         /\ host'[h].mem_allocated
               = host[h].mem_allocated + ShareChange(v, t, Nobody, h, Mem)
  BY <1>6, ColumnsTyped
<1>8. QED
  BY <1>3, <1>4, <1>7, QuotaFollows

\* The thread gives back what its task holds: on the target where the domain
\* did not move, on the source where it did.
LEMMA ReleaseExact ==
    ASSUME KInv, KInv', QuotaExact, NEW t \in Tasks, NEW h0 \in Hosts,
           \/ job[t].pc = "fail" /\ job'[t].pc = "fail_save" /\ h0 = task[t].dst
           \/ job[t].pc = "free" /\ job'[t].pc = "free_save" /\ h0 = task[t].src,
           free_vm(h0, task[t].vm),
           \A u \in Tasks \ {t} : job'[u] = job[u],
           UNCHANGED <<domain_host, task, request>>
    PROVE  QuotaExact'
<1>1. job[t].pc # "none"
  OBVIOUS
<1>2. /\ task[t].vm \in Vms
      /\ job[t].pc = "fail" => task[t].status = "in-process"
      /\ job[t].pc = "free" => task[t].status = "some-todo"
  BY <1>1, JobHas DEF JobKnown, Placed
<1>3. QuotaFreed(h0, task[t].vm)
  BY <1>2, FreeVmFrees DEF KInv, IInv
<1>4. /\ \A r \in Requests : SameRequest(r)
      /\ \A u \in Tasks \ {t} : SameTask(u)
      /\ TaskHolds(t) = Holding(job[t], task[t])
      /\ TaskHolds(t)' = Holding(job'[t], task'[t])
  BY <1>1, JobTouches
<1>5. Holding(job[t], task[t]) = h0
  BY <1>2 DEF Holding, MovedPcs
<1>6. Holding(job'[t], task[t]) = NoHost
  BY <1>2 DEF Holding, MovedPcs, NoJob
<1>7. \A x \in Vms : domain_host'[x] = domain_host[x]
  OBVIOUS
<1>8. QED
  BY <1>3, <1>4, <1>5, <1>6, <1>7, TaskFreed

\* Every step of a thread keeps the columns exact.
LEMMA JobExact ==
    ASSUME KInv, KInv', QuotaExact, NEW t \in Tasks, JobStep(t)
    PROVE  QuotaExact'
<1> DEFINE row == task[t]
           j == job[t]
<1>a. UNCHANGED request
  BY DEF JobStep, JobStart, JobMigrate, JobFail, JobFailSave, JobSaveHost, JobCount,
         JobTodo, JobUncount, JobFree, JobFreeSave, JobFinish
<1>b. j.pc # "none"
  BY DEF JobStep, JobStart, JobMigrate, JobFail, JobFailSave, JobSaveHost, JobCount,
         JobTodo, JobUncount, JobFree, JobFreeSave, JobFinish, AtJob
<1>c. /\ j \in JobState /\ row \in TaskRow /\ Placed(row)
      /\ JobKnown(j, row, vm_host[row.vm], domain_host[row.vm])
  BY <1>b, JobHas
<1>d. task \in [Tasks -> TaskRow] /\ job \in [Tasks -> JobState]
  BY DEF KInv, IInv, TasksInv, JobsInv
<1>e. \A u \in Tasks \ {t} : task'[u] = task[u] /\ job'[u] = job[u]
  BY <1>d DEF JobStep, JobStart, JobMigrate, JobFail, JobFailSave, JobSaveHost, JobCount,
         JobTodo, JobUncount, JobFree, JobFreeSave, JobFinish, GotoJob, EndJob, SaveFailed
<1>f. /\ EndJob(t) => job'[t] = NoJob
      /\ \A pc : GotoJob(t, pc) => job'[t].pc = pc
  BY <1>c, <1>d DEF EndJob, GotoJob, JobState
<1>g. NoJob.pc = "none"
  BY DEF NoJob
<1>h. JobTask(t) = j.m_task
  BY DEF JobTask
<1>1. CASE JobStart(t)
  <2>1. j.pc = "queued" /\ row.status = "wait" /\ UNCHANGED <<host, domain_host>>
    BY <1>1, <1>c DEF JobStart, AtJob, JobKnown
  <2> DEFINE m_task == [row EXCEPT !.status = "in-process"]
             j2 == [NoJob EXCEPT !.pc = "migrate", !.vm_host = vm_host[m_task.vm],
                                 !.m_task = m_task]
  <2>2. task' = [task EXCEPT ![t] = m_task] /\ job' = [job EXCEPT ![t] = j2]
    BY <1>1, <2>1 DEF JobStart
  <2>3. m_task.status = "in-process" /\ m_task.dst = row.dst /\ m_task.vm = row.vm
    BY <1>c DEF TaskRow
  <2>4. j2.pc = "migrate"
    BY DEF NoJob
  <2> HIDE DEF m_task, j2
  <2>5. task'[t] = m_task /\ job'[t] = j2
    BY <1>d, <2>2
  <2>6. Holding(j, row) = row.dst /\ Holding(j2, m_task) = row.dst
    BY <2>1, <2>3, <2>4 DEF Holding, MovedPcs
  <2>7. QED
    BY <1>a, <1>b, <1>e, <2>1, <2>3, <2>5, <2>6, JobGoesOnExact DEF SameQuota
<1>2. CASE JobMigrate(t)
  <2>1. /\ j.pc = "migrate" /\ JobTask(t) = row /\ row.status = "in-process"
        /\ UNCHANGED <<host, task>>
    BY <1>2, <1>c, <1>h DEF JobMigrate, AtJob, JobKnown
  <2>2. CASE domain_host' = [domain_host EXCEPT ![row.vm] = row.dst] /\ GotoJob(t, "save_host")
    BY <1>a, <2>1, <2>2, MoveExact
  <2>3. CASE GotoJob(t, "fail") /\ UNCHANGED domain_host
    BY <1>f, <1>a, <1>b, <1>e, <2>1, <2>3, JobGoesOnExact DEF Holding, MovedPcs, SameQuota
  <2>4. QED
    BY <1>2, <2>1, <2>2, <2>3 DEF JobMigrate
<1>3. CASE JobFail(t)
  <2>1. /\ j.pc = "fail" /\ JobTask(t) = row /\ UNCHANGED <<task, domain_host>>
    BY <1>3, <1>c, <1>h DEF JobFail, AtJob, JobKnown
  <2>2. job'[t].pc = "fail_save"
    <3> DEFINE claim == j.m_task.dst_is_claim /\ ~can_free_vm(JobTask(t).dst, JobTask(t).vm)
               j2 == [j EXCEPT !.pc = "fail_save", !.m_task.dst_is_claim = claim]
    <3>1. job' = [job EXCEPT ![t] = j2]
      BY <1>3 DEF JobFail
    <3> HIDE DEF claim
    <3>2. j2.pc = "fail_save"
      BY <1>c DEF JobState
    <3> HIDE DEF j2
    <3>3. QED
      BY <1>d, <3>1, <3>2
  <2>3. free_vm(row.dst, row.vm)
    BY <1>3, <2>1 DEF JobFail
  <2>4. QED
    BY <1>a, <1>c, <1>e, <2>1, <2>2, <2>3, ReleaseExact DEF Placed
<1>4. CASE JobFailSave(t)
  <2>1. j.pc = "fail_save" /\ UNCHANGED <<host, domain_host>>
    BY <1>4 DEF JobFailSave, AtJob
  <2>2. task'[t].status = "failed" /\ task'[t].vm = row.vm /\ job'[t] = NoJob
    BY <1>4, <1>c, <1>d, <1>f DEF JobFailSave, SaveFailed, TaskRow
  <2>3. Holding(j, row) = NoHost
    BY <1>g, <2>1 DEF Holding
  <2>4. Holding(job'[t], task'[t]) = NoHost
    BY <1>g, <2>2 DEF Holding
  <2>5. QED
    BY <1>a, <1>b, <1>e, <2>1, <2>2, <2>3, <2>4, JobGoesOnExact DEF SameQuota
<1>5. CASE JobSaveHost(t) \/ JobCount(t) \/ JobUncount(t)
  <2>1. /\ UNCHANGED <<task, domain_host>>
        /\ j.pc \in {"save_host", "count", "uncount"}
    BY <1>5 DEF JobSaveHost, JobCount, JobUncount, AtJob
  <2>2. job'[t].pc \in {"count", "todo", "free"}
    BY <1>5, <1>c, <1>d, <1>f DEF JobSaveHost, JobCount, JobUncount, JobState
  <2>3. Holding(j, row) = row.src /\ Holding(job'[t], row) = row.src
    BY <2>1, <2>2 DEF Holding, MovedPcs
  <2>4. SameQuota
    BY <1>5 DEF JobSaveHost, JobCount, JobUncount, vm_created_num_add_1, vm_created_num_sub_1,
                SameQuota, KInv, IInv, HostsInv, HostTypeOK, HostRow
  <2>5. task'[t] = row
    BY <2>1
  <2>6. QED
    BY <1>a, <1>b, <1>e, <2>1, <2>3, <2>4, <2>5, JobGoesOnExact
<1>6. CASE JobTodo(t)
  <2> DEFINE m_task == [row EXCEPT !.src_undefined = TRUE, !.status = "some-todo"]
  <2>1. j.pc = "todo" /\ JobTask(t) = row /\ UNCHANGED <<host, domain_host>>
    BY <1>6, <1>c, <1>h DEF JobTodo, AtJob, JobKnown
  <2>2. /\ task' = [task EXCEPT ![t] = m_task]
        /\ job' = [job EXCEPT ![t].pc = "uncount", ![t].m_task = m_task]
    BY <1>6, <2>1 DEF JobTodo
  <2>3. m_task.vm = row.vm /\ m_task.src = row.src /\ m_task.status = "some-todo"
    BY <1>c DEF TaskRow
  <2> HIDE DEF m_task
  <2>4. job'[t].pc = "uncount" /\ task'[t] = m_task
    BY <1>c, <1>d, <2>2 DEF JobState
  <2>5. Holding(j, row) = row.src /\ Holding(job'[t], m_task) = row.src
    BY <2>1, <2>3, <2>4 DEF Holding, MovedPcs
  <2>6. QED
    BY <1>a, <1>b, <1>e, <2>1, <2>3, <2>4, <2>5, JobGoesOnExact DEF SameQuota
<1>7. CASE JobFree(t)
  <2>1. /\ j.pc = "free" /\ JobTask(t) = row /\ UNCHANGED <<task, domain_host>>
    BY <1>7, <1>c, <1>h DEF JobFree, AtJob, JobKnown
  <2>2. can_free_vm(row.src, row.vm)
    BY <1>c, CanFree DEF KInv, IInv, Placed
  <2>3. job'[t].pc = "free_save"
    BY <1>7, <1>c, <1>d, <2>1, <2>2 DEF JobFree, JobState
  <2>4. free_vm(row.src, row.vm)
    BY <1>7, <2>1 DEF JobFree
  <2>5. QED
    BY <1>a, <1>c, <1>e, <2>1, <2>3, <2>4, ReleaseExact DEF Placed
<1>8. CASE JobFreeSave(t)
  <2>1. j.pc = "free_save" /\ UNCHANGED <<host, domain_host>>
    BY <1>8 DEF JobFreeSave, AtJob
  <2>2. JobTask(t) = [row EXCEPT !.src_is_free = TRUE] /\ row.status = "some-todo"
    BY <1>c, <1>h, <2>1 DEF JobKnown
  <2>3. task' = [task EXCEPT ![t] = [row EXCEPT !.src_is_free = TRUE]] /\ job'[t].pc = "finish"
    BY <1>8, <1>f, <2>2 DEF JobFreeSave
  <2>4. task'[t].status = "some-todo" /\ task'[t].vm = row.vm
    BY <1>c, <1>d, <2>2, <2>3 DEF TaskRow
  <2>5. Holding(j, row) = NoHost /\ Holding(job'[t], task'[t]) = NoHost
    BY <1>g, <2>1, <2>2, <2>3, <2>4 DEF Holding
  <2>6. QED
    BY <1>a, <1>b, <1>e, <2>1, <2>4, <2>5, JobGoesOnExact DEF SameQuota
<1>9. CASE JobFinish(t)
  <2>1. j.pc = "finish" /\ JobTask(t) = row /\ row.status = "some-todo"
        /\ UNCHANGED <<host, domain_host>>
    BY <1>9, <1>c, <1>h DEF JobFinish, AtJob, JobKnown
  <2>2. task'[t].status = "complete" /\ task'[t].vm = row.vm /\ job'[t] = NoJob
    BY <1>9, <1>c, <1>d, <1>f, <2>1 DEF JobFinish, TaskRow
  <2>3. Holding(j, row) = NoHost
    BY <1>g, <2>1 DEF Holding
  <2>4. Holding(job'[t], task'[t]) = NoHost
    BY <1>g, <2>2 DEF Holding
  <2>5. QED
    BY <1>a, <1>b, <1>e, <2>1, <2>2, <2>3, <2>4, JobGoesOnExact DEF SameQuota
<1>10. QED
  BY <1>1, <1>2, <1>3, <1>4, <1>5, <1>6, <1>7, <1>8, <1>9 DEF JobStep

-----------------------------------------------------------------------------
(* The numbers of vms. *)

One(P) == IF P THEN 1 ELSE 0

\* The thread of t is between the move and the count on the target, or between
\* the move and the end of the count on the source.
Coming(t, h) == job[t].pc \in {"save_host", "count"} /\ task[t].dst = h

LeavingPcs == {"save_host", "count", "todo", "uncount"}

Leaving(t, h) == job[t].pc \in LeavingPcs /\ task[t].src = h

\* A task that a step leaves alone, as far as the count goes.
SameCount(t) ==
    \A h \in Hosts : (Coming(t, h)' <=> Coming(t, h)) /\ (Leaving(t, h)' <=> Leaving(t, h))

\* The count changes with the domain of one vm and the thread of one task.
LEMMA CountChanges ==
    ASSUME NEW v \in Vms, NEW t \in Tasks, NEW h \in Hosts,
           \A x \in Vms \ {v} : domain_host'[x] = domain_host[x],
           \A u \in Tasks \ {t} : SameCount(u)
    PROVE  /\ CountedOn(h) \in Int
           /\ CountedOn(h)' = CountedOn(h)
                 + (One(domain_host'[v] = h) - One(domain_host[v] = h))
                 - (One(Coming(t, h)') - One(Coming(t, h)))
                 + (One(Leaving(t, h)') - One(Leaving(t, h)))
<1> DEFINE A == {x \in Vms : domain_host[x] = h}
           A2 == {x \in Vms : domain_host'[x] = h}
           B == {u \in Tasks : Coming(u, h)}
           B2 == {u \in Tasks : Coming(u, h)'}
           C == {u \in Tasks : Leaving(u, h)}
           C2 == {u \in Tasks : Leaving(u, h)'}
<1>1. IsFiniteSet(Vms) /\ IsFiniteSet(Tasks)
  <2>1. IsFiniteSet(1 .. MaxTasks)
    BY MigrateAssumption, FS_Interval
  <2>2. QED
    BY <2>1, MigrateAssumption DEF Tasks
<1>2. /\ CountedOn(h) = Cardinality(A) - Cardinality(B) + Cardinality(C)
      /\ CountedOn(h)' = Cardinality(A2) - Cardinality(B2) + Cardinality(C2)
  BY DEF CountedOn, Coming, Leaving, LeavingPcs
<1>3. \A u \in Tasks \ {t} : (Coming(u, h)' <=> Coming(u, h)) /\ (Leaving(u, h)' <=> Leaving(u, h))
  BY DEF SameCount
<1>4. /\ A \in SUBSET Vms /\ A2 \in SUBSET Vms
      /\ B \in SUBSET Tasks /\ B2 \in SUBSET Tasks
      /\ C \in SUBSET Tasks /\ C2 \in SUBSET Tasks
  OBVIOUS
<1>5. /\ \A x \in Vms \ {v} : x \in A2 <=> x \in A
      /\ \A u \in Tasks \ {t} : u \in B2 <=> u \in B
      /\ \A u \in Tasks \ {t} : u \in C2 <=> u \in C
  BY <1>3
<1>6. /\ (v \in A <=> domain_host[v] = h) /\ (v \in A2 <=> domain_host'[v] = h)
      /\ (t \in B <=> Coming(t, h)) /\ (t \in B2 <=> Coming(t, h)')
      /\ (t \in C <=> Leaving(t, h)) /\ (t \in C2 <=> Leaving(t, h)')
  OBVIOUS
<1> HIDE DEF A, A2, B, B2, C, C2
<1>7. /\ Cardinality(A) \in Nat
      /\ Cardinality(A2) = Cardinality(A) + (IF v \in A2 THEN 1 ELSE 0) - (IF v \in A THEN 1 ELSE 0)
  BY <1>1, <1>4, <1>5, CardinalityChanges
<1>8. /\ Cardinality(B) \in Nat
      /\ Cardinality(B2) = Cardinality(B) + (IF t \in B2 THEN 1 ELSE 0) - (IF t \in B THEN 1 ELSE 0)
  BY <1>1, <1>4, <1>5, CardinalityChanges
<1>9. /\ Cardinality(C) \in Nat
      /\ Cardinality(C2) = Cardinality(C) + (IF t \in C2 THEN 1 ELSE 0) - (IF t \in C THEN 1 ELSE 0)
  BY <1>1, <1>4, <1>5, CardinalityChanges
<1>10. /\ One(v \in A2) = One(domain_host'[v] = h) /\ One(v \in A) = One(domain_host[v] = h)
       /\ One(t \in B2) = One(Coming(t, h)') /\ One(t \in B) = One(Coming(t, h))
       /\ One(t \in C2) = One(Leaving(t, h)') /\ One(t \in C) = One(Leaving(t, h))
  BY <1>6 DEF One
<1>11. \A P : One(P) \in Int
  BY DEF One
<1>12. /\ Cardinality(A2) = Cardinality(A) + One(v \in A2) - One(v \in A)
       /\ Cardinality(B2) = Cardinality(B) + One(t \in B2) - One(t \in B)
       /\ Cardinality(C2) = Cardinality(C) + One(t \in C2) - One(t \in C)
  BY <1>7, <1>8, <1>9 DEF One
<1>13. QED
  BY <1>2, <1>7, <1>8, <1>9, <1>10, <1>11, <1>12

\* Nothing is counted anew.
LEMMA CountKept ==
    ASSUME CountExact, UNCHANGED domain_host,
           \A h \in Hosts : host'[h].vm_created = host[h].vm_created,
           \A u \in Tasks : SameCount(u)
    PROVE  CountExact'
<1>1. ASSUME NEW h \in Hosts
      PROVE  CountedOn(h)' = CountedOn(h)
  BY DEF SameCount, CountedOn, Coming, Leaving, LeavingPcs
<1>2. QED
  BY <1>1 DEF CountExact

\* Claims and releases leave the count alone.
LEMMA DeltaKeepsCount ==
    ASSUME HostsInv, NEW h0, NEW cpu_delta, NEW mem_delta,
           deduct_delta(h0, cpu_delta, mem_delta) \/ UNCHANGED host
    PROVE  \A h \in Hosts : host'[h].vm_created = host[h].vm_created
  BY DEF deduct_delta, HostsInv, HostTypeOK

\* A request counts no vm: it writes tasks that have no thread.
LEMMA RequestCounts ==
    ASSUME KInv, CountExact, NEW r \in Requests, RequestStep(r)
    PROVE  CountExact'
<1> DEFINE q == request[r]
           k == q.id
<1>a. /\ HostsInv /\ task \in [Tasks -> TaskRow] /\ job \in [Tasks -> JobState]
  BY DEF KInv, IInv, TasksInv, JobsInv
<1>b. UNCHANGED domain_host
  BY DEF RequestStep, Start, CheckOld, LoadOld, FailOld, FailOldSave, FixSrc, FixDst, FixHost,
         FixFree, FixSave, FixDone, Check, Claim, Insert, UndoClaim, Submit, DeleteTask
<1>c. NoJob.pc \notin LeavingPcs /\ "queued" \notin LeavingPcs /\ "none" \notin LeavingPcs
  BY DEF NoJob, LeavingPcs
<1>1. \A h \in Hosts : host'[h].vm_created = host[h].vm_created
  <2>1. CASE FailOld(r) \/ FixFree(r) \/ UndoClaim(r) \/ Claim(r)
    BY <1>a, <2>1, DeltaKeepsCount
       DEF FailOld, FixFree, UndoClaim, Claim, claim_from_host, free_vm, free
  <2>2. CASE \/ \E v \in Vms, dest \in Hosts : Start(r, v, dest)
             \/ CheckOld(r) \/ LoadOld(r) \/ FailOldSave(r) \/ FixSrc(r) \/ FixDst(r)
             \/ FixHost(r) \/ FixSave(r) \/ FixDone(r) \/ Check(r) \/ Insert(r)
             \/ Submit(r) \/ DeleteTask(r)
    BY <2>2 DEF Start, CheckOld, LoadOld, FailOldSave, FixSrc, FixDst, FixHost, FixSave,
                FixDone, Check, Insert, Submit, DeleteTask
  <2>3. QED
    BY <2>1, <2>2 DEF RequestStep
<1>2. \A u \in Tasks : SameCount(u)
  <2>1. ASSUME UNCHANGED <<task, job>>
        PROVE  \A u \in Tasks : SameCount(u)
    BY <2>1 DEF SameCount, Coming, Leaving
  <2>2. ASSUME NEW t \in Tasks, job[t].pc \notin LeavingPcs, job'[t].pc \notin LeavingPcs,
               \A u \in Tasks \ {t} : task'[u] = task[u] /\ job'[u] = job[u]
        PROVE  \A u \in Tasks : SameCount(u)
    BY <2>2 DEF SameCount, Coming, Leaving, LeavingPcs
  <2>3. CASE FailOldSave(r) \/ FixSave(r) \/ FixDone(r) \/ Submit(r) \/ DeleteTask(r)
    <3>1. /\ q.pc \in {"fail_old_save", "fix_save", "fix_done", "submit", "delete_task"}
          /\ q.pc = "submit" <=> Submit(r)
      BY <2>3 DEF FailOldSave, FixSave, FixDone, Submit, DeleteTask, AtRequest
    <3>2. q.pc # "idle" /\ k \in Tasks /\ task[k].vm = q.vm
      BY <3>1, FailingHas, SomeTodoHas, OwnTaskHas DEF FailPcs, FixPcs, OwnTaskPcs
    <3>3. job[k].pc = "none"
      BY <3>2 DEF KInv, ApartInv
    <3>4. \A u \in Tasks \ {k} : task'[u] = task[u] /\ job'[u] = job[u]
      BY <1>a, <2>3 DEF FailOldSave, FixSave, FixDone, Submit, DeleteTask, SaveFailed, GotoJob
    <3>5. job'[k].pc \in {"none", "queued"}
      BY <1>a, <2>3, <3>2, <3>3 DEF Submit, GotoJob, JobState, FailOldSave, FixSave, FixDone, DeleteTask
    <3>6. QED
      BY <1>c, <2>2, <3>2, <3>3, <3>4, <3>5
  <2>4. CASE Insert(r)
    <3>1. UNCHANGED job
      BY <2>4 DEF Insert
    <3>2. ASSUME NEW t \in Tasks, task[t].status = "none", NEW row,
                 task' = [task EXCEPT ![t] = row]
          PROVE  \A u \in Tasks : SameCount(u)
      BY <1>a, <1>c, <2>2, <3>1, <3>2, EndedHoldsNothing
    <3>3. QED
      BY <2>1, <2>4, <3>1, <3>2 DEF Insert
  <2>5. CASE \/ \E v \in Vms, dest \in Hosts : Start(r, v, dest)
             \/ CheckOld(r) \/ LoadOld(r) \/ FailOld(r) \/ FixSrc(r) \/ FixDst(r) \/ FixHost(r)
             \/ FixFree(r) \/ Check(r) \/ Claim(r) \/ UndoClaim(r)
    BY <2>1, <2>5 DEF Start, CheckOld, LoadOld, FailOld, FixSrc, FixDst, FixHost, FixFree,
                      Check, Claim, UndoClaim
  <2>6. QED
    BY <2>3, <2>4, <2>5 DEF RequestStep
<1>3. QED
  BY <1>b, <1>1, <1>2, CountKept

\* A thread counts its vm on the target when the domain is there, and leaves it
\* counted on the source until it takes it off.
LEMMA JobCounts ==
    ASSUME KInv, KInv', CountExact, NEW t \in Tasks, JobStep(t)
    PROVE  CountExact'
<1> DEFINE row == task[t]
           j == job[t]
<1>b. j.pc # "none"
  BY DEF JobStep, JobStart, JobMigrate, JobFail, JobFailSave, JobSaveHost, JobCount,
         JobTodo, JobUncount, JobFree, JobFreeSave, JobFinish, AtJob
<1>c. /\ j \in JobState /\ row \in TaskRow /\ Placed(row)
      /\ JobKnown(j, row, vm_host[row.vm], domain_host[row.vm])
  BY <1>b, JobHas
<1>d. /\ task \in [Tasks -> TaskRow] /\ job \in [Tasks -> JobState] /\ HostsInv
      /\ domain_host \in [Vms -> Hosts]
  BY DEF KInv, IInv, TasksInv, JobsInv, HostOfVmsInv
<1>e. \A u \in Tasks \ {t} : SameCount(u)
  <2>1. \A u \in Tasks \ {t} : task'[u] = task[u] /\ job'[u] = job[u]
    BY <1>d DEF JobStep, JobStart, JobMigrate, JobFail, JobFailSave, JobSaveHost, JobCount,
           JobTodo, JobUncount, JobFree, JobFreeSave, JobFinish, GotoJob, EndJob, SaveFailed
  <2>2. QED
    BY <2>1 DEF SameCount, Coming, Leaving
<1>f. JobTask(t) = j.m_task
  BY DEF JobTask
<1>g. \A pc : GotoJob(t, pc) => job'[t].pc = pc
  BY <1>c, <1>d DEF GotoJob, JobState
<1>h. PICK v \in Vms : v = row.vm
  BY <1>c DEF Placed
<1>i. \A h \in Hosts : host[h].vm_created \in Int
  BY ColumnsTyped
<1>j. \A P : One(P) \in Int
  BY DEF One
<1>1. CASE UNCHANGED domain_host /\ SameCount(t)
           /\ \A h \in Hosts : host'[h].vm_created = host[h].vm_created
  BY <1>1, <1>e, CountKept
<1>2. CASE \/ JobStart(t) \/ JobFail(t) \/ JobFailSave(t) \/ JobSaveHost(t) \/ JobTodo(t)
           \/ JobFree(t) \/ JobFreeSave(t) \/ JobFinish(t)
  <2>1. UNCHANGED domain_host
    BY <1>2 DEF JobStart, JobFail, JobFailSave, JobSaveHost, JobTodo, JobFree, JobFreeSave,
                JobFinish
  <2>2. \A h \in Hosts : host'[h].vm_created = host[h].vm_created
    <3>1. CASE JobFail(t) \/ JobFree(t)
      BY <1>d, <3>1, DeltaKeepsCount DEF JobFail, JobFree, free_vm, free
    <3>2. CASE \/ JobStart(t) \/ JobFailSave(t) \/ JobSaveHost(t) \/ JobTodo(t)
               \/ JobFreeSave(t) \/ JobFinish(t)
      BY <3>2 DEF JobStart, JobFailSave, JobSaveHost, JobTodo, JobFreeSave, JobFinish
    <3>3. QED
      BY <1>2, <3>1, <3>2
  <2>3. SameCount(t)
    <3>1. CASE JobSaveHost(t)
      BY <1>c, <1>d, <1>g, <3>1 DEF JobSaveHost, AtJob, JobState, SameCount, Coming, Leaving, LeavingPcs
    <3>2. CASE JobTodo(t)
      <4>1. j.pc = "todo" /\ JobTask(t) = row
        BY <1>c, <1>f, <3>2 DEF JobTodo, AtJob, JobKnown
      <4>2. job'[t].pc = "uncount"
        BY <1>c, <1>d, <3>2 DEF JobTodo, JobState
      <4>3. task'[t].src = row.src
        BY <1>c, <1>d, <3>2, <4>1 DEF JobTodo, TaskRow
      <4>4. QED
        BY <4>1, <4>2, <4>3 DEF SameCount, Coming, Leaving, LeavingPcs
    <3>3. CASE JobStart(t) \/ JobFail(t) \/ JobFailSave(t) \/ JobFree(t) \/ JobFreeSave(t) \/ JobFinish(t)
      <4>1. j.pc \notin LeavingPcs
        BY <3>3 DEF JobStart, JobFail, JobFailSave, JobFree, JobFreeSave, JobFinish, AtJob, LeavingPcs
      <4>2. job'[t].pc \in {"migrate", "fail_save", "free_save", "finish", "none"}
        <5> DEFINE m_task == [task[t] EXCEPT !.status = "in-process"]
                   j2 == [NoJob EXCEPT !.pc = "migrate", !.vm_host = vm_host[m_task.vm],
                                       !.m_task = m_task]
        <5>1. NoJob.pc = "none" /\ j2.pc = "migrate"
          BY DEF NoJob
        <5>2. CASE JobFail(t)
          BY <1>c, <1>d, <5>2 DEF JobFail, JobState
        <5>3. CASE JobFree(t)
          BY <1>c, <1>d, <5>3 DEF JobFree, JobState
        <5>4. CASE JobStart(t)
          <6>1. job' = [job EXCEPT ![t] = j2] \/ job' = [job EXCEPT ![t] = NoJob]
            BY <5>4 DEF JobStart, EndJob
          <6> HIDE DEF j2
          <6>2. QED
            BY <1>d, <5>1, <6>1
        <5>5. CASE JobFailSave(t) \/ JobFreeSave(t) \/ JobFinish(t)
          BY <1>d, <1>g, <5>1, <5>5 DEF JobFailSave, JobFreeSave, JobFinish, EndJob
        <5>6. QED
          BY <3>3, <5>2, <5>3, <5>4, <5>5
      <4>3. QED
        BY <4>1, <4>2 DEF SameCount, Coming, Leaving, LeavingPcs
    <3>4. QED
      BY <1>2, <3>1, <3>2, <3>3
  <2>4. QED
    BY <1>1, <2>1, <2>2, <2>3
<1>3. CASE JobMigrate(t)
  <2>1. j.pc = "migrate" /\ JobTask(t) = row /\ UNCHANGED <<host, task>>
    BY <1>3, <1>c, <1>f DEF JobMigrate, AtJob, JobKnown
  <2>2. CASE GotoJob(t, "fail") /\ UNCHANGED domain_host
    BY <1>g, <1>1, <2>1, <2>2 DEF SameCount, Coming, Leaving, LeavingPcs
  <2>3. CASE domain_host' = [domain_host EXCEPT ![v] = row.dst] /\ GotoJob(t, "save_host")
    <3>1. /\ domain_host[v] = row.src /\ domain_host'[v] = row.dst
          /\ \A x \in Vms \ {v} : domain_host'[x] = domain_host[x]
      BY <1>c, <1>d, <1>h, <2>1, <2>3 DEF JobKnown
    <3>2. ASSUME NEW h \in Hosts
          PROVE  CountedOn(h)' = CountedOn(h)
      BY <1>g, <1>e, <2>1, <2>3, <3>1, CountChanges DEF Coming, Leaving, LeavingPcs, One
    <3>3. QED
      BY <2>1, <3>2 DEF CountExact
  <2>4. QED
    BY <1>3, <1>h, <2>1, <2>2, <2>3 DEF JobMigrate
<1>4. ASSUME UNCHANGED <<domain_host, task>>
      PROVE  \A h \in Hosts :
                /\ CountedOn(h) \in Int
                /\ CountedOn(h)' = CountedOn(h)
                     - (One(Coming(t, h)') - One(Coming(t, h)))
                     + (One(Leaving(t, h)') - One(Leaving(t, h)))
  <2> SUFFICES ASSUME NEW h \in Hosts
               PROVE  /\ CountedOn(h) \in Int
                      /\ CountedOn(h)' = CountedOn(h)
                           - (One(Coming(t, h)') - One(Coming(t, h)))
                           + (One(Leaving(t, h)') - One(Leaving(t, h)))
    OBVIOUS
  <2>1. /\ CountedOn(h) \in Int
        /\ CountedOn(h)' = CountedOn(h)
             + (One(domain_host'[v] = h) - One(domain_host[v] = h))
             - (One(Coming(t, h)') - One(Coming(t, h)))
             + (One(Leaving(t, h)') - One(Leaving(t, h)))
    BY <1>e, <1>4, CountChanges
  <2>2. One(domain_host'[v] = h) = One(domain_host[v] = h)
    BY <1>4
  <2>3. QED
    BY <1>j, <2>1, <2>2
<1>5. CASE JobCount(t)
  <2>1. j.pc = "count" /\ JobTask(t) = row /\ UNCHANGED <<task, domain_host>> /\ job'[t].pc = "todo"
    BY <1>5, <1>c, <1>f, <1>g DEF JobCount, AtJob, JobKnown
  <2>2. \A h \in Hosts : host'[h].vm_created = host[h].vm_created + One(row.dst = h)
    BY <1>5, <1>d, <1>i, <2>1 DEF JobCount, vm_created_num_add_1, One, HostsInv, HostTypeOK, HostRow
  <2>3. \A h \in Hosts : CountedOn(h) \in Int /\ CountedOn(h)' = CountedOn(h) + One(row.dst = h)
    <3> SUFFICES ASSUME NEW h \in Hosts
                 PROVE  CountedOn(h) \in Int /\ CountedOn(h)' = CountedOn(h) + One(row.dst = h)
      OBVIOUS
    <3>1. /\ ~Coming(t, h)' /\ (Coming(t, h) <=> row.dst = h)
          /\ Leaving(t, h)' <=> Leaving(t, h)
      BY <2>1 DEF Coming, Leaving, LeavingPcs
    <3>2. One(Coming(t, h)') = 0 /\ One(Coming(t, h)) = One(row.dst = h)
          /\ One(Leaving(t, h)') = One(Leaving(t, h))
      BY <3>1 DEF One
    <3>3. QED
      BY <1>4, <1>j, <2>1, <3>2
  <2>4. QED
    BY <2>2, <2>3 DEF CountExact
<1>6. CASE JobUncount(t)
  <2>1. /\ j.pc = "uncount" /\ JobTask(t) = row /\ UNCHANGED <<task, domain_host>>
        /\ job'[t].pc = "free"
    BY <1>6, <1>c, <1>f, <1>g DEF JobUncount, AtJob, JobKnown
  <2>2. \A h \in Hosts : host'[h].vm_created = host[h].vm_created - One(row.src = h)
    BY <1>6, <1>d, <1>i, <2>1 DEF JobUncount, vm_created_num_sub_1, One, HostsInv, HostTypeOK, HostRow
  <2>3. \A h \in Hosts : CountedOn(h) \in Int /\ CountedOn(h)' = CountedOn(h) - One(row.src = h)
    <3> SUFFICES ASSUME NEW h \in Hosts
                 PROVE  CountedOn(h) \in Int /\ CountedOn(h)' = CountedOn(h) - One(row.src = h)
      OBVIOUS
    <3>1. /\ ~Coming(t, h)' /\ ~Coming(t, h)
          /\ ~Leaving(t, h)' /\ (Leaving(t, h) <=> row.src = h)
      BY <2>1 DEF Coming, Leaving, LeavingPcs
    <3>2. /\ One(Coming(t, h)') = 0 /\ One(Coming(t, h)) = 0
          /\ One(Leaving(t, h)') = 0 /\ One(Leaving(t, h)) = One(row.src = h)
      BY <3>1 DEF One
    <3>3. QED
      BY <1>4, <1>j, <2>1, <3>2
  <2>4. QED
    BY <2>2, <2>3 DEF CountExact
<1>7. QED
  BY <1>2, <1>3, <1>5, <1>6 DEF JobStep

-----------------------------------------------------------------------------
(* Processes that die, the start, and the theorem. *)

\* Where a process that dies takes with it what no row says: a claim that is
\* not yet a task's, something given back that is not noted, a domain that
\* moved while its task does not say so, a count not yet adjusted.
UnnotedPcs == {"insert", "undo_claim", "fail_old_save", "fix_save", "delete_task", "fail_save",
               "save_host", "count", "todo", "uncount", "free_save"}

\* A process that dies anywhere else changes nothing of what is held.
LEMMA CrashExact ==
    ASSUME KInv, KInv', QuotaExact, CountExact, CrashPoints \cap UnnotedPcs = {},
           NEW rs \in SUBSET Requests, NEW ts \in SUBSET Tasks, Crash(rs, ts)
    PROVE  QuotaExact' /\ CountExact'
<1>1. /\ \A r \in Requests : request'[r] = IF r \in rs THEN Idle ELSE request[r]
      /\ \A t \in Tasks : job'[t] = IF t \in ts THEN NoJob ELSE job[t]
      /\ \A r \in rs : request[r].pc \in CrashPoints
      /\ \A t \in ts : job[t].pc \in CrashPoints
      /\ UNCHANGED <<host, domain_host, task>>
  BY DEF Crash
<1>2. Idle.pc = "idle" /\ NoJob.pc = "none"
  BY DEF Idle, NoJob
<1>3. /\ \A r \in rs : request[r].pc \notin UnnotedPcs
      /\ \A t \in ts : job[t].pc \notin UnnotedPcs
  BY <1>1
<1>4. \A r \in Requests : SameRequest(r)
  BY <1>1, <1>2, <1>3, MigrateAssumption
     DEF SameRequest, RequestHolds, HoldsClaim, UnnotedPcs
<1>5. \A t \in Tasks : Released(t)' <=> Released(t)
  BY <1>1, <1>2, <1>3 DEF Released, ReleasePcs, UnnotedPcs
<1>6. ASSUME NEW t \in ts, job[t].pc # "none"
      PROVE  Holding(NoJob, task[t]) = Holding(job[t], task[t])
  <2>1. job[t] \in JobState /\ JobKnown(job[t], task[t], vm_host[task[t].vm], domain_host[task[t].vm])
    BY <1>6, JobHas
  <2>2. job[t].pc \in {"queued", "migrate", "fail", "free", "finish"}
    BY <1>3, <1>6, <2>1 DEF JobState, JobPcs, UnnotedPcs
  <2>3. CASE job[t].pc \in {"queued", "migrate", "fail"}
    BY <2>1, <2>3 DEF JobKnown, Holding, NoJob, MovedPcs
  <2>4. CASE job[t].pc = "free"
    BY <2>1, <2>4 DEF JobKnown, Holding, NoJob, MovedPcs
  <2>5. CASE job[t].pc = "finish"
    BY <1>2, <2>1, <2>5 DEF JobKnown, Holding, MovedPcs
  <2>6. QED
    BY <2>2, <2>3, <2>4, <2>5
<1>7. \A t \in Tasks : Holding(job'[t], task[t]) = Holding(job[t], task[t])
  BY <1>1, <1>6 DEF KInv, JobsKnown
<1>8. \A t \in Tasks : SameTask(t)
  BY <1>1, <1>5, <1>7, TaskHoldsIs, TaskHoldsIsNext DEF SameTask
<1>9. QuotaExact'
  BY <1>1, <1>4, <1>8, QuotaKept DEF SameQuota
<1>10. \A t \in Tasks : SameCount(t)
  BY <1>1, <1>2, <1>3 DEF SameCount, Coming, Leaving, LeavingPcs, UnnotedPcs
<1>11. CountExact'
  BY <1>1, <1>10, CountKept
<1>12. QED
  BY <1>9, <1>11

\* A sum of nothing is nothing.
LEMMA TotalOfNone == ASSUME NEW S PROVE Total([x \in S |-> 0]) = 0
<1>1. UNION {{x} \X (1 .. [y \in S |-> 0][x]) : x \in DOMAIN [y \in S |-> 0]} = {}
  OBVIOUS
<1>2. QED
  BY <1>1, FS_EmptySet DEF Total

\* At the start the columns are what the vms on a host have.
LEMMA InitExact == Init => QuotaExact /\ CountExact
<1> SUFFICES ASSUME Init
             PROVE  QuotaExact /\ CountExact
  OBVIOUS
<1>1. /\ KInv
      /\ domain_host = vm_host
      /\ task = [t \in Tasks |-> NoTask] /\ job = [t \in Tasks |-> NoJob]
      /\ request = [r \in Requests |-> Idle]
  BY InitKInv DEF Init
<1>2. Idle.pc = "idle" /\ NoJob.pc = "none" /\ NoTask.status = "none"
  BY DEF Idle, NoJob, NoTask
<1>3. ASSUME NEW h \in Hosts, NEW size \in {Vcpu, Mem}
      PROVE  ClaimedOn(h, size) = Total([v \in Vms |-> IF vm_host[v] = h THEN size[v] ELSE 0])
  <2> DEFINE here == Total([v \in Vms |-> IF vm_host[v] = h THEN size[v] ELSE 0])
  <2>1. \A t \in Tasks : TaskHolds(t) # h
    BY <1>1, <1>2, EndedHoldsNothing, MigrateAssumption
  <2>2. \A r \in Requests : RequestHolds(r) # h
    BY <1>1, <1>2, MigrateAssumption DEF RequestHolds, HoldsClaim
  <2>3. [t \in Tasks |-> IF TaskHolds(t) = h THEN size[task[t].vm] ELSE 0] = [t \in Tasks |-> 0]
    BY <2>1
  <2>4. [r \in Requests |-> IF RequestHolds(r) = h THEN size[request[r].vm] ELSE 0]
           = [r \in Requests |-> 0]
    BY <2>2
  <2>5. ClaimedOn(h, size) = here + 0 + 0
    BY <1>1, <2>3, <2>4, TotalOfNone DEF ClaimedOn
  <2>6. here \in Nat
    BY MigrateAssumption, TotalIsNat
  <2> HIDE DEF here
  <2>7. here + 0 + 0 = here
    BY <2>6
  <2>8. QED
    BY <2>5, <2>7 DEF here
<1>4. QuotaExact
  BY <1>3 DEF QuotaExact, Init
<1>5. ASSUME NEW h \in Hosts
      PROVE  host[h].vm_created = CountedOn(h)
  <2>1. /\ {t \in Tasks : job[t].pc \in {"save_host", "count"} /\ task[t].dst = h} = {}
        /\ {t \in Tasks : /\ job[t].pc \in {"save_host", "count", "todo", "uncount"}
                          /\ task[t].src = h} = {}
    BY <1>1, <1>2
  <2>2. Cardinality({}) = 0
    BY FS_EmptySet
  <2>3. CountedOn(h) = Cardinality({v \in Vms : vm_host[v] = h}) - 0 + 0
    BY <1>1, <2>1, <2>2 DEF CountedOn
  <2>4. host[h].vm_created = Cardinality({v \in Vms : vm_host[v] = h})
    BY DEF Init
  <2>5. host[h].vm_created \in Int
    BY <1>1, ColumnsTyped
  <2>6. QED
    BY <2>3, <2>4, <2>5
<1>6. QED
  BY <1>4, <1>5 DEF CountExact

\* The quota columns are exact throughout a migration, whatever fails and
\* however many processes die, where no request comes for a vm that is worked
\* on and no process dies between two steps of which the second notes what the
\* first did (claim_from_host, live_migrate_vm_task, _do_task_failed and
\* handle_some_todo_migrate_log change the columns and save the task after it).
THEOREM MigrateLedgerIsExact ==
    ASSUME ~MayOverlap, CrashPoints \cap UnnotedPcs = {}
    PROVE  Spec => []MigrateLedger
<1>1. Init => QuotaExact /\ CountExact
  BY InitExact
<1>2. KInv /\ KInv' /\ QuotaExact /\ CountExact /\ [Next]_vars => (QuotaExact /\ CountExact)'
  <2> SUFFICES ASSUME KInv, KInv', QuotaExact, CountExact, [Next]_vars
               PROVE  QuotaExact' /\ CountExact'
    OBVIOUS
  <2>1. ASSUME NEW r \in Requests, RequestStep(r)
        PROVE  QuotaExact' /\ CountExact'
    BY <2>1, RequestExact, RequestCounts
  <2>2. ASSUME NEW t \in Tasks, JobStep(t)
        PROVE  QuotaExact' /\ CountExact'
    BY <2>2, JobExact, JobCounts
  <2>3. ASSUME NEW rs \in SUBSET Requests, NEW ts \in SUBSET Tasks, Crash(rs, ts)
        PROVE  QuotaExact' /\ CountExact'
    BY <2>3, CrashExact
  <2>4. CASE UNCHANGED vars \/ \E t \in Tasks : Age(t)
    <3>1. UNCHANGED <<host, domain_host, task, job, request>>
      BY <2>4 DEF vars, Age
    <3>2. \A t \in Tasks : SameTask(t) /\ SameCount(t)
      BY <3>1, TaskHoldsIs, TaskHoldsIsNext DEF SameTask, SameCount, Coming, Leaving, Released
    <3>3. \A r \in Requests : SameRequest(r)
      BY <3>1 DEF SameRequest, RequestHolds, HoldsClaim
    <3>4. QED
      BY <3>1, <3>2, <3>3, QuotaKept, CountKept DEF SameQuota
  <2>5. QED
    BY <2>1, <2>2, <2>3, <2>4 DEF Next
<1>3. QuotaExact /\ CountExact => MigrateLedger
  BY DEF QuotaExact, CountExact, MigrateLedger
<1>4. Spec => []KInv
  BY KnownInvariance
<1>5. QED
  BY <1>1, <1>2, <1>3, <1>4, PTL DEF Spec
=============================================================================
