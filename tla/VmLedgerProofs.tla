--------------------------- MODULE VmLedgerProofs ---------------------------
(***************************************************************************)
(* The ledgers of VmLifecycle are exact, for every number of workers, vms, *)
(* hosts and addresses and whatever else fails, as long as the requests    *)
(* are Serial and no process dies: the quota columns and the flags of the  *)
(* addresses are what the rows and the requests under way hold, and the    *)
(* life cycle implements VmReservation.  Where processes die, they are     *)
(* still not less.  Without Serial the runs named in README refute it.     *)
(*                                                                         *)
(* SInv of VmLifecycleProofs makes ClaimOf, IpOf and CountedOn, which      *)
(* choose a request, the account of the only request that acts on the vm   *)
(* (Accounted).  With that every step has one of four Effects on the       *)
(* accounts, the columns and the flags.  The ledgers and the refinement    *)
(* follow from the effects alone.                                          *)
(***************************************************************************)
EXTENDS VmLifecycleProofs, FiniteSetTheorems

(* Who answers for a vm, without a choice. *)

\* The request acts: it is one that answers for its vm.
Acts(w) ==
    worker[w].vm \in Vms /\ worker[w].pc # "archive"
    /\ worker[w].op \notin {"purge", "delshelve"}

HeldIp(w) == IF HoldsIp(w) THEN worker[w].ip ELSE NoIp

HeldCount(w, h) == HoldsCount(w) /\ worker[w].host = h

ByRequest(v, w) ==
    /\ ClaimOf(v) = ClaimOfWorker(w)
    /\ IpOf(v) = HeldIp(w)
    /\ \A h \in Hosts : CountedOn(v, h) <=> HeldCount(w, h)

RowClaim(row) ==
    IF row.vm_status = "normal"
    THEN [host |-> row.host, vcpu |-> row.vcpu, mem |-> row.mem]
    ELSE NoClaim

RowCount(row, h) == row.vm_status = "normal" /\ row.host = h

ByRow(v) ==
    /\ ClaimOf(v) = RowClaim(vmrow[v])
    /\ IpOf(v) = vmrow[v].mac_ip
    /\ \A h \in Hosts : CountedOn(v, h) <=> RowCount(vmrow[v], h)

Accounted ==
    \A v \in Vms :
       /\ \A w \in Workers : Acts(w) /\ worker[w].vm = v => ByRequest(v, w)
       /\ (\A w \in Workers : Acts(w) => worker[w].vm # v) => ByRow(v)

\* The address a delete or shelve loaded was in use.
LoadedUsed ==
    \A w \in Workers :
       worker[w].op \in Deletes \cup {"shelve"} => worker[w].ip_used


-----------------------------------------------------------------------------
(* SInv makes the accounts those of one request, or of the row. *)

\* While a request acts on a vm the account of the vm is the request's, and
\* otherwise it is the row's, also while the vm is deleted as a shelved one.
LEMMA AccountedBySInv == SInv => Accounted
<1> SUFFICES ASSUME SInv, NEW v \in Vms
             PROVE  /\ \A w \in Workers : Acts(w) /\ worker[w].vm = v => ByRequest(v, w)
                    /\ (\A w \in Workers : Acts(w) => worker[w].vm # v) => ByRow(v)
  BY DEF Accounted
<1> DEFINE e == CHOOSE x \in Engaged(v) : TRUE
<1>1. Engaged(v) # {} => e \in Engaged(v)
  OBVIOUS
<1>2. ASSUME NEW w \in Workers, Acts(w), worker[w].vm = v
      PROVE  ByRequest(v, w)
  <2>1. w \in Engaged(v)
    BY <1>2 DEF Acts, Engaged, Busy, At
  <2>2. \A x \in Engaged(v) : x = w
    <3> SUFFICES ASSUME NEW x \in Engaged(v), x # w
                 PROVE  FALSE
      OBVIOUS
    <3>1. Together(worker[w], worker[x])
      BY <1>2 DEF Engaged, Busy, SInv, AloneInv
    <3>2. worker[x].pc # "archive" /\ worker[w].pc # "archive"
          /\ worker[w].op # "delshelve"
      BY <1>2 DEF Engaged, Busy, At, Acts
    <3>3. QED
      BY <3>1, <3>2 DEF Together
  <2>3. Engaged(v) # {} /\ e = w
    BY <1>1, <2>1, <2>2
  <2>4. ClaimOf(v) = ClaimOfWorker(e)
    BY <2>3 DEF ClaimOf
  <2>5. IpOf(v) = IF HoldsIp(e) THEN worker[e].ip ELSE NoIp
    BY <2>3 DEF IpOf
  <2>6. \A h \in Hosts : CountedOn(v, h) <=> HoldsCount(e) /\ worker[e].host = h
    BY <2>3 DEF CountedOn
  <2> HIDE DEF e
  <2>7. QED
    BY <2>3, <2>4, <2>5, <2>6 DEF ByRequest, HeldIp, HeldCount
<1>3. ASSUME \A w \in Workers : Acts(w) => worker[w].vm # v
      PROVE  ByRow(v)
  <2>1. CASE Engaged(v) = {}
    BY <2>1 DEF ClaimOf, IpOf, CountedOn, ByRow, RowClaim, RowCount
  <2>2. CASE Engaged(v) # {}
    <3>1. /\ e \in Workers /\ worker[e].vm = v /\ worker[e].op = "delshelve"
          /\ worker[e].pc # "idle"
      BY <1>1, <1>3, <2>2, IdleHasNoVm DEF Engaged, Busy, Acts, At
    <3>2. vmrow[v].vm_status # "normal" /\ vmrow[v].mac_ip = NoIp
      BY <3>1, RequestKnows DEF Knows, DelshelveKnows, RowPlaced
    <3>3. ~HoldsHost(e) /\ ~HoldsIp(e) /\ ~HoldsCount(e)
      BY <3>1 DEF HoldsHost, HoldsIp, HoldsCount, Deletes
    <3>4. ClaimOf(v) = ClaimOfWorker(e)
      BY <2>2 DEF ClaimOf
    <3>5. IpOf(v) = IF HoldsIp(e) THEN worker[e].ip ELSE NoIp
      BY <2>2 DEF IpOf
    <3>6. \A h \in Hosts : CountedOn(v, h) <=> HoldsCount(e) /\ worker[e].host = h
      BY <2>2 DEF CountedOn
    <3> HIDE DEF e
    <3>7. ClaimOfWorker(e) = NoClaim
      BY <3>3 DEF ClaimOfWorker
    <3>8. QED
      BY <3>2, <3>3, <3>4, <3>5, <3>6, <3>7 DEF ByRow, RowClaim, RowCount
  <2>3. QED
    BY <2>1, <2>2
<1>4. QED
  BY <1>2, <1>3

\* The same in the next state.
LEMMA AccountedNext == SInv' => Accounted'
  BY AccountedBySInv, PTL

\* The account of a vm is the same after the step.
SameAccount(v) ==
    /\ ClaimOf(v)' = ClaimOf(v)
    /\ IpOf(v)' = IpOf(v)
    /\ \A h \in Hosts : CountedOn(v, h)' <=> CountedOn(v, h)

\* A vm whose row stays, or is neither before nor after one that holds
\* anything, and on which no request that acts has made a step, keeps its
\* account.
LEMMA AccountKept ==
    ASSUME SInv, SInv', NEW v \in Vms,
           \/ vmrow'[v] = vmrow[v]
           \/ vmrow[v].vm_status # "normal" /\ vmrow'[v].vm_status # "normal",
           \A x \in Workers :
              \/ worker'[x] = worker[x]
              \/ /\ ~(Acts(x) /\ worker[x].vm = v)
                 /\ ~(Acts(x)' /\ worker'[x].vm = v)
    PROVE  SameAccount(v)
<1>1. Accounted /\ Accounted'
  BY AccountedBySInv, AccountedNext
<1>2. CASE \E x \in Workers : Acts(x) /\ worker[x].vm = v
  <2>1. PICK x \in Workers : Acts(x) /\ worker[x].vm = v
    BY <1>2
  <2>2. worker'[x] = worker[x] /\ Acts(x)'
    BY <2>1 DEF Acts
  <2>3. ByRequest(v, x)
    BY <1>1, <2>1 DEF Accounted
  <2>4. ByRequest(v, x)'
    BY <1>1, <2>1, <2>2 DEF Accounted
  <2>5. /\ ClaimOfWorker(x)' = ClaimOfWorker(x)
        /\ HeldIp(x)' = HeldIp(x)
        /\ \A h \in Hosts : HeldCount(x, h)' <=> HeldCount(x, h)
    BY <2>2 DEF ClaimOfWorker, HoldsHost, HoldsIp, HoldsCount, HeldIp, HeldCount
  <2>6. QED
    BY <2>2, <2>3, <2>4, <2>5 DEF ByRequest, SameAccount
<1>3. CASE ~\E x \in Workers : Acts(x) /\ worker[x].vm = v
  <2>1. ByRow(v)
    BY <1>1, <1>3 DEF Accounted
  <2>2. \A x \in Workers : ~(Acts(x)' /\ worker'[x].vm = v)
    BY <1>3 DEF Acts
  <2>3. ByRow(v)'
    BY <1>1, <2>2 DEF Accounted
  <2>4. /\ vmrow[v].vm_status # "normal" => vmrow[v].mac_ip = NoIp
        /\ vmrow'[v].vm_status # "normal" => vmrow'[v].mac_ip = NoIp
    BY DEF SInv, IInv, RowsInv, StatusMatchesPlacement, RowPlaced
  <2>5. CASE vmrow'[v] = vmrow[v]
    BY <2>1, <2>3, <2>5 DEF ByRow, SameAccount, RowClaim, RowCount
  <2>6. CASE vmrow[v].vm_status # "normal" /\ vmrow'[v].vm_status # "normal"
    BY <2>1, <2>3, <2>4, <2>6 DEF ByRow, SameAccount, RowClaim, RowCount
  <2>7. QED
    BY <2>5, <2>6
<1>4. QED
  BY <1>2, <1>3

-----------------------------------------------------------------------------
(* What the steps do to the accounts, the columns and the flags. *)

OthersSame(v) == \A x \in Vms \ {v} : SameAccount(x)

SameClaim(v) == ClaimOf(v)' = ClaimOf(v)

SameIp(v) == IpOf(v)' = IpOf(v)

SameCount(v) == \A h \in Hosts : CountedOn(v, h)' <=> CountedOn(v, h)

NoEffect == (\A v \in Vms : SameAccount(v)) /\ UNCHANGED <<host, used>>

\* An address is marked and becomes that of v, or is that of v and unmarked.
AddressEffect(v) ==
    /\ UNCHANGED host
    /\ OthersSame(v) /\ SameClaim(v) /\ SameCount(v)
    /\ \E i \in Ips :
          \/ /\ IpOf(v) = NoIp /\ IpOf(v)' = i
             /\ ~used[i] /\ used' = [used EXCEPT ![i] = TRUE]
          \/ /\ IpOf(v) = i /\ IpOf(v)' = NoIp
             /\ used' = [used EXCEPT ![i] = FALSE]

ClaimOn(h) == {NoClaim} \cup [host : {h}, vcpu : Nat \ {0}, mem : Nat \ {0}]

\* The claim of v on a host and the columns change by the same amounts.
ClaimEffect(v) ==
    /\ UNCHANGED used
    /\ OthersSame(v) /\ SameIp(v) /\ SameCount(v)
    /\ \E h \in Hosts :
          /\ ClaimOf(v) \in ClaimOn(h)
          /\ ClaimOf(v)' \in ClaimOn(h)
          /\ deduct_delta(h, ClaimOf(v)'.vcpu - ClaimOf(v).vcpu,
                             ClaimOf(v)'.mem - ClaimOf(v).mem)

\* v begins or ceases to count on a host, and vm_created follows.
CountEffect(v) ==
    /\ UNCHANGED used
    /\ OthersSame(v) /\ SameClaim(v) /\ SameIp(v)
    /\ \E h \in Hosts :
          /\ \A g \in Hosts \ {h} : CountedOn(v, g)' <=> CountedOn(v, g)
          /\ \/ /\ ~CountedOn(v, h) /\ CountedOn(v, h)'
                /\ vm_created_num_add_1(h)
             \/ /\ CountedOn(v, h) /\ ~CountedOn(v, h)'
                /\ vm_created_num_sub_1(h)

Effects ==
    NoEffect \/ \E v \in Vms : AddressEffect(v) \/ ClaimEffect(v) \/ CountEffect(v)

\* A step of a request is on its vm, and the request ends or stays the same.
LEMMA StepIsOnlyAt ==
    ASSUME SInv, NEW w \in Workers, Step(w)
    PROVE  /\ OnlyAt(w, worker[w].vm)
           /\ \/ worker'[w] = Idle
              \/ /\ worker'[w].vm = worker[w].vm /\ worker'[w].op = worker[w].op
                 /\ worker'[w].ip_used = worker[w].ip_used
           /\ worker[w].pc # "idle"
<1>a. worker \in [Workers -> WorkerState] /\ vmrow \in [Vms -> VmRow]
      /\ archive \in [Vms -> ArchiveRow]
  BY DEF SInv, IInv, WorkersInv, RowsInv, StoresInv
<1>b. worker[w] \in WorkerState
  BY <1>a
<1> DEFINE P == /\ \A x \in Workers \ {w} : worker'[x] = worker[x]
                /\ \/ worker'[w] = Idle
                   \/ /\ worker'[w].vm = worker[w].vm /\ worker'[w].op = worker[w].op
                      /\ worker'[w].ip_used = worker[w].ip_used
                /\ worker[w].pc # "idle"
<1>1. CASE \/ Refuse(w)
           \/ ApplyIp(w) \/ PickHost(w) \/ SkipGroup(w) \/ NoGroupLeft(w)
           \/ PickIp(w) \/ NoFreeIp(w) \/ ClaimHost(w) \/ ClaimFails(w)
           \/ ClaimUndo(w) \/ Clone(w)
  <2>1. UNCHANGED <<vmrow, archive>>
    BY <1>1 DEF Refuse, ApplyIp, PickHost, SkipGroup, NoGroupLeft, PickIp,
                NoFreeIp, ClaimHost, ClaimFails, ClaimUndo, Clone
  <2>2. ASSUME Refuse(w) \/ ApplyIp(w) PROVE P
    BY <2>2, <1>a, <1>b DEF Refuse, ApplyIp, End, Goto, At, WorkerState
  <2>3. ASSUME PickHost(w) PROVE P
    <3>1. PICK g \in worker[w].groups, h \in Hosts :
             worker' = [worker EXCEPT
                ![w].host = h, ![w].groups = @ \ {g},
                ![w].pc = IF worker[w].need THEN "pick_ip" ELSE "claim"]
      BY <2>3 DEF PickHost
    <3>2. P
      BY <2>3, <3>1, <1>a, <1>b DEF PickHost, At, WorkerState
    <3>3. QED
      BY <3>2
  <2>4. ASSUME SkipGroup(w) PROVE P
    <3>1. PICK g \in worker[w].groups : worker' = [worker EXCEPT ![w].groups = @ \ {g}]
      BY <2>4 DEF SkipGroup
    <3>2. P
      BY <2>4, <3>1, <1>a, <1>b DEF SkipGroup, At, WorkerState
    <3>3. QED
      BY <3>2
  <2>5. ASSUME NoGroupLeft(w) PROVE P
    BY <2>5, <1>a, <1>b DEF NoGroupLeft, End, Goto, At, WorkerState
  <2>6. ASSUME PickIp(w) PROVE P
    <3>1. PICK i \in Ips : worker' = [worker EXCEPT ![w].ip = i, ![w].pc = "claim"]
      BY <2>6 DEF PickIp
    <3>2. P
      BY <2>6, <3>1, <1>a, <1>b DEF PickIp, At, WorkerState
    <3>3. QED
      BY <3>2
  <2>7. ASSUME NoFreeIp(w) \/ ClaimHost(w) PROVE P
    BY <2>7, <1>a, <1>b DEF NoFreeIp, ClaimHost, Goto, At, WorkerState
  <2>8. ASSUME ClaimFails(w) \/ ClaimUndo(w) \/ Clone(w) PROVE P
    BY <2>8, <1>a, <1>b DEF ClaimFails, ClaimUndo, Clone, Goto, At, WorkerState
  <2>9. QED
    BY <1>1, <2>1, <2>2, <2>3, <2>4, <2>5, <2>6, <2>7, <2>8 DEF OnlyAt
<1>2. CASE \/ SaveRow(w) \/ Define(w) \/ Unsave(w)
           \/ UndoIp(w) \/ UndoHost(w) \/ UndoDisk(w) \/ Count(w)
           \/ UndefineFails(w) \/ DeleteRow(w)
           \/ Uncount(w) \/ FreeIp(w) \/ FreeHost(w) \/ RenameDisk(w)
           \/ ShelveSave(w) \/ Undefine(w)
  <2>1. P
    BY <1>2, <1>a, <1>b
       DEF SaveRow, Define, Unsave, UndoIp, UndoHost, UndoDisk, Count,
           UndefineFails, DeleteRow, Uncount, FreeIp, FreeHost, RenameDisk,
           ShelveSave, Undefine, End, Goto, At, WorkerState
  <2>2. UNCHANGED archive
    BY <1>2
       DEF SaveRow, Define, Unsave, UndoIp, UndoHost, UndoDisk, Count,
           UndefineFails, DeleteRow, Uncount, FreeIp, FreeHost, RenameDisk,
           ShelveSave, Undefine
  <2>3. \A x \in Vms \ {worker[w].vm} : vmrow'[x] = vmrow[x]
    BY <1>2, <1>a
       DEF SaveRow, Define, Unsave, UndoIp, UndoHost, UndoDisk, Count,
           UndefineFails, DeleteRow, Uncount, FreeIp, FreeHost, RenameDisk,
           ShelveSave, Undefine
  <2>4. QED
    BY <2>1, <2>2, <2>3 DEF OnlyAt
<1>3. CASE \/ Archive(w) \/ UndefineHostDown(w) \/ ReleaseHost(w)
           \/ RemoveDisk(w) \/ DeleteArchive(w) \/ RenameSave(w)
  <2>1. P
    BY <1>3, <1>a, <1>b
       DEF Archive, UndefineHostDown, ReleaseHost, RemoveDisk, DeleteArchive,
           RenameSave, End, Goto, At, WorkerState
  <2>2. UNCHANGED vmrow
    BY <1>3
       DEF Archive, UndefineHostDown, ReleaseHost, RemoveDisk, DeleteArchive,
           RenameSave
  <2>3. \A x \in Vms \ {worker[w].vm} : archive'[x] = archive[x]
    BY <1>3, <1>a
       DEF Archive, UndefineHostDown, ReleaseHost, RemoveDisk, DeleteArchive,
           RenameSave
  <2>4. QED
    BY <2>1, <2>2, <2>3 DEF OnlyAt
<1>4. CASE \/ Deduct(w) \/ Redefine(w) \/ RedefineFails(w) \/ EditSave(w)
           \/ EditUndo(w) \/ EditRedefine(w)
  <2>1. P
    BY <1>4, <1>a, <1>b
       DEF Deduct, Redefine, RedefineFails, EditSave, EditUndo, EditRedefine,
           End, Goto, At, WorkerState
  <2>2. UNCHANGED archive
    BY <1>4
       DEF Deduct, Redefine, RedefineFails, EditSave, EditUndo, EditRedefine
  <2>3. \A x \in Vms \ {worker[w].vm} : vmrow'[x] = vmrow[x]
    BY <1>4, <1>a
       DEF Deduct, Redefine, RedefineFails, EditSave, EditUndo, EditRedefine
  <2>4. QED
    BY <2>1, <2>2, <2>3 DEF OnlyAt
<1>5. QED
  BY <1>1, <1>2, <1>3, <1>4 DEF Step

\* The request that acts on a vm accounts for it before the step, and after it
\* the request or, if it has ended or died, the row; the others stay as they
\* were.
LEMMA ActorOnlyAt ==
    ASSUME SInv, SInv', NEW w \in Workers, Acts(w),
           NEW v \in Vms, worker[w].vm = v, OnlyAt(w, v),
           \/ worker'[w] = Idle
           \/ worker'[w].vm = v /\ worker'[w].op = worker[w].op
    PROVE  /\ ByRequest(v, w)
           /\ OthersSame(v)
           /\ worker'[w] = Idle => ByRow(v)'
           /\ worker'[w] # Idle /\ worker'[w].pc # "archive" => ByRequest(v, w)'
<1>1. /\ OnlyAt(w, v)
      /\ \/ worker'[w] = Idle
         \/ worker'[w].vm = v /\ worker'[w].op = worker[w].op
  OBVIOUS
<1>2. Accounted /\ Accounted'
  BY AccountedBySInv, AccountedNext
<1>3. ByRequest(v, w)
  BY <1>1, <1>2 DEF Accounted
<1>4. OthersSame(v)
  <2> SUFFICES ASSUME NEW x \in Vms \ {v}
               PROVE  SameAccount(x)
    BY DEF OthersSame
  <2>1. vmrow'[x] = vmrow[x]
    BY <1>1 DEF OnlyAt
  <2>2. Idle.vm \notin Vms
    BY VmAssumption DEF Idle
  <2>3. \A y \in Workers :
           \/ worker'[y] = worker[y]
           \/ /\ ~(Acts(y) /\ worker[y].vm = x)
              /\ ~(Acts(y)' /\ worker'[y].vm = x)
    BY <1>1, <2>2 DEF OnlyAt
  <2>4. QED
    BY <2>1, <2>3, AccountKept
<1>5. ASSUME worker'[w] = Idle
      PROVE  ByRow(v)'
  <2>1. ASSUME NEW x \in Workers, Acts(x)', worker'[x].vm = v
        PROVE  FALSE
    BY <1>1, <1>5, <2>1, VmAssumption DEF OnlyAt, Idle, SInv, AloneInv, Acts, Together
  <2>2. QED
    BY <1>1, <1>2, <2>1 DEF Accounted
<1>6. ASSUME worker'[w] # Idle, worker'[w].pc # "archive"
      PROVE  ByRequest(v, w)'
  BY <1>1, <1>2, <1>6 DEF Acts, Accounted
<1>7. QED
  BY <1>3, <1>4, <1>5, <1>6

\* The same for the steps of requests.
LEMMA ActorAccount ==
    ASSUME SInv, SInv', NEW w \in Workers, Step(w), Acts(w),
           NEW v \in Vms, worker[w].vm = v
    PROVE  /\ ByRequest(v, w)
           /\ OthersSame(v)
           /\ worker'[w] = Idle => ByRow(v)'
           /\ worker'[w] # Idle /\ worker'[w].pc # "archive" => ByRequest(v, w)'
  BY ActorOnlyAt, StepIsOnlyAt

-----------------------------------------------------------------------------
(* The steps of a request that acts. *)

\* A step that moves neither columns nor flags, after which the request holds
\* what it held, has no effect.
LEMMA QuietStep ==
    ASSUME SInv, SInv', NEW w \in Workers, Step(w), Acts(w),
           UNCHANGED <<host, used>>,
           worker'[w].pc \notin {"idle", "archive"},
           ClaimOfWorker(w)' = ClaimOfWorker(w),
           HeldIp(w)' = HeldIp(w),
           \A h \in Hosts : HeldCount(w, h)' <=> HeldCount(w, h)
    PROVE  NoEffect
<1>1. PICK v \in Vms : worker[w].vm = v
  BY DEF Acts
<1>2. worker'[w] # Idle
  BY DEF Idle
<1>3. ByRequest(v, w) /\ ByRequest(v, w)' /\ OthersSame(v)
  BY <1>1, <1>2, ActorAccount
<1>4. SameAccount(v)
  BY <1>3 DEF ByRequest, SameAccount
<1>5. QED
  BY <1>3, <1>4 DEF OthersSame, NoEffect

\* The same for the last step of a request, after which the row holds what
\* the request held.
LEMMA QuietEnd ==
    ASSUME SInv, SInv', NEW w \in Workers, Step(w), Acts(w),
           UNCHANGED <<host, used>>,
           worker'[w] = Idle,
           NEW row, row = vmrow'[worker[w].vm],
           RowClaim(row) = ClaimOfWorker(w),
           row.mac_ip = HeldIp(w),
           \A h \in Hosts : RowCount(row, h) <=> HeldCount(w, h)
    PROVE  NoEffect
<1>1. PICK v \in Vms : worker[w].vm = v
  BY DEF Acts
<1>3. ByRequest(v, w) /\ ByRow(v)' /\ OthersSame(v)
  BY <1>1, ActorAccount
<1>4. SameAccount(v)
  BY <1>1, <1>3 DEF ByRequest, ByRow, SameAccount
<1>5. QED
  BY <1>3, <1>4 DEF OthersSame, NoEffect

\* What a create or an unshelve holds depends on its pc, host and address.
LEMMA MakeHolds ==
    ASSUME NEW w \in Workers, worker[w].op \in Makes
    PROVE  /\ ClaimOfWorker(w) =
                 IF /\ worker[w].host # NoHost
                    /\ worker[w].pc \notin {"pick_ip", "claim", "undo_disk"}
                 THEN [host |-> worker[w].host, vcpu |-> worker[w].vcpu,
                       mem |-> worker[w].mem]
                 ELSE NoClaim
           /\ HeldIp(w) = IF worker[w].pc \in {"ip", "undo_host", "undo_disk"}
                          THEN NoIp
                          ELSE worker[w].ip
           /\ \A h \in Hosts : ~HeldCount(w, h)
  BY DEF Makes, Deletes, ClaimOfWorker, HoldsHost, HeldIp, HoldsIp, HeldCount, HoldsCount

\* The same in the next state.
LEMMA MakeHoldsNext ==
    ASSUME NEW w \in Workers, worker'[w].op \in Makes
    PROVE  /\ ClaimOfWorker(w)' =
                 IF /\ worker'[w].host # NoHost
                    /\ worker'[w].pc \notin {"pick_ip", "claim", "undo_disk"}
                 THEN [host |-> worker'[w].host, vcpu |-> worker'[w].vcpu,
                       mem |-> worker'[w].mem]
                 ELSE NoClaim
           /\ HeldIp(w)' = IF worker'[w].pc \in {"ip", "undo_host", "undo_disk"}
                           THEN NoIp
                           ELSE worker'[w].ip
           /\ \A h \in Hosts : ~HeldCount(w, h)'
  BY DEF Makes, Deletes, ClaimOfWorker, HoldsHost, HeldIp, HoldsIp, HeldCount, HoldsCount

\* The scheduler and the clone, save and define of a create or an unshelve
\* have no effect: a host counts from its claim on, which is another step, and
\* what the row says is the request's as long as it is under way.
LEMMA MakeHasNoEffect ==
    ASSUME SInv, SInv', NEW w \in Workers,
           \/ PickHost(w) \/ SkipGroup(w) \/ NoGroupLeft(w) \/ NoFreeIp(w)
           \/ ClaimFails(w) \/ Clone(w) \/ SaveRow(w) \/ Define(w) \/ Unsave(w)
           \/ UndoDisk(w)
    PROVE  NoEffect
<1> DEFINE r == worker[w]
           s == worker'[w]
<1>1. Step(w)
  BY DEF Step
<1>2. r.pc \in MakePcs /\ UNCHANGED <<host, used>>
  BY DEF PickHost, SkipGroup, NoGroupLeft, NoFreeIp, ClaimFails, Clone, SaveRow,
         Define, Unsave, UndoDisk, At, MakePcs, SavedPcs, ResourcesUnchanged
<1>3. /\ r.op \in Makes /\ MakeKnows(r, vmrow[r.vm]) /\ r.pc # "archive"
      /\ r \in WorkerState /\ r.vm \in Vms /\ RowPlaced(vmrow[r.vm])
  BY <1>2, MakeAt, RequestKnows
<1>4. Acts(w) /\ worker \in [Workers -> WorkerState]
  BY <1>3 DEF Acts, Makes, SInv, IInv, WorkersInv
<1>5. ASSUME /\ s.op = r.op /\ s.vm = r.vm /\ s.vcpu = r.vcpu /\ s.mem = r.mem
             /\ s.ip = r.ip
             /\ \/ s.host = r.host /\ r.pc \notin {"pick_ip", "claim"}
                                   /\ s.pc \notin {"pick_ip", "claim"}
                \/ r.host = NoHost /\ s.pc \in {"pick_ip", "claim"}
                \/ s.host = NoHost /\ r.pc \in {"pick_ip", "claim"}
             /\ s.pc \in MakePcs \ {"ip", "undo_host", "undo_disk"}
             /\ r.pc \notin {"ip", "undo_host", "undo_disk"}
      PROVE  NoEffect
  BY <1>1, <1>2, <1>3, <1>4, <1>5, MakeHolds, MakeHoldsNext, QuietStep DEF MakePcs, SavedPcs
<1>6. ASSUME s = Idle, vmrow' = vmrow, r.pc \in {"pick", "undo_disk"},
             r.pc = "pick" => r.ip = NoIp
      PROVE  NoEffect
  BY <1>1, <1>2, <1>3, <1>4, <1>6, MakeHolds, QuietEnd DEF MakeKnows, SavedPcs, RowPlaced, RowClaim, RowCount
<1>7. CASE PickHost(w)
  <2>1. PICK g \in r.groups, h \in Hosts :
           worker' = [worker EXCEPT
              ![w].host = h, ![w].groups = @ \ {g},
              ![w].pc = IF worker[w].need THEN "pick_ip" ELSE "claim"]
    BY <1>7 DEF PickHost
  <2>2. QED
    BY <1>3, <1>4, <1>5, <1>7, <2>1 DEF PickHost, At, WorkerState, MakeKnows, MakePcs
<1>8. CASE SkipGroup(w)
  <2>1. PICK g \in r.groups : worker' = [worker EXCEPT ![w].groups = @ \ {g}]
    BY <1>8 DEF SkipGroup
  <2>2. QED
    BY <1>3, <1>4, <1>5, <1>8, <2>1 DEF SkipGroup, At, WorkerState, MakeKnows, MakePcs
<1>9. CASE NoGroupLeft(w)
  BY <1>3, <1>4, <1>5, <1>6, <1>9 DEF NoGroupLeft, End, Goto, At, WorkerState, MakePcs
<1>10. CASE NoFreeIp(w)
  BY <1>3, <1>4, <1>5, <1>10 DEF NoFreeIp, At, WorkerState, MakePcs
<1>11. CASE ClaimFails(w)
  BY <1>3, <1>4, <1>5, <1>11 DEF ClaimFails, At, WorkerState, MakePcs
<1>12. CASE Clone(w)
  BY <1>3, <1>4, <1>5, <1>12 DEF Clone, Goto, At, WorkerState, MakePcs
<1>13. CASE SaveRow(w)
  BY <1>3, <1>4, <1>5, <1>13 DEF SaveRow, Goto, At, WorkerState, MakePcs, SavedPcs
<1>14. CASE Define(w)
  BY <1>3, <1>4, <1>5, <1>14 DEF Define, Goto, At, WorkerState, MakePcs, SavedPcs
<1>15. CASE Unsave(w)
  BY <1>3, <1>4, <1>5, <1>15 DEF Unsave, Goto, At, WorkerState, MakePcs
<1>16. CASE UndoDisk(w)
  BY <1>4, <1>6, <1>16 DEF UndoDisk, End, At
<1>17. QED
  BY <1>7, <1>8, <1>9, <1>10, <1>11, <1>12, <1>13, <1>14, <1>15, <1>16

\* The steps of a create or an unshelve that take or give back an address.
LEMMA MakeAddressEffect ==
    ASSUME SInv, SInv', Serial, NEW w \in Workers,
           ApplyIp(w) \/ PickIp(w) \/ ClaimUndo(w) \/ UndoIp(w)
    PROVE  Effects
<1> DEFINE r == worker[w]
           s == worker'[w]
<1>1. Step(w)
  BY DEF Step
<1>2. r.pc \in {"ip", "pick_ip", "claim_undo", "undo_ip"} /\ UNCHANGED <<host, vmrow>>
  BY DEF ApplyIp, PickIp, ClaimUndo, UndoIp, At
<1>3. /\ r.op \in Makes /\ MakeKnows(r, vmrow[r.vm])
      /\ r \in WorkerState /\ r.vm \in Vms /\ RowPlaced(vmrow[r.vm])
  BY <1>2, MakeAt, RequestKnows DEF MakePcs
<1>4. Acts(w) /\ worker \in [Workers -> WorkerState]
  BY <1>2, <1>3 DEF Acts, Makes, SInv, IInv, WorkersInv
<1>5. PICK v \in Vms : r.vm = v
  BY <1>3
<1>6. /\ vmrow'[v].vm_status # "normal" /\ vmrow'[v].mac_ip = NoIp
      /\ RowClaim(vmrow'[v]) = NoClaim
      /\ \A h \in Hosts : ~RowCount(vmrow'[v], h)
  BY <1>2, <1>3, <1>5 DEF MakeKnows, SavedPcs, RowPlaced, RowClaim, RowCount
<1>7. ByRequest(v, w) /\ OthersSame(v)
  BY <1>1, <1>4, <1>5, ActorAccount
<1>8. ASSUME NEW i \in Ips,
             \/ HeldIp(w) = NoIp /\ ~used[i] /\ used' = [used EXCEPT ![i] = TRUE]
             \/ HeldIp(w) = i /\ used' = [used EXCEPT ![i] = FALSE],
             \/ s = Idle /\ ClaimOfWorker(w) = NoClaim /\ HeldIp(w) = i
             \/ /\ s.op = r.op /\ s.vm = v /\ s.pc \in MakePcs
                /\ ClaimOfWorker(w)' = ClaimOfWorker(w)
                /\ HeldIp(w)' = IF HeldIp(w) = NoIp THEN i ELSE NoIp
      PROVE  AddressEffect(v)
  <2>1. \A h \in Hosts : ~HeldCount(w, h)
    BY <1>3, MakeHolds
  <2>2. i # NoIp
    BY VmAssumption
  <2>3. CASE s = Idle
    <3>1. ByRow(v)'
      BY <1>1, <1>4, <1>5, <2>3, ActorAccount
    <3>2. HeldIp(w) = i /\ ClaimOfWorker(w) = NoClaim
      BY <1>3, <1>8, <2>3 DEF Makes, Idle
    <3>3. SameClaim(v) /\ SameCount(v) /\ IpOf(v) = i /\ IpOf(v)' = NoIp
      BY <1>6, <1>7, <2>1, <3>1, <3>2
         DEF ByRow, ByRequest, SameClaim, SameCount
    <3>4. QED
      BY <1>2, <1>7, <1>8, <2>2, <3>2, <3>3 DEF AddressEffect
  <2>4. CASE s # Idle
    <3>1. s.op \in Makes /\ s.pc # "archive"
      BY <1>3, <1>8, <2>4 DEF MakePcs, SavedPcs
    <3>2. ByRequest(v, w)'
      BY <1>1, <1>4, <1>5, <2>4, <3>1, ActorAccount
    <3>3. \A h \in Hosts : ~HeldCount(w, h)'
      BY <3>1, MakeHoldsNext
    <3>4. /\ SameClaim(v) /\ SameCount(v)
          /\ IpOf(v) = HeldIp(w) /\ IpOf(v)' = IF HeldIp(w) = NoIp THEN i ELSE NoIp
      BY <1>7, <1>8, <2>1, <2>4, <3>2, <3>3 DEF ByRequest, SameClaim, SameCount
    <3>5. QED
      BY <1>2, <1>7, <1>8, <2>2, <3>4 DEF AddressEffect
  <2>5. QED
    BY <2>3, <2>4
<1>9. CASE ApplyIp(w)
  <2>1. r.ip \in Ips /\ r.host = NoHost /\ HeldIp(w) = NoIp /\ ClaimOfWorker(w) = NoClaim
    BY <1>3, <1>9, MakeHolds DEF ApplyIp, At, WorkerState, MakeKnows, MakePcs
  <2>2. CASE apply_for_free_ip(r.ip) /\ Goto(w, "pick")
    <3>1. s.op = r.op /\ s.vm = v /\ s.pc = "pick" /\ s.host = NoHost /\ s.ip = r.ip
      BY <1>3, <1>4, <1>5, <2>1, <2>2 DEF Goto, WorkerState
    <3>2. ClaimOfWorker(w)' = NoClaim /\ HeldIp(w)' = r.ip
      BY <1>3, <3>1, MakeHoldsNext
    <3>3. AddressEffect(v)
      BY <1>8, <2>1, <2>2, <3>1, <3>2 DEF apply_for_free_ip, can_used, MakePcs
    <3>4. QED
      BY <3>3 DEF Effects
  <2>3. CASE End(w) /\ UNCHANGED used
    BY <1>1, <1>2, <1>3, <1>4, <1>5, <1>6, <2>1, <2>3, MakeHolds, QuietEnd DEF End, Effects
  <2>4. QED
    BY <1>9, <2>2, <2>3 DEF ApplyIp, Serial
<1>10. CASE PickIp(w)
  <2>1. PICK i \in Ips : /\ apply_for_free_ip(i)
                         /\ worker' = [worker EXCEPT ![w].ip = i, ![w].pc = "claim"]
    BY <1>10 DEF PickIp
  <2>2. s.op = r.op /\ s.vm = v /\ s.pc = "claim" /\ s.ip = i
    BY <1>3, <1>4, <1>5, <2>1 DEF WorkerState
  <2>3. r.pc = "pick_ip" /\ r.ip = NoIp
    BY <1>3, <1>10 DEF PickIp, At, MakeKnows
  <2>4. ClaimOfWorker(w) = NoClaim /\ HeldIp(w) = NoIp
    BY <1>3, <2>3, MakeHolds
  <2>5. ClaimOfWorker(w)' = NoClaim /\ HeldIp(w)' = i
    BY <1>3, <2>2, MakeHoldsNext
  <2>6. AddressEffect(v)
    BY <1>8, <2>1, <2>2, <2>4, <2>5 DEF apply_for_free_ip, can_used, MakePcs
  <2>7. QED
    BY <2>6 DEF Effects
<1>11. CASE ClaimUndo(w)
  <2>1. /\ r.pc = "claim_undo" /\ r.ip \in Ips /\ r.host = NoHost
        /\ used' = [used EXCEPT ![r.ip] = FALSE]
    BY <1>3, <1>11 DEF ClaimUndo, At, free_used_ip, WorkerState, MakeKnows
  <2>2. s.op = r.op /\ s.vm = v /\ s.pc = "pick" /\ s.ip = NoIp /\ s.host = NoHost
    BY <1>3, <1>4, <1>5, <1>11, <2>1 DEF ClaimUndo, WorkerState
  <2>3. ClaimOfWorker(w) = NoClaim /\ HeldIp(w) = r.ip
    BY <1>3, <2>1, MakeHolds
  <2>4. ClaimOfWorker(w)' = NoClaim /\ HeldIp(w)' = NoIp
    BY <1>3, <2>2, MakeHoldsNext
  <2>5. r.ip # NoIp
    BY <2>1, VmAssumption
  <2>6. AddressEffect(v)
    BY <1>8, <2>1, <2>2, <2>3, <2>4, <2>5 DEF MakePcs
  <2>7. QED
    BY <2>6 DEF Effects
<1>12. CASE UndoIp(w)
  <2>1. /\ r.pc = "undo_ip" /\ r.ip \in Ips
        /\ used' = [used EXCEPT ![r.ip] = FALSE]
    BY <1>3, <1>12 DEF UndoIp, At, free_used_ip, WorkerState, MakeKnows
  <2>2. HeldIp(w) = r.ip /\ r.ip # NoIp
    BY <1>3, <2>1, MakeHolds, VmAssumption
  <2>3. CASE r.host = NoHost
    BY <1>3, <1>4, <1>8, <1>12, <2>1, <2>2, <2>3, MakeHolds DEF UndoIp, End, Effects
  <2>4. CASE r.host # NoHost
    <3>1. /\ s.op = r.op /\ s.vm = v /\ s.pc = "undo_host" /\ s.host = r.host
          /\ s.vcpu = r.vcpu /\ s.mem = r.mem
      BY <1>3, <1>4, <1>5, <1>12, <2>4 DEF UndoIp, Goto, WorkerState
    <3>2. ClaimOfWorker(w)' = ClaimOfWorker(w) /\ HeldIp(w)' = NoIp
      BY <1>3, <2>1, <2>4, <3>1, MakeHolds, MakeHoldsNext
    <3>3. AddressEffect(v)
      BY <1>8, <2>1, <2>2, <3>1, <3>2 DEF MakePcs
    <3>4. QED
      BY <3>3 DEF Effects
  <2>5. QED
    BY <2>3, <2>4
<1>13. QED
  BY <1>9, <1>10, <1>11, <1>12

\* A step of a request that acts leaves the other vms their accounts and makes
\* that of its own what the request holds then or, if it ends, the row.
LEMMA AccountAfter ==
    ASSUME SInv, SInv', NEW w \in Workers, Step(w), Acts(w),
           NEW v \in Vms, worker[w].vm = v,
           NEW c, NEW i, NEW g \in SUBSET Hosts,
           \/ /\ worker'[w].pc \notin {"idle", "archive"}
              /\ ClaimOfWorker(w)' = c
              /\ HeldIp(w)' = i
              /\ \A h \in Hosts : HeldCount(w, h)' <=> h \in g
           \/ /\ worker'[w] = Idle
              /\ RowClaim(vmrow'[v]) = c
              /\ vmrow'[v].mac_ip = i
              /\ \A h \in Hosts : RowCount(vmrow'[v], h) <=> h \in g
    PROVE  /\ OthersSame(v)
           /\ ClaimOf(v) = ClaimOfWorker(w) /\ ClaimOf(v)' = c
           /\ IpOf(v) = HeldIp(w) /\ IpOf(v)' = i
           /\ \A h \in Hosts : /\ CountedOn(v, h) <=> HeldCount(w, h)
                               /\ CountedOn(v, h)' <=> h \in g
<1>1. ByRequest(v, w) /\ OthersSame(v)
  BY ActorAccount
<1>2. CASE worker'[w] = Idle
  <2>1. ByRow(v)'
    BY <1>2, ActorAccount
  <2>2. QED
    BY <1>1, <1>2, <2>1 DEF ByRequest, ByRow, Idle
<1>3. CASE worker'[w] # Idle
  BY <1>1, <1>3, ActorAccount DEF ByRequest
<1>4. QED
  BY <1>2, <1>3

\* Such a step that moves the quota by what it changes of the claim.
LEMMA ClaimStep ==
    ASSUME SInv, SInv', NEW w \in Workers, Step(w), Acts(w),
           NEW v \in Vms, worker[w].vm = v, UNCHANGED used,
           NEW h \in Hosts, NEW c \in ClaimOn(h), NEW d \in ClaimOn(h),
           ClaimOfWorker(w) = c,
           deduct_delta(h, d.vcpu - c.vcpu, d.mem - c.mem),
           \/ /\ worker'[w].pc \notin {"idle", "archive"}
              /\ ClaimOfWorker(w)' = d
              /\ HeldIp(w)' = HeldIp(w)
              /\ \A g \in Hosts : HeldCount(w, g)' <=> HeldCount(w, g)
           \/ /\ worker'[w] = Idle
              /\ RowClaim(vmrow'[v]) = d
              /\ vmrow'[v].mac_ip = HeldIp(w)
              /\ \A g \in Hosts : RowCount(vmrow'[v], g) <=> HeldCount(w, g)
    PROVE  ClaimEffect(v)
<1> DEFINE G == {g \in Hosts : HeldCount(w, g)}
           i == HeldIp(w)
<1>1. \A g \in Hosts : HeldCount(w, g) <=> g \in G
  OBVIOUS
<1>2. G \in SUBSET Hosts /\ i = HeldIp(w)
  OBVIOUS
<1> HIDE DEF G, i
<1>3. /\ OthersSame(v)
      /\ ClaimOf(v) = c /\ ClaimOf(v)' = d
      /\ IpOf(v)' = IpOf(v)
      /\ \A g \in Hosts : CountedOn(v, g)' <=> CountedOn(v, g)
  BY <1>1, <1>2, AccountAfter
<1>4. QED
  BY <1>3 DEF ClaimEffect, SameIp, SameCount

\* Such a step that moves vm_created as it changes where the vm counts.
LEMMA CountStep ==
    ASSUME SInv, SInv', NEW w \in Workers, Step(w), Acts(w),
           NEW v \in Vms, worker[w].vm = v, UNCHANGED used,
           NEW h \in Hosts, NEW after \in {{}, {h}},
           \A g \in Hosts : HeldCount(w, g) <=> g \in {h} \ after,
           IF after = {h} THEN vm_created_num_add_1(h) ELSE vm_created_num_sub_1(h),
           \/ /\ worker'[w].pc \notin {"idle", "archive"}
              /\ ClaimOfWorker(w)' = ClaimOfWorker(w)
              /\ HeldIp(w)' = HeldIp(w)
              /\ \A g \in Hosts : HeldCount(w, g)' <=> g \in after
           \/ /\ worker'[w] = Idle
              /\ RowClaim(vmrow'[v]) = ClaimOfWorker(w)
              /\ vmrow'[v].mac_ip = HeldIp(w)
              /\ \A g \in Hosts : RowCount(vmrow'[v], g) <=> g \in after
    PROVE  CountEffect(v)
<1> DEFINE c == ClaimOfWorker(w)
           i == HeldIp(w)
           G == {g \in Hosts : g \in after}
<1>1. c = ClaimOfWorker(w) /\ i = HeldIp(w)
  OBVIOUS
<1>a. G \in SUBSET Hosts /\ \A g \in Hosts : g \in after <=> g \in G
  OBVIOUS
<1> HIDE DEF c, i, G
<1>2. /\ OthersSame(v)
      /\ ClaimOf(v)' = ClaimOf(v)
      /\ IpOf(v)' = IpOf(v)
      /\ \A g \in Hosts : /\ CountedOn(v, g) <=> g \in {h} \ after
                          /\ CountedOn(v, g)' <=> g \in after
  <2>1. \/ /\ worker'[w].pc \notin {"idle", "archive"}
           /\ ClaimOfWorker(w)' = c
           /\ HeldIp(w)' = i
           /\ \A g \in Hosts : HeldCount(w, g)' <=> g \in G
        \/ /\ worker'[w] = Idle
           /\ RowClaim(vmrow'[v]) = c
           /\ vmrow'[v].mac_ip = i
           /\ \A g \in Hosts : RowCount(vmrow'[v], g) <=> g \in G
    BY <1>1, <1>a
  <2>2. /\ OthersSame(v)
        /\ ClaimOf(v) = ClaimOfWorker(w) /\ ClaimOf(v)' = c
        /\ IpOf(v) = HeldIp(w) /\ IpOf(v)' = i
        /\ \A g \in Hosts : /\ CountedOn(v, g) <=> HeldCount(w, g)
                            /\ CountedOn(v, g)' <=> g \in G
    <3>1. SInv /\ SInv' /\ Step(w) /\ Acts(w) /\ worker[w].vm = v
      OBVIOUS
    <3>2. QED
      BY <1>a, <2>1, <3>1, AccountAfter, ZenonT(60)
  <2>3. QED
    BY <1>1, <1>a, <2>2
<1>3. SameClaim(v) /\ SameIp(v)
  BY <1>2 DEF SameClaim, SameIp
<1>4. /\ \A g \in Hosts \ {h} : CountedOn(v, g)' <=> CountedOn(v, g)
      /\ CountedOn(v, h) <=> after # {h}
      /\ CountedOn(v, h)' <=> after = {h}
  BY <1>2
<1>5. QED
  BY <1>2, <1>3, <1>4 DEF CountEffect

\* The steps of a create or an unshelve that claim a host, give the claim back
\* or count the vm.
LEMMA MakeHostEffect ==
    ASSUME SInv, SInv', NEW w \in Workers,
           ClaimHost(w) \/ UndoHost(w) \/ Count(w)
    PROVE  Effects
<1> DEFINE r == worker[w]
           s == worker'[w]
           h == r.host
           C == [host |-> h, vcpu |-> r.vcpu, mem |-> r.mem]
<1>1. Step(w)
  BY DEF Step
<1>2. r.pc \in {"claim", "undo_host", "count"} /\ UNCHANGED <<used, vmrow>>
  BY DEF ClaimHost, UndoHost, Count, At
<1>3. /\ r.op \in Makes /\ MakeKnows(r, vmrow[r.vm])
      /\ r \in WorkerState /\ r.vm \in Vms /\ RowPlaced(vmrow[r.vm])
  BY <1>2, MakeAt, RequestKnows DEF MakePcs, SavedPcs
<1>4. Acts(w) /\ worker \in [Workers -> WorkerState]
  BY <1>2, <1>3 DEF Acts, Makes, SInv, IInv, WorkersInv
<1>5. PICK v \in Vms : r.vm = v
  BY <1>3
<1>6. h \in Hosts /\ r.vcpu \in Nat \ {0} /\ r.mem \in Nat \ {0}
  BY <1>2, <1>3 DEF MakeKnows, SavedPcs, WorkerState
<1>7. C \in ClaimOn(h) /\ NoClaim \in ClaimOn(h) /\ h # NoHost
  BY <1>6, VmAssumption DEF ClaimOn
<1>8. /\ C.vcpu - NoClaim.vcpu = r.vcpu /\ C.mem - NoClaim.mem = r.mem
      /\ NoClaim.vcpu - C.vcpu = -r.vcpu /\ NoClaim.mem - C.mem = -r.mem
  BY <1>6 DEF NoClaim
<1>9. \A g \in Hosts : ~HeldCount(w, g)
  BY <1>3, MakeHolds
<1>10. CASE ClaimHost(w)
  <2>1. r.pc = "claim" /\ deduct_delta(h, r.vcpu, r.mem)
    BY <1>10 DEF ClaimHost, At, claim_from_host
  <2>2. /\ s.op = r.op /\ s.vm = v /\ s.pc \in {"clone", "save"} /\ s.host = h
        /\ s.vcpu = r.vcpu /\ s.mem = r.mem /\ s.ip = r.ip
    BY <1>3, <1>4, <1>5, <1>10 DEF ClaimHost, Goto, WorkerState
  <2>3. ClaimOfWorker(w) = NoClaim /\ HeldIp(w) = r.ip
    BY <1>3, <2>1, MakeHolds
  <2>4. ClaimOfWorker(w)' = C /\ HeldIp(w)' = r.ip /\ \A g \in Hosts : ~HeldCount(w, g)'
    BY <1>3, <1>7, <2>2, MakeHoldsNext
  <2> HIDE DEF C
  <2>5. ClaimEffect(v)
    BY <1>1, <1>2, <1>4, <1>5, <1>6, <1>7, <1>8, <1>9, <2>1, <2>2, <2>3, <2>4, ClaimStep
  <2>6. QED
    BY <2>5 DEF Effects
<1>11. CASE UndoHost(w)
  <2>1. r.pc = "undo_host" /\ free(h, r.vcpu, r.mem)
    BY <1>11 DEF UndoHost, At
  <2>2. deduct_delta(h, -r.vcpu, -r.mem)
    BY <1>6, <2>1, FreeMatches DEF SInv, IInv
  <2>3. ClaimOfWorker(w) = C /\ HeldIp(w) = NoIp
    BY <1>3, <1>7, <2>1, MakeHolds
  <2>4. CASE Goto(w, "undo_disk")
    <3>1. s.op = r.op /\ s.vm = v /\ s.pc = "undo_disk"
      BY <1>3, <1>4, <1>5, <2>4 DEF Goto, WorkerState
    <3>2. ClaimOfWorker(w)' = NoClaim /\ HeldIp(w)' = NoIp /\ \A g \in Hosts : ~HeldCount(w, g)'
      BY <1>3, <3>1, MakeHoldsNext
    <3> HIDE DEF C
    <3>3. ClaimEffect(v)
      BY <1>1, <1>2, <1>4, <1>5, <1>6, <1>7, <1>8, <1>9, <2>2, <2>3, <3>1, <3>2, ClaimStep
    <3>4. QED
      BY <3>3 DEF Effects
  <2>5. CASE End(w)
    <3>1. s = Idle
      BY <1>4, <2>5 DEF End
    <3>2. /\ RowClaim(vmrow'[v]) = NoClaim /\ vmrow'[v].mac_ip = NoIp
          /\ \A g \in Hosts : ~RowCount(vmrow'[v], g)
      BY <1>2, <1>3, <1>5, <2>1 DEF MakeKnows, SavedPcs, RowPlaced, RowClaim, RowCount
    <3> HIDE DEF C
    <3>3. ClaimEffect(v)
      BY <1>1, <1>2, <1>4, <1>5, <1>6, <1>7, <1>8, <1>9, <2>2, <2>3, <3>1, <3>2, ClaimStep
    <3>4. QED
      BY <3>3 DEF Effects
  <2>6. QED
    BY <1>11, <2>4, <2>5 DEF UndoHost
<1>12. CASE Count(w)
  <2>1. r.pc = "count" /\ vm_created_num_add_1(h) /\ s = Idle
    BY <1>4, <1>12 DEF Count, At, End
  <2>2. /\ vmrow'[v].vm_status = "normal" /\ vmrow'[v].host = h /\ vmrow'[v].mac_ip = r.ip
        /\ vmrow'[v].vcpu = r.vcpu /\ vmrow'[v].mem = r.mem
    BY <1>2, <1>3, <1>5, <2>1 DEF MakeKnows, SavedPcs
  <2>3. ClaimOfWorker(w) = C /\ HeldIp(w) = r.ip
    BY <1>3, <1>7, <2>1, MakeHolds
  <2>4. RowClaim(vmrow'[v]) = C /\ \A g \in Hosts : RowCount(vmrow'[v], g) <=> g \in {h}
    BY <2>2 DEF RowClaim, RowCount
  <2> HIDE DEF C
  <2>5. CountEffect(v)
    BY <1>1, <1>2, <1>4, <1>5, <1>6, <1>9, <2>1, <2>2, <2>3, <2>4, CountStep
  <2>6. QED
    BY <2>5 DEF Effects
<1>13. QED
  BY <1>10, <1>11, <1>12

-----------------------------------------------------------------------------
(* The steps of the requests on a vm that exists, or on its archive record. *)

\* What a delete, a shelve or an edit holds, by its pc.
TakeHolds(w) ==
    LET r == worker[w]
        claim == [host |-> r.host, vcpu |-> r.vcpu, mem |-> r.mem]
    IN  /\ r.op \in Deletes =>
              /\ ClaimOfWorker(w) = IF r.pc \in {"rename", "rename_save"}
                                    THEN NoClaim
                                    ELSE claim
              /\ HeldIp(w) = IF r.pc \in {"free_host", "rename", "rename_save"}
                             THEN NoIp
                             ELSE r.ip
              /\ \A h \in Hosts : HeldCount(w, h) <=>
                    /\ r.pc \notin {"free_ip", "free_host", "rename", "rename_save"}
                    /\ h = r.host
        /\ r.op = "shelve" =>
              /\ ClaimOfWorker(w) = IF r.pc \in {"undefine", "free_ip", "free_host"}
                                    THEN claim
                                    ELSE NoClaim
              /\ HeldIp(w) = IF r.pc \in {"undefine", "free_ip"} THEN r.ip ELSE NoIp
              /\ \A h \in Hosts : HeldCount(w, h) <=> r.pc # "shelve_save" /\ h = r.host
        /\ r.op = "edit" =>
              /\ ClaimOfWorker(w) = IF r.pc \in {"deduct", "edit_redefine"}
                                    THEN [host |-> r.host, vcpu |-> r.row.vcpu,
                                          mem |-> r.row.mem]
                                    ELSE claim
              /\ HeldIp(w) = r.ip
              /\ \A h \in Hosts : HeldCount(w, h) <=> h = r.host

\* The pc of a delete, a shelve or an edit says what it holds.
LEMMA TakesHold == \A w \in Workers : TakeHolds(w)
  BY DEF TakeHolds, Deletes, ClaimOfWorker, HoldsHost, HeldIp, HoldsIp,
         HeldCount, HoldsCount

\* The same in the next state.
LEMMA TakesHoldNext == (\A w \in Workers : TakeHolds(w))'
  BY TakesHold, PTL

\* A step of a request that acts neither before nor after it, and changes no
\* row that holds anything, has no effect.
LEMMA UnengagedStep ==
    ASSUME SInv, SInv', NEW w \in Workers, Step(w), ~Acts(w), ~Acts(w)',
           UNCHANGED <<host, used>>,
           NEW row, row = vmrow[worker[w].vm],
           NEW after, after = vmrow'[worker[w].vm],
           after = row \/ (row.vm_status # "normal" /\ after.vm_status # "normal")
    PROVE  NoEffect
<1>1. OnlyAt(w, worker[w].vm)
  BY StepIsOnlyAt
<1>2. ASSUME NEW v \in Vms
      PROVE  SameAccount(v)
  BY <1>1, AccountKept DEF OnlyAt
<1>3. QED
  BY <1>2 DEF NoEffect

\* The first archiving of a delete: from the row the account of the vm passes
\* to the request, which loaded it from that row.
LEMMA ArchiveStep ==
    ASSUME SInv, SInv', NEW w \in Workers, Archive(w), Acts(w)'
    PROVE  NoEffect
<1> DEFINE r == worker[w]
           s == worker'[w]
<1>1. /\ Step(w) /\ r.pc = "archive" /\ UNCHANGED <<host, used, vmrow>>
  BY DEF Step, Archive, At, ResourcesUnchanged
<1>2. /\ r \in WorkerState /\ r.vm \in Vms
      /\ worker \in [Workers -> WorkerState]
  BY <1>1, RequestKnows DEF SInv, IInv, WorkersInv
<1>3. PICK v \in Vms : r.vm = v
  BY <1>2
<1>4. s # Idle
  BY VmAssumption DEF Acts, Idle
<1>5. /\ s.op = r.op /\ s.vm = v /\ s.pc \in {"undefine", "rowdel"} /\ s.host = r.host
      /\ s.ip = r.ip /\ s.vcpu = r.vcpu /\ s.mem = r.mem
      /\ archive[v] = NoArchive \/ r.op \in {"delshelve", "force_delete"}
  BY <1>2, <1>3, <1>4 DEF Archive, End, WorkerState
<1>6. r.op \in Deletes /\ DeleteKnows(r, vmrow[v], archive[v])
  BY <1>1, <1>3, <1>5, TakeAt
     DEF Acts, MakePcs, SavedPcs, ShelveKnows, EditKnows
<1>7. vmrow[v] = r.row /\ Own(r) /\ OwnSize(r)
  BY <1>1, <1>5, <1>6 DEF DeleteKnows
<1>8. OnlyAt(w, v)
  BY <1>1, <1>3, StepIsOnlyAt
<1>9. \A x \in Workers : Acts(x) => worker[x].vm # v
  <2> SUFFICES ASSUME NEW x \in Workers, Acts(x), worker[x].vm = v
               PROVE  FALSE
    OBVIOUS
  <2>1. x # w /\ worker'[x] = worker[x]
    BY <1>1, <1>8 DEF Acts, OnlyAt
  <2>2. Together(worker'[w], worker[x])
    BY <1>5, <2>1 DEF SInv, AloneInv
  <2>3. QED
    BY <1>5, <1>6, <2>2 DEF Together, Acts, Deletes
<1>10. ByRow(v)
  BY <1>9, AccountedBySInv DEF Accounted
<1>11. ByRequest(v, w)'
  BY <1>5, AccountedNext DEF Accounted
<1>12. /\ ClaimOfWorker(w)' = [host |-> r.host, vcpu |-> r.vcpu, mem |-> r.mem]
       /\ HeldIp(w)' = r.ip
       /\ \A h \in Hosts : HeldCount(w, h)' <=> h = r.host
  BY <1>5, <1>6, TakesHoldNext DEF TakeHolds
<1>13. /\ RowClaim(vmrow[v]) = [host |-> r.host, vcpu |-> r.vcpu, mem |-> r.mem]
       /\ vmrow[v].mac_ip = r.ip
       /\ \A h \in Hosts : RowCount(vmrow[v], h) <=> h = r.host
  BY <1>7 DEF Own, OwnSize, RowClaim, RowCount
<1>14. SameAccount(v)
  BY <1>10, <1>11, <1>12, <1>13 DEF ByRow, ByRequest, SameAccount
<1>15. ASSUME NEW x \in Vms \ {v}
       PROVE  SameAccount(x)
  BY <1>1, <1>3, <1>5, <1>8, AccountKept DEF OnlyAt
<1>16. QED
  BY <1>1, <1>14, <1>15 DEF NoEffect

\* What a delete or shelve has not given back, and what an edit claims before
\* it deducts, is what the row it loaded says.
LEMMA OwnHeld ==
    ASSUME NEW w \in Workers, Own(worker[w]),
           \/ /\ worker[w].op \in Deletes /\ OwnSize(worker[w])
              /\ worker[w].pc \in BeforeRowdel
           \/ /\ worker[w].op = "shelve" /\ OwnSize(worker[w])
              /\ worker[w].pc = "undefine"
           \/ worker[w].op = "edit" /\ worker[w].pc = "deduct"
    PROVE  /\ ClaimOfWorker(w) = RowClaim(worker[w].row)
           /\ HeldIp(w) = worker[w].row.mac_ip
           /\ \A h \in Hosts : HeldCount(w, h) <=> RowCount(worker[w].row, h)
<1>1. TakeHolds(w)
  BY TakesHold
<1>2. QED
  BY <1>1 DEF TakeHolds, Own, OwnSize, BeforeRowdel, RowClaim, RowCount, Deletes

\* A step of a request that goes on with what it held has no effect.
LEMMA TakeGoesOn ==
    ASSUME SInv, SInv', NEW w \in Workers, Step(w), Acts(w),
           UNCHANGED <<host, used>>,
           NEW r, NEW s, r = worker[w], s = worker'[w],
           s.op = r.op, s.host = r.host, s.ip = r.ip, s.vcpu = r.vcpu, s.mem = r.mem,
           \/ /\ r.op \in Deletes
              /\ \/ /\ r.pc \in BeforeRowdel
                    /\ s.pc \in BeforeRowdel \cup {"uncount"}
                 \/ r.pc = "rename" /\ s.pc = "rename_save"
           \/ r.op = "shelve" /\ r.pc = "undefine" /\ s.pc = "free_ip"
           \/ /\ r.op = "edit" /\ r.pc = "redefine"
              /\ s.pc \in {"edit_save", "edit_undo"}
    PROVE  NoEffect
<1>1. TakeHolds(w) /\ TakeHolds(w)'
  BY TakesHold, TakesHoldNext
<1>2. s.pc \notin {"idle", "archive"}
  BY DEF BeforeRowdel
<1>3. /\ ClaimOfWorker(w)' = ClaimOfWorker(w)
      /\ HeldIp(w)' = HeldIp(w)
      /\ \A h \in Hosts : HeldCount(w, h)' <=> HeldCount(w, h)
  BY <1>1 DEF TakeHolds, BeforeRowdel, Deletes
<1>4. QED
  BY <1>2, <1>3, QuietStep

\* The steps of requests on a vm that exists, or on its archive record, that
\* only move domains, images, records and rows have no effect: what is given
\* back is given back by the others.
LEMMA TakeHasNoEffect ==
    ASSUME SInv, SInv', NEW w \in Workers,
           \/ Refuse(w) \/ Archive(w) \/ Undefine(w) \/ UndefineHostDown(w)
           \/ UndefineFails(w) \/ ReleaseHost(w) \/ RemoveDisk(w)
           \/ DeleteArchive(w) \/ DeleteRow(w) \/ RenameDisk(w) \/ RenameSave(w)
           \/ ShelveSave(w) \/ Redefine(w) \/ RedefineFails(w) \/ EditSave(w)
    PROVE  NoEffect
<1> DEFINE r == worker[w]
           s == worker'[w]
<1>1. Step(w)
  BY DEF Step
<1>2. /\ r.pc \in {"archive", "undefine", "deduct", "ahv_release", "ahv_disk",
                   "ahv_row", "rowdel", "rename", "rename_save", "shelve_save",
                   "redefine", "edit_save"}
      /\ UNCHANGED <<host, used>>
  BY DEF Refuse, Archive, Undefine, UndefineHostDown, UndefineFails, ReleaseHost,
         RemoveDisk, DeleteArchive, DeleteRow, RenameDisk, RenameSave, ShelveSave,
         Redefine, RedefineFails, EditSave, At, ResourcesUnchanged
<1>3. /\ r \in WorkerState /\ r.vm \in Vms
      /\ worker \in [Workers -> WorkerState] /\ vmrow \in [Vms -> VmRow]
      /\ RowPlaced(vmrow[r.vm])
  BY <1>2, RequestKnows DEF SInv, IInv, WorkersInv, RowsInv
<1>4. PICK v \in Vms : r.vm = v
  BY <1>3
<1> DEFINE row == vmrow[v]
<1>5. \/ r.op \in Deletes /\ DeleteKnows(r, row, archive[v])
      \/ r.op = "shelve" /\ ShelveKnows(r, row)
      \/ r.op = "edit" /\ EditKnows(r, row)
      \/ r.op = "delshelve" /\ DelshelveKnows(r, row)
      \/ r.op = "purge" /\ r.pc \in {"ahv_release", "ahv_disk", "ahv_row"}
  BY <1>2, <1>4, TakeAt DEF MakePcs, SavedPcs
<1>6. \/ s = Idle
      \/ s.vm = r.vm /\ s.op = r.op
  BY <1>1, StepIsOnlyAt
<1>7. ~Acts(w) => r.pc = "archive" \/ r.op \in {"purge", "delshelve"}
  BY <1>3 DEF Acts
<1>8. CASE ~Acts(w) /\ ~Acts(w)'
  <2>1. vmrow' = vmrow \/ r.pc \in {"rowdel", "shelve_save", "edit_save"}
    BY DEF Refuse, Archive, Undefine, UndefineHostDown, UndefineFails, ReleaseHost,
           RemoveDisk, DeleteArchive, DeleteRow, RenameDisk, RenameSave, ShelveSave,
           Redefine, RedefineFails, EditSave, At, ResourcesUnchanged
  <2>2. CASE vmrow' # vmrow
    <3>1. r.op = "delshelve" /\ r.pc = "rowdel" /\ row.vm_status # "normal"
      BY <1>5, <1>7, <1>8, <2>1, <2>2
         DEF DelshelveKnows, DeleteKnows, ShelveKnows, EditKnows, BeforeRowdel, Deletes
    <3>2. DeleteRow(w)
      BY <3>1 DEF Refuse, Archive, Undefine, UndefineHostDown, UndefineFails,
             ReleaseHost, RemoveDisk, DeleteArchive, RenameDisk, RenameSave,
             ShelveSave, Redefine, RedefineFails, EditSave, At
    <3>3. vmrow'[v] = NoRow /\ NoRow.vm_status # "normal"
      BY <1>3, <1>4, <3>2 DEF DeleteRow, NoRow
    <3>4. QED
      BY <1>1, <1>2, <1>4, <1>8, <3>1, <3>3, UnengagedStep
  <2>3. CASE vmrow' = vmrow
    BY <1>1, <1>2, <1>8, <2>3, UnengagedStep
  <2>4. QED
    BY <2>2, <2>3
<1>9. CASE ~Acts(w) /\ Acts(w)'
  <2>1. r.pc = "archive" /\ s # Idle
    BY <1>6, <1>7, <1>9, VmAssumption DEF Acts, Idle
  <2>2. Archive(w)
    BY <1>3, <2>1
       DEF Refuse, End, Undefine, UndefineHostDown, UndefineFails, ReleaseHost,
           RemoveDisk, DeleteArchive, DeleteRow, RenameDisk, RenameSave, ShelveSave,
           Redefine, RedefineFails, EditSave, At
  <2>3. QED
    BY <1>9, <2>2, ArchiveStep
<1>10. CASE Acts(w)
  <2>1. r.pc # "archive" /\ r.op \notin {"purge", "delshelve"}
    BY <1>10 DEF Acts
  <2>2. ASSUME s = Idle, vmrow' = vmrow, r.pc \in BeforeRowdel \cup {"deduct"}
        PROVE  NoEffect
    <3>1. Own(r) /\ row = r.row /\ vmrow'[v] = r.row
      BY <1>5, <2>1, <2>2 DEF DeleteKnows, ShelveKnows, EditKnows, BeforeRowdel
    <3>2. /\ ClaimOfWorker(w) = RowClaim(r.row)
          /\ HeldIp(w) = r.row.mac_ip
          /\ \A h \in Hosts : HeldCount(w, h) <=> RowCount(r.row, h)
      BY <1>5, <2>1, <2>2, <3>1, OwnHeld
         DEF DeleteKnows, ShelveKnows, EditKnows, BeforeRowdel, Deletes
    <3>3. QED
      BY <1>1, <1>2, <1>4, <1>10, <2>2, <3>1, <3>2, QuietEnd
  <2>3. ASSUME s = Idle, vmrow' = vmrow, r.pc \in {"rename", "rename_save"}
        PROVE  NoEffect
    <3>1. r.op \in Deletes /\ row = NoRow /\ vmrow'[v] = NoRow
      BY <1>5, <2>1, <2>3 DEF DeleteKnows, ShelveKnows, EditKnows, BeforeRowdel
    <3>2. /\ ClaimOfWorker(w) = NoClaim
          /\ HeldIp(w) = NoIp
          /\ \A h \in Hosts : ~HeldCount(w, h)
      BY <2>3, <3>1, TakesHold DEF TakeHolds
    <3>3. /\ RowClaim(NoRow) = NoClaim /\ NoRow.mac_ip = NoIp
          /\ \A h \in Hosts : ~RowCount(NoRow, h)
      BY DEF NoRow, RowClaim, RowCount
    <3>4. QED
      BY <1>1, <1>2, <1>4, <1>10, <2>3, <3>1, <3>2, <3>3, QuietEnd
  <2>4. ASSUME s.op = r.op, s.host = r.host, s.ip = r.ip, s.vcpu = r.vcpu, s.mem = r.mem,
               \/ /\ r.pc \in BeforeRowdel
                  /\ s.pc \in BeforeRowdel \cup {"uncount"}
                  /\ r.op \in Deletes
               \/ r.pc = "rename" /\ s.pc = "rename_save"
               \/ r.op = "shelve" /\ r.pc = "undefine" /\ s.pc = "free_ip"
               \/ r.pc = "redefine" /\ s.pc \in {"edit_save", "edit_undo"}
        PROVE  NoEffect
    <3>1. /\ r.pc = "redefine" => r.op = "edit"
          /\ r.pc = "rename" => r.op \in Deletes
      BY <1>5, <2>1 DEF DeleteKnows, ShelveKnows, EditKnows, BeforeRowdel, Deletes
    <3>2. QED
      BY <1>1, <1>2, <1>10, <2>4, <3>1, TakeGoesOn
  <2>5. CASE Refuse(w)
    BY <1>3, <2>1, <2>2, <2>5 DEF Refuse, End, BeforeRowdel
  <2>6. CASE Archive(w)
    BY <2>1, <2>6 DEF Archive, At
  <2>7. CASE Undefine(w)
    BY <1>3, <1>5, <2>1, <2>4, <2>7 DEF Undefine, At, EditKnows, Goto, WorkerState, BeforeRowdel
  <2>8. CASE UndefineHostDown(w)
    BY <1>3, <2>2, <2>4, <2>8 DEF UndefineHostDown, At, WorkerState, BeforeRowdel, End
  <2>9. CASE UndefineFails(w)
    BY <1>3, <2>2, <2>4, <2>9 DEF UndefineFails, Goto, At, WorkerState, BeforeRowdel, End, ResourcesUnchanged
  <2>10. CASE ReleaseHost(w) \/ RemoveDisk(w) \/ DeleteArchive(w)
    <3>1. r.op \in Deletes /\ vmrow' = vmrow
      BY <1>5, <2>1, <2>10
         DEF ReleaseHost, RemoveDisk, DeleteArchive, At, ShelveKnows, EditKnows
    <3>2. CASE s = Idle
      BY <2>2, <2>10, <3>1, <3>2 DEF ReleaseHost, RemoveDisk, DeleteArchive, At, BeforeRowdel
    <3>3. CASE s # Idle
      <4>1. CASE ReleaseHost(w)
        BY <1>3, <2>4, <3>1, <3>3, <4>1 DEF ReleaseHost, End, At, WorkerState, BeforeRowdel
      <4>2. CASE RemoveDisk(w)
        BY <1>3, <2>4, <3>1, <3>3, <4>2 DEF RemoveDisk, End, At, WorkerState, BeforeRowdel
      <4>3. CASE DeleteArchive(w)
        BY <1>3, <2>4, <3>1, <3>3, <4>3 DEF DeleteArchive, End, At, WorkerState, BeforeRowdel
      <4>4. QED
        BY <2>10, <4>1, <4>2, <4>3
    <3>4. QED
      BY <3>2, <3>3
  <2>11. CASE DeleteRow(w)
    BY <1>3, <1>5, <2>1, <2>4, <2>11 DEF DeleteRow, At, ShelveKnows, EditKnows, Goto, WorkerState, BeforeRowdel
  <2>12. CASE RenameDisk(w)
    BY <1>3, <2>3, <2>4, <2>12 DEF RenameDisk, At, Goto, End, WorkerState
  <2>13. CASE RenameSave(w)
    BY <1>3, <2>3, <2>13 DEF RenameSave, End, At
  <2>14. CASE ShelveSave(w)
    <3>1. r.op = "shelve" /\ r.pc = "shelve_save" /\ s = Idle
      BY <1>3, <1>5, <2>1, <2>14 DEF ShelveSave, At, End, DeleteKnows, EditKnows, BeforeRowdel
    <3>2. /\ ClaimOfWorker(w) = NoClaim /\ HeldIp(w) = NoIp
          /\ \A h \in Hosts : ~HeldCount(w, h)
      BY <3>1, TakesHold DEF TakeHolds
    <3>3. vmrow'[v].vm_status # "normal" /\ vmrow'[v].mac_ip = NoIp
      BY <1>3, <1>4, <2>14 DEF ShelveSave, VmRow, NoRow
    <3>4. RowClaim(vmrow'[v]) = NoClaim /\ \A h \in Hosts : ~RowCount(vmrow'[v], h)
      BY <3>3 DEF RowClaim, RowCount
    <3>5. QED
      BY <1>1, <1>2, <1>4, <1>10, <3>1, <3>2, <3>3, <3>4, QuietEnd
  <2>15. CASE Redefine(w)
    BY <1>3, <2>4, <2>15 DEF Redefine, Goto, At, WorkerState
  <2>16. CASE RedefineFails(w)
    BY <1>3, <2>4, <2>16 DEF RedefineFails, Goto, At, WorkerState
  <2>17. CASE EditSave(w)
    <3>1. r.op = "edit" /\ EditKnows(r, row) /\ r.pc = "edit_save"
      BY <1>5, <2>1, <2>17 DEF EditSave, At, DeleteKnows, ShelveKnows, BeforeRowdel
    <3>2. \A x \in Vms \ {v} : vmrow[x].mac_ip # r.ip
      BY <1>3, <1>4, <3>1 DEF EditKnows, Own, RowPlaced, SInv, RecordsInv
    <3>3. /\ s = Idle
          /\ vmrow'[v] = [r.row EXCEPT !.vcpu = r.vcpu, !.mem = r.mem]
      BY <1>3, <1>4, <2>17, <3>2 DEF EditSave, End
    <3>4. /\ ClaimOfWorker(w) = [host |-> r.host, vcpu |-> r.vcpu, mem |-> r.mem]
          /\ HeldIp(w) = r.ip
          /\ \A h \in Hosts : HeldCount(w, h) <=> h = r.host
      BY <3>1, TakesHold DEF TakeHolds
    <3>5. /\ vmrow'[v].vm_status = "normal" /\ vmrow'[v].host = r.host
          /\ vmrow'[v].mac_ip = r.ip /\ vmrow'[v].vcpu = r.vcpu /\ vmrow'[v].mem = r.mem
      BY <1>3, <3>1, <3>3 DEF EditKnows, Own, WorkerState, VmRow
    <3>6. /\ RowClaim(vmrow'[v]) = ClaimOfWorker(w)
          /\ \A h \in Hosts : RowCount(vmrow'[v], h) <=> HeldCount(w, h)
      BY <3>4, <3>5 DEF RowClaim, RowCount
    <3>7. QED
      BY <1>1, <1>2, <1>4, <1>10, <3>3, <3>4, <3>5, <3>6, QuietEnd
  <2>18. QED
    BY <2>5, <2>6, <2>7, <2>8, <2>9, <2>10, <2>11, <2>12, <2>13, <2>14, <2>15,
       <2>16, <2>17
<1>11. QED
  BY <1>8, <1>9, <1>10

\* The steps of a delete or a shelve that give something back.
LEMMA GiveBackEffect ==
    ASSUME SInv, SInv', LoadedUsed, NEW w \in Workers,
           Uncount(w) \/ FreeIp(w) \/ FreeHost(w)
    PROVE  Effects
<1> DEFINE r == worker[w]
           s == worker'[w]
           h == r.host
           C == [host |-> h, vcpu |-> r.vcpu, mem |-> r.mem]
<1>1. Step(w)
  BY DEF Step
<1>2. r.pc \in {"uncount", "free_ip", "free_host"}
  BY DEF Uncount, FreeIp, FreeHost, At
<1>3. /\ r \in WorkerState /\ r.vm \in Vms /\ RowPlaced(r.row)
      /\ worker \in [Workers -> WorkerState]
  BY <1>2, RequestKnows DEF PlacedAt, SInv, IInv, WorkersInv
<1>4. PICK v \in Vms : r.vm = v
  BY <1>3
<1>5. r.op \in Deletes \cup {"shelve"} /\ Own(r) /\ OwnSize(r)
  BY <1>2, TakeAt DEF MakePcs, SavedPcs, DeleteKnows, ShelveKnows, EditKnows, DelshelveKnows
<1>6. Acts(w)
  BY <1>2, <1>3, <1>5 DEF Acts, Deletes
<1>7. /\ h \in Hosts /\ r.ip \in Ips
      /\ r.vcpu \in Nat \ {0} /\ r.mem \in Nat \ {0}
  BY <1>3, <1>5 DEF Own, RowPlaced, OwnSize, WorkerState
<1>8. C \in ClaimOn(h) /\ NoClaim \in ClaimOn(h) /\ r.ip # NoIp
  BY <1>7, VmAssumption DEF ClaimOn
<1>9. NoClaim.vcpu - C.vcpu = -r.vcpu /\ NoClaim.mem - C.mem = -r.mem
  BY <1>7 DEF NoClaim
<1>10. TakeHolds(w) /\ TakeHolds(w)'
  BY TakesHold, TakesHoldNext
<1>11. CASE Uncount(w)
  <2>1. /\ r.pc = "uncount" /\ vm_created_num_sub_1(h) /\ UNCHANGED used
        /\ s.op = r.op /\ s.host = h /\ s.ip = r.ip /\ s.vcpu = r.vcpu /\ s.mem = r.mem
        /\ s.pc = IF r.op \in Deletes THEN "free_ip" ELSE "shelve_save"
    BY <1>3, <1>11 DEF Uncount, Goto, At, WorkerState
  <2>2. /\ ClaimOfWorker(w)' = ClaimOfWorker(w)
        /\ HeldIp(w)' = HeldIp(w)
        /\ \A g \in Hosts : HeldCount(w, g) <=> g \in {h} \ {}
        /\ \A g \in Hosts : HeldCount(w, g)' <=> g \in {}
    BY <1>5, <1>10, <2>1 DEF TakeHolds, Deletes
  <2> HIDE DEF h
  <2>3. CountEffect(v)
    BY <1>1, <1>4, <1>6, <1>7, <2>1, <2>2, CountStep
  <2>4. QED
    BY <2>3 DEF Effects
<1>12. CASE FreeIp(w)
  <2>1. /\ r.pc = "free_ip" /\ used' = [used EXCEPT ![r.ip] = FALSE]
        /\ UNCHANGED <<host, vmrow>>
        /\ s.op = r.op /\ s.host = h /\ s.ip = r.ip /\ s.vcpu = r.vcpu /\ s.mem = r.mem
        /\ s.pc = "free_host"
    BY <1>3, <1>5, <1>12 DEF FreeIp, set_free, LoadedUsed, Goto, At, WorkerState
  <2>2. /\ ClaimOfWorker(w)' = ClaimOfWorker(w)
        /\ HeldIp(w) = r.ip /\ HeldIp(w)' = NoIp
        /\ \A g \in Hosts : HeldCount(w, g)' <=> HeldCount(w, g)
    BY <1>5, <1>10, <2>1 DEF TakeHolds, Deletes
  <2>3. ByRequest(v, w) /\ ByRequest(v, w)' /\ OthersSame(v)
    BY <1>1, <1>4, <1>6, <2>1, ActorAccount DEF Idle
  <2>4. SameClaim(v) /\ SameCount(v) /\ IpOf(v) = r.ip /\ IpOf(v)' = NoIp
    BY <2>2, <2>3 DEF ByRequest, SameClaim, SameCount
  <2>5. AddressEffect(v)
    BY <1>7, <2>1, <2>3, <2>4 DEF AddressEffect
  <2>6. QED
    BY <2>5 DEF Effects
<1>13. CASE FreeHost(w)
  <2>1. /\ r.pc = "free_host" /\ free(h, r.vcpu, r.mem) /\ UNCHANGED used
        /\ s.op = r.op /\ s.host = h /\ s.ip = r.ip
        /\ s.pc = IF r.op \in Deletes THEN "rename" ELSE "uncount"
    BY <1>3, <1>13 DEF FreeHost, Goto, At, WorkerState
  <2>2. deduct_delta(h, -r.vcpu, -r.mem)
    BY <1>7, <2>1, FreeMatches DEF SInv, IInv
  <2>3. /\ ClaimOfWorker(w) = C /\ ClaimOfWorker(w)' = NoClaim
        /\ HeldIp(w)' = HeldIp(w)
        /\ \A g \in Hosts : HeldCount(w, g)' <=> HeldCount(w, g)
    BY <1>5, <1>10, <2>1 DEF TakeHolds, Deletes
  <2> HIDE DEF C
  <2>4. ClaimEffect(v)
    BY <1>1, <1>4, <1>6, <1>7, <1>8, <1>9, <2>1, <2>2, <2>3, ClaimStep
  <2>5. QED
    BY <2>4 DEF Effects
<1>14. QED
  BY <1>11, <1>12, <1>13

\* The steps of an edit that claim the difference or give it back.
LEMMA EditEffect ==
    ASSUME SInv, SInv', NEW w \in Workers,
           Deduct(w) \/ EditUndo(w) \/ EditRedefine(w)
    PROVE  Effects
<1> DEFINE r == worker[w]
           s == worker'[w]
           h == r.host
           C == [host |-> h, vcpu |-> r.row.vcpu, mem |-> r.row.mem]
           D == [host |-> h, vcpu |-> r.vcpu, mem |-> r.mem]
<1>1. Step(w)
  BY DEF Step
<1>2. /\ r.pc \in {"deduct", "edit_undo", "save_undo", "edit_redefine"}
      /\ UNCHANGED <<used, vmrow>>
  BY DEF Deduct, EditUndo, EditRedefine, At, ResourcesUnchanged
<1>3. /\ r \in WorkerState /\ r.vm \in Vms /\ RowPlaced(r.row)
      /\ worker \in [Workers -> WorkerState]
  BY <1>2, RequestKnows DEF PlacedAt, SInv, IInv, WorkersInv
<1>4. PICK v \in Vms : r.vm = v
  BY <1>3
<1>5. r.op = "edit" /\ EditKnows(r, vmrow[v])
  BY <1>2, <1>4, TakeAt
     DEF MakePcs, SavedPcs, DeleteKnows, ShelveKnows, DelshelveKnows, BeforeRowdel
<1>6. Acts(w) /\ r.pc \in {"deduct", "edit_undo"}
  BY <1>2, <1>3, <1>5 DEF Acts, EditKnows
<1>7. vmrow[v] = r.row /\ Own(r)
  BY <1>5 DEF EditKnows
<1>8. /\ r.vcpu \in Nat \ {0} /\ r.mem \in Nat \ {0}
      /\ r.row.vcpu \in Nat \ {0} /\ r.row.mem \in Nat \ {0}
      /\ h \in Hosts
  BY <1>3, <1>5, <1>7 DEF WorkerState, Own, RowPlaced, SInv, RecordsInv, RowSized, EditKnows, VmRow
<1>9. C \in ClaimOn(h) /\ D \in ClaimOn(h)
  BY <1>8 DEF ClaimOn
<1>10. /\ D.vcpu - C.vcpu = CpuDelta(w) /\ D.mem - C.mem = MemDelta(w)
       /\ C.vcpu - D.vcpu = -CpuDelta(w) /\ C.mem - D.mem = -MemDelta(w)
  BY <1>8 DEF CpuDelta, MemDelta
<1>11. TakeHolds(w) /\ TakeHolds(w)'
  BY TakesHold, TakesHoldNext
<1>12. /\ RowClaim(vmrow'[v]) = C /\ vmrow'[v].mac_ip = r.ip
       /\ \A g \in Hosts : RowCount(vmrow'[v], g) <=> g = h
  BY <1>2, <1>7 DEF Own, RowClaim, RowCount
<1>13. HeldIp(w) = r.ip /\ \A g \in Hosts : HeldCount(w, g) <=> g = h
  BY <1>5, <1>11 DEF TakeHolds
<1>14. CASE Deduct(w)
  <2>1. r.pc = "deduct" /\ ClaimOfWorker(w) = C
    BY <1>5, <1>11, <1>14 DEF Deduct, At, TakeHolds
  <2>2. CASE deduct_delta(h, CpuDelta(w), MemDelta(w)) /\ Goto(w, "redefine")
    <3>1. /\ s.op = "edit" /\ s.pc = "redefine" /\ s.host = h /\ s.ip = r.ip
          /\ s.vcpu = r.vcpu /\ s.mem = r.mem
      BY <1>3, <1>5, <2>2 DEF Goto, WorkerState
    <3>2. /\ ClaimOfWorker(w)' = D
          /\ HeldIp(w)' = HeldIp(w)
          /\ \A g \in Hosts : HeldCount(w, g)' <=> HeldCount(w, g)
      BY <1>11, <1>13, <3>1 DEF TakeHolds
    <3> HIDE DEF C, D
    <3>3. ClaimEffect(v)
      BY <1>1, <1>2, <1>4, <1>6, <1>8, <1>9, <1>10, <2>1, <2>2, <3>1, <3>2, ClaimStep
    <3>4. QED
      BY <3>3 DEF Effects
  <2>3. CASE End(w) /\ UNCHANGED host
    BY <1>1, <1>2, <1>3, <1>4, <1>6, <1>12, <1>13, <2>1, <2>3, QuietEnd DEF End, Effects
  <2>4. QED
    BY <1>14, <2>2, <2>3 DEF Deduct
<1>15. CASE EditUndo(w)
  <2>1. r.pc = "edit_undo" /\ s = Idle
    BY <1>3, <1>6, <1>15 DEF EditUndo, At, End
  <2>2. ClaimOfWorker(w) = D
    BY <1>5, <1>11, <2>1 DEF TakeHolds
  <2>3. CpuDelta(w) \in Nat /\ MemDelta(w) \in Nat
    BY <1>5, <1>8, <2>1 DEF EditKnows, CpuDelta, MemDelta
  <2>4. deduct_delta(h, -CpuDelta(w), -MemDelta(w))
    BY <1>8, <1>15, <2>3, FreeMatches DEF EditUndo, SInv, IInv
  <2> HIDE DEF C, D
  <2>5. ClaimEffect(v)
    BY <1>1, <1>2, <1>4, <1>6, <1>8, <1>9, <1>10, <1>12, <1>13, <2>1, <2>2, <2>4, ClaimStep
  <2>6. QED
    BY <2>5 DEF Effects
<1>16. CASE EditRedefine(w)
  BY <1>6, <1>16 DEF EditRedefine, At
<1>17. QED
  BY <1>14, <1>15, <1>16

\* Every step of a request has one of the effects.
LEMMA StepEffects ==
    ASSUME SInv, SInv', LoadedUsed, Serial, NEW w \in Workers, Step(w)
    PROVE  Effects
<1>1. NoEffect => Effects
  BY DEF Effects
<1>2. QED
  BY <1>1, MakeHasNoEffect, MakeAddressEffect, MakeHostEffect, TakeHasNoEffect,
     GiveBackEffect, EditEffect DEF Step

-----------------------------------------------------------------------------
(* The arrival of a request. *)

\* Where a request of each kind begins, on a vm whose row it does not change,
\* and what a delete or shelve loads of the address.
LEMMA ArrivalBegins ==
    ASSUME SInv, NEW w \in Workers, Arrive(w)
    PROVE  \E v \in Vms :
              /\ UNCHANGED <<host, used, vmrow>>
              /\ worker[w].pc = "idle"
              /\ worker'[w].vm = v
              /\ \A x \in Workers \ {w} : worker'[x] = worker[x]
              /\ \/ /\ worker'[w].op \in Makes
                    /\ worker'[w].pc = "ip" \/ (worker'[w].pc = "pick" /\ worker'[w].need)
                 \/ worker'[w].op \in Deletes \cup {"delshelve"} /\ worker'[w].pc = "archive"
                 \/ worker'[w].op = "shelve" /\ worker'[w].pc = "undefine"
                 \/ worker'[w].op = "edit" /\ worker'[w].pc = "deduct"
                 \/ worker'[w].op = "purge" /\ worker'[w].pc = "ahv_release"
              /\ worker'[w].op \in Deletes \cup {"shelve"} =>
                    /\ vmrow[v].vm_status = "normal"
                    /\ worker'[w].ip_used = used[vmrow[v].mac_ip]
<1>1. PICK v \in Vms :
         \/ \E c \in VcpuSizes, m \in MemSizes : CreateStart(w, v, c, m)
         \/ \E op \in Deletes : DeleteStart(w, v, op)
         \/ ShelveStart(w, v)
         \/ UnshelveStart(w, v)
         \/ DelshelveStart(w, v)
         \/ \E c \in VcpuSizes \cup {0}, m \in MemSizes \cup {0} : EditStart(w, v, c, m)
         \/ PurgeStart(w, v)
  BY DEF Arrive
<1>2. worker \in [Workers -> WorkerState]
  BY DEF SInv, IInv, WorkersInv
<1>3. ASSUME NEW q, NEW pc, Begin(w, q, pc)
      PROVE  /\ worker'[w] = [q EXCEPT !.pc = pc]
             /\ \A x \in Workers \ {w} : worker'[x] = worker[x]
  BY <1>2, <1>3 DEF Begin
<1>4. UNCHANGED <<host, used, vmrow>> /\ worker[w].pc = "idle"
  BY <1>1 DEF CreateStart, DeleteStart, ShelveStart, UnshelveStart, DelshelveStart,
              EditStart, PurgeStart, ResourcesUnchanged, MayStart, At
<1> DEFINE s == worker'[w]
<1>5. CASE \E c \in VcpuSizes, m \in MemSizes : CreateStart(w, v, c, m)
  <2>1. PICK c \in VcpuSizes, m \in MemSizes : CreateStart(w, v, c, m)
    BY <1>5
  <2> DEFINE q == [Idle EXCEPT !.op = "create", !.vm = v, !.vcpu = c, !.mem = m]
  <2>2. CASE \E i \in Ips : Begin(w, [q EXCEPT !.ip = i, !.groups = {IpGroup[i]}], "ip")
    <3>1. PICK i \in Ips : Begin(w, [q EXCEPT !.ip = i, !.groups = {IpGroup[i]}], "ip")
      BY <2>2
    <3>2. s = [[q EXCEPT !.ip = i, !.groups = {IpGroup[i]}] EXCEPT !.pc = "ip"]
          /\ \A x \in Workers \ {w} : worker'[x] = worker[x]
      BY <1>3, <3>1
    <3>3. s.vm = v /\ s.op = "create" /\ s.pc = "ip"
      BY <3>2 DEF Idle
    <3>4. QED
      BY <1>4, <3>2, <3>3 DEF Makes, Deletes
  <2>3. CASE \E gs \in SUBSET Groups \ {{}} :
                Begin(w, [q EXCEPT !.groups = gs, !.need = TRUE], "pick")
    <3>1. PICK gs \in SUBSET Groups :
             Begin(w, [q EXCEPT !.groups = gs, !.need = TRUE], "pick")
      BY <2>3
    <3>2. s = [[q EXCEPT !.groups = gs, !.need = TRUE] EXCEPT !.pc = "pick"]
          /\ \A x \in Workers \ {w} : worker'[x] = worker[x]
      BY <1>3, <3>1
    <3>3. s.vm = v /\ s.op = "create" /\ s.pc = "pick" /\ s.need
      BY <3>2 DEF Idle
    <3>4. QED
      BY <1>4, <3>2, <3>3 DEF Makes, Deletes
  <2>4. QED
    BY <2>1, <2>2, <2>3 DEF CreateStart
<1>6. CASE \E op \in Deletes : DeleteStart(w, v, op)
  <2>1. PICK op \in Deletes : DeleteStart(w, v, op)
    BY <1>6
  <2>2. /\ s = [[Loaded(op, v) EXCEPT !.ip_used = used[vmrow[v].mac_ip]] EXCEPT !.pc = "archive"]
        /\ \A x \in Workers \ {w} : worker'[x] = worker[x]
        /\ vmrow[v].vm_status = "normal"
    BY <1>3, <2>1 DEF DeleteStart
  <2>3. s.vm = v /\ s.op = op /\ s.pc = "archive" /\ s.ip_used = used[vmrow[v].mac_ip]
    BY <2>2 DEF Loaded, Idle
  <2>4. QED
    BY <1>4, <2>2, <2>3
<1>7. CASE ShelveStart(w, v)
  <2>1. /\ s = [[Loaded("shelve", v) EXCEPT !.ip_used = used[vmrow[v].mac_ip]]
                   EXCEPT !.pc = "undefine"]
        /\ \A x \in Workers \ {w} : worker'[x] = worker[x]
        /\ vmrow[v].vm_status = "normal"
    BY <1>3, <1>7 DEF ShelveStart
  <2>2. s.vm = v /\ s.op = "shelve" /\ s.pc = "undefine" /\ s.ip_used = used[vmrow[v].mac_ip]
    BY <2>1 DEF Loaded, Idle
  <2>3. QED
    BY <1>4, <2>1, <2>2
<1>8. CASE UnshelveStart(w, v)
  <2> DEFINE q == [Loaded("unshelve", v) EXCEPT !.host = NoHost, !.ip = NoIp]
  <2>1. ASSUME NEW i, NEW gs, Begin(w, [q EXCEPT !.ip = i, !.groups = gs], "ip")
        PROVE  s.vm = v /\ s.op = "unshelve" /\ s.pc = "ip"
               /\ \A x \in Workers \ {w} : worker'[x] = worker[x]
    <3>1. s = [[q EXCEPT !.ip = i, !.groups = gs] EXCEPT !.pc = "ip"]
          /\ \A x \in Workers \ {w} : worker'[x] = worker[x]
      BY <1>3, <2>1
    <3>2. QED
      BY <3>1 DEF Loaded, Idle
  <2>2. ASSUME NEW gs, Begin(w, [q EXCEPT !.groups = gs, !.need = TRUE], "pick")
        PROVE  s.vm = v /\ s.op = "unshelve" /\ s.pc = "pick" /\ s.need
               /\ \A x \in Workers \ {w} : worker'[x] = worker[x]
    <3>1. s = [[q EXCEPT !.groups = gs, !.need = TRUE] EXCEPT !.pc = "pick"]
          /\ \A x \in Workers \ {w} : worker'[x] = worker[x]
      BY <1>3, <2>2
    <3>2. QED
      BY <3>1 DEF Loaded, Idle
  <2>3. \/ \E i, gs : Begin(w, [q EXCEPT !.ip = i, !.groups = gs], "ip")
        \/ \E gs : Begin(w, [q EXCEPT !.groups = gs, !.need = TRUE], "pick")
    BY <1>8 DEF UnshelveStart
  <2> HIDE DEF q
  <2>4. CASE \E i, gs : Begin(w, [q EXCEPT !.ip = i, !.groups = gs], "ip")
    BY <1>4, <2>1, <2>4 DEF Makes, Deletes
  <2>5. CASE \E gs : Begin(w, [q EXCEPT !.groups = gs, !.need = TRUE], "pick")
    BY <1>4, <2>2, <2>5 DEF Makes, Deletes
  <2>6. QED
    BY <2>3, <2>4, <2>5
<1>9. CASE DelshelveStart(w, v)
  <2>1. /\ s = [Loaded("delshelve", v) EXCEPT !.pc = "archive"]
        /\ \A x \in Workers \ {w} : worker'[x] = worker[x]
    BY <1>3, <1>9 DEF DelshelveStart
  <2>2. s.vm = v /\ s.op = "delshelve" /\ s.pc = "archive"
    BY <2>1 DEF Loaded, Idle
  <2>3. QED
    BY <1>4, <2>1, <2>2 DEF Deletes
<1>10. CASE \E c \in VcpuSizes \cup {0}, m \in MemSizes \cup {0} : EditStart(w, v, c, m)
  <2>1. PICK c, m : Begin(w, [Loaded("edit", v) EXCEPT
                                !.vcpu = IF c > 0 THEN c ELSE @,
                                !.mem  = IF m > 0 THEN m ELSE @], "deduct")
    BY <1>10 DEF EditStart
  <2>2. /\ s = [[Loaded("edit", v) EXCEPT !.vcpu = IF c > 0 THEN c ELSE @,
                                          !.mem  = IF m > 0 THEN m ELSE @]
                   EXCEPT !.pc = "deduct"]
        /\ \A x \in Workers \ {w} : worker'[x] = worker[x]
    BY <1>3, <2>1
  <2>3. s.vm = v /\ s.op = "edit" /\ s.pc = "deduct"
    BY <2>2 DEF Loaded, Idle
  <2>4. QED
    BY <1>4, <2>2, <2>3 DEF Deletes
<1>11. CASE PurgeStart(w, v)
  <2>1. /\ s = [[Idle EXCEPT !.op = "purge", !.vm = v, !.ahv = archive[v]]
                   EXCEPT !.pc = "ahv_release"]
        /\ \A x \in Workers \ {w} : worker'[x] = worker[x]
    BY <1>3, <1>11 DEF PurgeStart
  <2>2. s.vm = v /\ s.op = "purge" /\ s.pc = "ahv_release"
    BY <2>1 DEF Idle
  <2>3. QED
    BY <1>4, <2>1, <2>2 DEF Deletes
<1>12. QED
  BY <1>1, <1>5, <1>6, <1>7, <1>8, <1>9, <1>10, <1>11

\* A request that arrives has loaded the row: it takes over the account of the
\* vm, or, if it does not act yet, leaves it.
LEMMA ArriveHasNoEffect ==
    ASSUME SInv, SInv', NEW w \in Workers, Arrive(w)
    PROVE  NoEffect
<1> DEFINE s == worker'[w]
<1>1. PICK v \in Vms :
         /\ UNCHANGED <<host, used, vmrow>>
         /\ worker[w].pc = "idle"
         /\ s.vm = v
         /\ \A x \in Workers \ {w} : worker'[x] = worker[x]
         /\ \/ /\ s.op \in Makes
               /\ s.pc = "ip" \/ (s.pc = "pick" /\ s.need)
            \/ s.op \in Deletes \cup {"delshelve"} /\ s.pc = "archive"
            \/ s.op = "shelve" /\ s.pc = "undefine"
            \/ s.op = "edit" /\ s.pc = "deduct"
            \/ s.op = "purge" /\ s.pc = "ahv_release"
  BY ArrivalBegins
<1>2. ~Acts(w)
  BY <1>1, IdleHasNoVm DEF Acts
<1>3. ASSUME NEW x \in Vms, x # v \/ ~Acts(w)'
      PROVE  SameAccount(x)
  BY <1>1, <1>2, <1>3, AccountKept
<1>4. CASE Acts(w)'
  <2>1. s.op \notin Deletes \cup {"delshelve", "purge"}
    BY <1>1, <1>4 DEF Acts, Makes, Deletes
  <2>2. \A x \in Workers : Acts(x) => worker[x].vm # v
    <3> SUFFICES ASSUME NEW x \in Workers, Acts(x), worker[x].vm = v
                 PROVE  FALSE
      OBVIOUS
    <3>1. x # w /\ worker'[x] = worker[x]
      BY <1>1, <1>2
    <3>2. Together(worker'[w], worker[x])
      BY <1>1, <3>1 DEF SInv, AloneInv
    <3>3. QED
      BY <2>1, <3>2 DEF Together, Deletes
  <2>3. ByRow(v)
    BY <2>2, AccountedBySInv DEF Accounted
  <2>4. ByRequest(v, w)'
    BY <1>1, <1>4, AccountedNext DEF Accounted
  <2>5. /\ Knows(s, vmrow[v], archive'[v])
        /\ RowPlaced(vmrow[v])
    BY <1>1 DEF SInv, KnowsInv, At, IInv, RowsInv, StatusMatchesPlacement
  <2>6. /\ ClaimOfWorker(w)' = RowClaim(vmrow[v])
        /\ HeldIp(w)' = vmrow[v].mac_ip
        /\ \A h \in Hosts : HeldCount(w, h)' <=> RowCount(vmrow[v], h)
    <3>1. CASE s.op \in Makes
      <4>1. /\ MakeKnows(s, vmrow[v])
            /\ s.pc = "ip" \/ (s.pc = "pick" /\ s.need)
        BY <1>1, <2>5, <3>1 DEF Knows, Makes, Deletes
      <4>2. /\ s.host = NoHost /\ (s.pc = "pick" => s.ip = NoIp)
            /\ vmrow[v].vm_status # "normal" /\ vmrow[v].mac_ip = NoIp
        BY <2>5, <4>1 DEF MakeKnows, SavedPcs, RowPlaced
      <4>3. /\ ClaimOfWorker(w)' = NoClaim
            /\ HeldIp(w)' = NoIp
            /\ \A h \in Hosts : ~HeldCount(w, h)'
        BY <3>1, <4>1, <4>2, MakeHoldsNext
      <4>4. QED
        BY <4>2, <4>3 DEF RowClaim, RowCount
    <3>2. CASE s.op = "shelve"
      <4>1. /\ s.pc = "undefine" /\ ShelveKnows(s, vmrow[v])
        BY <1>1, <2>5, <3>2 DEF Knows, Makes, Deletes
      <4>2. TakeHolds(w)'
        BY TakesHoldNext
      <4>3. /\ ClaimOfWorker(w)' = [host |-> s.host, vcpu |-> s.vcpu, mem |-> s.mem]
            /\ HeldIp(w)' = s.ip
            /\ \A h \in Hosts : HeldCount(w, h)' <=> h = s.host
        BY <3>2, <4>1, <4>2 DEF TakeHolds
      <4>4. QED
        BY <4>1, <4>3 DEF ShelveKnows, Own, OwnSize, RowClaim, RowCount
    <3>3. CASE s.op = "edit"
      <4>1. /\ s.pc = "deduct" /\ EditKnows(s, vmrow[v])
        BY <1>1, <2>5, <3>3 DEF Knows, Makes, Deletes
      <4>2. TakeHolds(w)'
        BY TakesHoldNext
      <4>3. /\ ClaimOfWorker(w)' = [host |-> s.host, vcpu |-> s.row.vcpu,
                                    mem |-> s.row.mem]
            /\ HeldIp(w)' = s.ip
            /\ \A h \in Hosts : HeldCount(w, h)' <=> h = s.host
        BY <3>3, <4>1, <4>2 DEF TakeHolds
      <4>4. QED
        BY <4>1, <4>3 DEF EditKnows, Own, RowClaim, RowCount
    <3>4. QED
      BY <1>1, <2>1, <3>1, <3>2, <3>3
  <2>7. SameAccount(v)
    BY <2>3, <2>4, <2>6 DEF ByRow, ByRequest, SameAccount
  <2>8. QED
    BY <1>1, <1>3, <2>7 DEF NoEffect
<1>5. CASE ~Acts(w)'
  BY <1>1, <1>3, <1>5 DEF NoEffect
<1>6. QED
  BY <1>4, <1>5

\* Every step but a death, arrivals included, has one of the effects.
LEMMA NextEffects ==
    ASSUME SInv, SInv', LoadedUsed, Serial, [Next]_vars
    PROVE  Effects \/ \E w \in Workers : Crash(w)
<1>1. NoEffect => Effects
  BY DEF Effects
<1>2. ASSUME NEW w \in Workers, Arrive(w) \/ Step(w)
      PROVE  Effects
  BY <1>1, <1>2, StepEffects, ArriveHasNoEffect
<1>3. CASE UNCHANGED vars
  BY <1>1, <1>3, AccountKept DEF vars, NoEffect
<1>4. QED
  BY <1>2, <1>3 DEF Next

-----------------------------------------------------------------------------
(* Deaths of processes.                                                     *)

\* Shelve and edit are the requests whose death can leave a row with more than
\* is marked for it: a shelve has given back what its row still names, an edit
\* may have made the claim smaller before the row.
DeathsAreCovered == CrashOps \cap {"shelve", "edit"} = {}

\* What v held, columns and flags stay, or v holds less.
DropEffect(v) ==
    /\ UNCHANGED <<host, used>>
    /\ OthersSame(v)
    /\ SameClaim(v) \/ ClaimOf(v)' = NoClaim
    /\ SameIp(v) \/ IpOf(v)' = NoIp

\* The row that a dead request leaves holds what the request held, or nothing.
LEMMA DeathDrops ==
    ASSUME SInv, SInv', DeathsAreCovered, NEW w \in Workers, Crash(w)
    PROVE  NoEffect \/ \E v \in Vms : DropEffect(v)
<1> DEFINE r == worker[w]
<1>1. /\ r.pc # "idle" /\ r.op \in CrashOps
      /\ worker' = [worker EXCEPT ![w] = Idle]
      /\ UNCHANGED <<host, used, vmrow, archive>>
  BY DEF Crash, End, At, ResourcesUnchanged
<1>2. PICK v \in Vms : r.vm = v
  BY <1>1, RequestKnows
<1>3. OnlyAt(w, v) /\ worker'[w] = Idle
  BY <1>1, QuietIsOnlyAt
<1>4. CASE ~Acts(w)
  <2> SUFFICES ASSUME NEW x \in Vms
               PROVE  SameAccount(x)
    BY <1>1 DEF NoEffect
  <2>1. \A y \in Workers :
           \/ worker'[y] = worker[y]
           \/ ~Acts(y) /\ ~(Acts(y)' /\ worker'[y].vm = x)
    BY <1>3, <1>4, VmAssumption DEF OnlyAt, Acts, Idle
  <2>2. QED
    BY <1>1, <2>1, AccountKept
<1>5. CASE Acts(w)
  <2>1. ByRequest(v, w) /\ ByRow(v)' /\ OthersSame(v)
    BY <1>2, <1>3, <1>5, ActorOnlyAt
  <2>2. /\ ClaimOf(v) = ClaimOfWorker(w) /\ IpOf(v) = HeldIp(w)
        /\ ClaimOf(v)' = RowClaim(vmrow[v]) /\ IpOf(v)' = vmrow[v].mac_ip
    BY <1>1, <2>1 DEF ByRequest, ByRow
  <2>3. /\ Knows(r, vmrow[v], archive[v])
        /\ vmrow[v].vm_status # "normal" => vmrow[v].mac_ip = NoIp
    BY <1>1, <1>2, RequestKnows DEF RowPlaced
  <2>4. r.op \in Makes \cup Deletes
    BY <1>1, <1>5, <2>3 DEF DeathsAreCovered, Acts, Knows, OpKinds, Makes, Deletes
  <2>5. CASE vmrow[v].vm_status # "normal"
    BY <1>1, <2>1, <2>2, <2>3, <2>5 DEF RowClaim, DropEffect
  <2>6. CASE vmrow[v].vm_status = "normal" /\ r.op \in Makes
    <3>1. /\ r.pc \in SavedPcs
          /\ vmrow[v].host = r.host /\ vmrow[v].mac_ip = r.ip
          /\ vmrow[v].vcpu = r.vcpu /\ vmrow[v].mem = r.mem
          /\ r.host # NoHost
      BY <2>3, <2>6 DEF Knows, MakeKnows, Makes
    <3>2. HoldsHost(w) /\ HoldsIp(w)
      BY <2>6, <3>1 DEF HoldsHost, HoldsIp, Makes, SavedPcs
    <3>3. ClaimOfWorker(w) = RowClaim(vmrow[v]) /\ HeldIp(w) = vmrow[v].mac_ip
      BY <2>6, <3>1, <3>2 DEF ClaimOfWorker, HeldIp, RowClaim, Makes
    <3>4. QED
      BY <1>1, <2>1, <2>2, <3>3 DEF DropEffect, SameClaim, SameIp
  <2>7. CASE vmrow[v].vm_status = "normal" /\ r.op \in Deletes
    <3>1. DeleteKnows(r, vmrow[v], archive[v]) /\ r.pc # "archive"
      BY <1>5, <2>3, <2>7 DEF Knows, Acts
    <3>2. vmrow[v] = r.row /\ Own(r) /\ OwnSize(r) /\ r.pc \in BeforeRowdel
      BY <2>7, <3>1 DEF DeleteKnows, NoRow
    <3>3. HoldsHost(w) /\ HoldsIp(w)
      BY <2>7, <3>2 DEF HoldsHost, HoldsIp, BeforeRowdel
    <3>4. ClaimOfWorker(w) = RowClaim(vmrow[v]) /\ HeldIp(w) = vmrow[v].mac_ip
      BY <2>7, <3>2, <3>3 DEF ClaimOfWorker, HeldIp, RowClaim, Own, OwnSize, Deletes
    <3>5. QED
      BY <1>1, <2>1, <2>2, <3>4 DEF DropEffect, SameClaim, SameIp
  <2>8. QED
    BY <2>4, <2>5, <2>6, <2>7
<1>6. QED
  BY <1>4, <1>5

-----------------------------------------------------------------------------
(* The addresses. *)

\* What a delete or shelve loads of its address is that it is in use: the vm
\* is normal, and the row or an earlier delete of it accounts for the address.
LEMMA LoadedUsedNext ==
    ASSUME SInv, SInv', IpCovered, LoadedUsed, Serial, [Next]_vars
    PROVE  LoadedUsed'
<1> SUFFICES ASSUME NEW x \in Workers, worker'[x].op \in Deletes \cup {"shelve"}
             PROVE  worker'[x].ip_used
  BY DEF LoadedUsed
<1>1. Idle.op \notin Deletes \cup {"shelve"}
  BY DEF Idle, Deletes
<1>2. CASE worker'[x] = worker[x]
  BY <1>2 DEF LoadedUsed
<1>3. ASSUME NEW w \in Workers, Step(w), worker'[x] # worker[x]
      PROVE  worker'[x].ip_used
  BY <1>1, <1>3, StepIsOnlyAt DEF OnlyAt, LoadedUsed
<1>4. ASSUME NEW w \in Workers, Arrive(w), worker'[x] # worker[x]
      PROVE  worker'[x].ip_used
  <2> DEFINE s == worker'[w]
  <2>1. PICK v \in Vms :
           /\ UNCHANGED vmrow
           /\ worker[w].pc = "idle"
           /\ s.vm = v
           /\ \A y \in Workers \ {w} : worker'[y] = worker[y]
           /\ s.op \in Deletes \cup {"shelve"} =>
                 /\ vmrow[v].vm_status = "normal"
                 /\ s.ip_used = used[vmrow[v].mac_ip]
    BY <1>4, ArrivalBegins
  <2>2. x = w
    BY <1>4, <2>1
  <2>3. /\ vmrow[v].vm_status = "normal" /\ s.ip_used = used[vmrow[v].mac_ip]
        /\ vmrow[v].mac_ip \in Ips
    BY <2>1, <2>2 DEF SInv, IInv, RowsInv, StatusMatchesPlacement, RowPlaced, VmRow
  <2>4. IpOf(v) = vmrow[v].mac_ip
    <3>1. CASE \A y \in Workers : Acts(y) => worker[y].vm # v
      BY <3>1, AccountedBySInv DEF Accounted, ByRow
    <3>2. ASSUME NEW y \in Workers, Acts(y), worker[y].vm = v
          PROVE  IpOf(v) = vmrow[v].mac_ip
      <4>1. worker[y].pc # "idle"
        BY <3>2, IdleHasNoVm
      <4>2. y # w /\ worker'[y] = worker[y]
        BY <2>1, <4>1
      <4>3. Together(worker'[w], worker[y])
        BY <2>1, <3>2, <4>2 DEF SInv, AloneInv
      <4>4. worker[y].op = "delete" /\ worker[y].pc # "archive"
        BY <3>2, <4>3 DEF Together, Acts
      <4>5. worker[y].pc \notin MakePcs
        BY <4>4, MakeAt DEF Makes
      <4>6. DeleteKnows(worker[y], vmrow[v], archive[v])
        BY <3>2, <4>1, <4>4, <4>5, TakeAt
      <4>7. worker[y].pc \in BeforeRowdel /\ vmrow[v] = worker[y].row /\ Own(worker[y])
        BY <2>3, <4>4, <4>6 DEF DeleteKnows, NoRow
      <4>8. HeldIp(y) = vmrow[v].mac_ip
        BY <4>4, <4>6, <4>7, OwnHeld DEF DeleteKnows, Deletes
      <4>9. ByRequest(v, y)
        BY <3>2, AccountedBySInv DEF Accounted
      <4>10. QED
        BY <4>8, <4>9 DEF ByRequest
    <3>3. QED
      BY <3>1, <3>2
  <2>5. QED
    BY <2>2, <2>3, <2>4, VmAssumption DEF IpCovered
<1>5. ASSUME NEW w \in Workers, Crash(w), worker'[x] # worker[x]
      PROVE  worker'[x].ip_used
  BY <1>1, <1>5 DEF Crash, End, SInv, IInv, WorkersInv
<1>6. QED
  BY <1>2, <1>3, <1>4, <1>5 DEF Next, vars

\* The flags follow the effects.
LEMMA IpLedgerNext ==
    ASSUME SInv, IpLedger, Effects
    PROVE  IpLedger'
<1>1. used \in [Ips -> BOOLEAN] /\ NoIp \notin Ips
  BY VmAssumption DEF SInv, IInv, StoresInv, IpTypeOK
<1>2. ASSUME \A v \in Vms : IpOf(v)' = IpOf(v), UNCHANGED used
      PROVE  IpLedger'
  BY <1>2 DEF IpLedger
<1>3. CASE NoEffect
  BY <1>2, <1>3 DEF NoEffect, SameAccount
<1>4. ASSUME NEW v \in Vms, ClaimEffect(v) \/ CountEffect(v)
      PROVE  IpLedger'
  BY <1>2, <1>4 DEF ClaimEffect, CountEffect, SameIp, OthersSame, SameAccount
<1>5. ASSUME NEW v \in Vms, AddressEffect(v)
      PROVE  IpLedger'
  <2>1. \A x \in Vms \ {v} : IpOf(x)' = IpOf(x)
    BY <1>5 DEF AddressEffect, OthersSame, SameAccount
  <2>2. PICK i \in Ips :
           \/ /\ IpOf(v) = NoIp /\ IpOf(v)' = i
              /\ ~used[i] /\ used' = [used EXCEPT ![i] = TRUE]
           \/ /\ IpOf(v) = i /\ IpOf(v)' = NoIp
              /\ used' = [used EXCEPT ![i] = FALSE]
    BY <1>5 DEF AddressEffect
  <2>3. CASE /\ IpOf(v) = NoIp /\ IpOf(v)' = i
             /\ ~used[i] /\ used' = [used EXCEPT ![i] = TRUE]
    BY <1>1, <2>1, <2>3 DEF IpLedger
  <2>4. CASE /\ IpOf(v) = i /\ IpOf(v)' = NoIp
             /\ used' = [used EXCEPT ![i] = FALSE]
    BY <1>1, <2>1, <2>4 DEF IpLedger
  <2>5. QED
    BY <2>2, <2>3, <2>4
<1>6. QED
  BY <1>3, <1>4, <1>5 DEF Effects

\* The address a vm holds is one of the pool.
LEMMA AddressesAreTyped == SInv => \A v \in Vms : IpOf(v) \in Ips \cup {NoIp}
<1> SUFFICES ASSUME SInv, NEW v \in Vms
             PROVE  IpOf(v) \in Ips \cup {NoIp}
  OBVIOUS
<1>1. ASSUME NEW w \in Workers, Acts(w), worker[w].vm = v
      PROVE  IpOf(v) \in Ips \cup {NoIp}
  BY <1>1, AccountedBySInv DEF SInv, IInv, WorkersInv, WorkerState, Accounted, ByRequest, HeldIp
<1>2. CASE \A w \in Workers : Acts(w) => worker[w].vm # v
  BY <1>2, AccountedBySInv DEF Accounted, ByRow, SInv, IInv, RowsInv, VmRow
<1>3. QED
  BY <1>1, <1>2

\* Addresses that are marked for who holds them go on to be, and go on when a
\* process died, because then less is held.
LEMMA IpCoveredNext ==
    ASSUME SInv, SInv', IpCovered, Effects \/ \E v \in Vms : DropEffect(v)
    PROVE  IpCovered'
<1>1. /\ used \in [Ips -> BOOLEAN] /\ NoIp \notin Ips
      /\ \A v \in Vms : IpOf(v) \in Ips \cup {NoIp}
  BY VmAssumption, AddressesAreTyped DEF SInv, IInv, StoresInv, IpTypeOK
<1>2. ASSUME \A v \in Vms : IpOf(v)' = IpOf(v), UNCHANGED used
      PROVE  IpCovered'
  BY <1>2 DEF IpCovered
<1>3. CASE NoEffect
  BY <1>2, <1>3 DEF NoEffect, SameAccount
<1>4. ASSUME NEW v \in Vms, ClaimEffect(v) \/ CountEffect(v)
      PROVE  IpCovered'
  BY <1>2, <1>4 DEF ClaimEffect, CountEffect, SameIp, OthersSame, SameAccount
<1>5. ASSUME NEW v \in Vms, DropEffect(v)
      PROVE  IpCovered'
  BY <1>5 DEF DropEffect, OthersSame, SameAccount, SameIp, IpCovered
<1>6. ASSUME NEW v \in Vms, AddressEffect(v)
      PROVE  IpCovered'
  <2>1. \A x \in Vms \ {v} : IpOf(x)' = IpOf(x)
    BY <1>6 DEF AddressEffect, OthersSame, SameAccount
  <2>2. PICK i \in Ips :
           \/ /\ IpOf(v) = NoIp /\ IpOf(v)' = i
              /\ ~used[i] /\ used' = [used EXCEPT ![i] = TRUE]
           \/ /\ IpOf(v) = i /\ IpOf(v)' = NoIp
              /\ used' = [used EXCEPT ![i] = FALSE]
    BY <1>6 DEF AddressEffect
  <2>3. \A x \in Vms \ {v} : IpOf(x) # i
    BY <1>1, <2>2 DEF IpCovered
  <2>4. \A x \in Vms : IpOf(x)' # NoIp => used'[IpOf(x)']
    BY <1>1, <2>1, <2>2, <2>3 DEF IpCovered
  <2>5. \A x, y \in Vms : IpOf(x)' = IpOf(y)' => x = y \/ IpOf(x)' = NoIp
    BY <2>1, <2>2, <2>3 DEF IpCovered
  <2>6. QED
    BY <2>4, <2>5 DEF IpCovered
<1>7. QED
  BY <1>3, <1>4, <1>5, <1>6 DEF Effects

-----------------------------------------------------------------------------
(* Adding up: what the units and the counts on a host are after one vm has *)
(* changed what it holds.                                                  *)

\* As many units for each vm as f says.
UnitsOf(f) == UNION {{x} \X (1 .. f[x]) : x \in Vms}

\* The units of one vm are as many as f says, and apart from the others.
LEMMA UnitsSplit ==
    ASSUME NEW f \in [Vms -> Nat], NEW v \in Vms
    PROVE  LET rest == UNION {{x} \X (1 .. f[x]) : x \in Vms \ {v}}
           IN  /\ IsFiniteSet(rest)
               /\ IsFiniteSet(UnitsOf(f))
               /\ Cardinality(UnitsOf(f)) = Cardinality(rest) + f[v]
<1> DEFINE rest == UNION {{x} \X (1 .. f[x]) : x \in Vms \ {v}}
           own == {v} \X (1 .. f[v])
<1>1. ASSUME NEW x \in Vms
      PROVE  /\ IsFiniteSet({x} \X (1 .. f[x]))
             /\ Cardinality({x} \X (1 .. f[x])) = f[x]
  <2>1. IsFiniteSet({x}) /\ Cardinality({x}) = 1
    BY FS_Singleton
  <2>2. f[x] \in Nat
    OBVIOUS
  <2>3. IsFiniteSet(1 .. f[x]) /\ Cardinality(1 .. f[x]) = f[x]
    BY <2>2, FS_Interval
  <2>4. /\ IsFiniteSet({x} \X (1 .. f[x]))
        /\ Cardinality({x} \X (1 .. f[x])) = Cardinality({x}) * Cardinality(1 .. f[x])
    BY <2>1, <2>3, FS_Product
  <2>5. QED
    BY <2>1, <2>2, <2>3, <2>4
<1>2. IsFiniteSet(rest)
  <2> DEFINE S == Vms \ {v}
             T == {{x} \X (1 .. f[x]) : x \in S}
             F == [x \in S |-> {x} \X (1 .. f[x])]
  <2>1. IsFiniteSet(S)
    BY VmsAssumption, FS_Subset
  <2>2. F \in Surjection(S, T)
    BY DEF Surjection
  <2>3. \A t \in T : IsFiniteSet(t)
    BY <1>1
  <2> HIDE DEF S, T, F
  <2>4. IsFiniteSet(T)
    BY <2>1, <2>2, FS_Surjection
  <2>5. IsFiniteSet(UNION T)
    BY <2>3, <2>4, FS_UNION
  <2>6. QED
    BY <2>5 DEF S, T
<1>3. IsFiniteSet(own) /\ Cardinality(own) = f[v]
  BY <1>1
<1>4. UnitsOf(f) = rest \cup own
  BY DEF UnitsOf
<1>5. rest \cap own = {}
  OBVIOUS
<1> HIDE DEF rest, own
<1>6. /\ IsFiniteSet(rest \cup own)
      /\ Cardinality(rest \cup own)
            = Cardinality(rest) + Cardinality(own) - Cardinality(rest \cap own)
  BY <1>2, <1>3, FS_Union
<1>7. Cardinality(rest \cap own) = 0
  BY <1>5, FS_EmptySet
<1>8. Cardinality(rest) \in Nat /\ f[v] \in Nat
  BY <1>2, FS_CardinalityType
<1>9. QED
  BY <1>2, <1>3, <1>4, <1>6, <1>7, <1>8 DEF rest

\* When one vm changes, the sum changes by as much.
LEMMA UnitsChange ==
    ASSUME NEW f \in [Vms -> Nat], NEW g \in [Vms -> Nat], NEW v \in Vms,
           \A x \in Vms \ {v} : g[x] = f[x]
    PROVE  Cardinality(UnitsOf(g)) = Cardinality(UnitsOf(f)) + (g[v] - f[v])
<1> DEFINE restf == UNION {{x} \X (1 .. f[x]) : x \in Vms \ {v}}
           restg == UNION {{x} \X (1 .. g[x]) : x \in Vms \ {v}}
<1>1. {{x} \X (1 .. f[x]) : x \in Vms \ {v}} = {{x} \X (1 .. g[x]) : x \in Vms \ {v}}
  OBVIOUS
<1>2. restf = restg
  BY <1>1
<1>3. /\ Cardinality(UnitsOf(f)) = Cardinality(restf) + f[v]
      /\ Cardinality(UnitsOf(g)) = Cardinality(restg) + g[v]
      /\ IsFiniteSet(restf)
  BY UnitsSplit
<1> HIDE DEF restf, restg
<1>4. Cardinality(restf) \in Nat /\ f[v] \in Nat /\ g[v] \in Nat
  BY <1>3, FS_CardinalityType
<1>5. QED
  BY <1>2, <1>3, <1>4

VcpuOn(h) == [x \in Vms |-> IF ClaimOf(x).host = h THEN ClaimOf(x).vcpu ELSE 0]
MemOn(h)  == [x \in Vms |-> IF ClaimOf(x).host = h THEN ClaimOf(x).mem ELSE 0]

ClaimsTyped ==
    \A v \in Vms : ClaimOf(v) \in [host : Hosts \cup {NoHost}, vcpu : Nat, mem : Nat]

UnitsAre ==
    \A h \in Hosts :
       /\ VcpuUnits(h) = UnitsOf(VcpuOn(h))
       /\ MemUnits(h) = UnitsOf(MemOn(h))

\* Claims are records of the kind a vm can have.
LEMMA ClaimsAreTyped == SInv => ClaimsTyped
<1> SUFFICES ASSUME SInv, NEW v \in Vms
             PROVE  ClaimOf(v) \in [host : Hosts \cup {NoHost}, vcpu : Nat, mem : Nat]
  BY DEF ClaimsTyped
<1>1. NoClaim \in [host : Hosts \cup {NoHost}, vcpu : Nat, mem : Nat]
  BY DEF NoClaim
<1>2. CASE \E w \in Workers : Acts(w) /\ worker[w].vm = v
  <2>1. PICK w \in Workers : Acts(w) /\ worker[w].vm = v
    BY <1>2
  <2>2. ClaimOf(v) = ClaimOfWorker(w)
    BY <2>1, AccountedBySInv DEF Accounted, ByRequest
  <2>3. worker[w] \in WorkerState
    BY DEF SInv, IInv, WorkersInv
  <2>4. QED
    BY <1>1, <2>2, <2>3 DEF ClaimOfWorker, WorkerState, VmRow
<1>3. CASE ~\E w \in Workers : Acts(w) /\ worker[w].vm = v
  BY <1>1, <1>3, AccountedBySInv DEF Accounted, ByRow, SInv, IInv, RowsInv, RowClaim, VmRow
<1>4. QED
  BY <1>2, <1>3

\* The same in the next state.
LEMMA ClaimsAreTypedNext == SInv' => ClaimsTyped'
  BY ClaimsAreTyped, PTL

\* The units of VmProperties, which go over the claims on a host, are those of
\* the amounts all vms have there.
LEMMA UnitsAreThose == UnitsAre
<1> SUFFICES ASSUME NEW h \in Hosts
             PROVE  /\ VcpuUnits(h) = UnitsOf(VcpuOn(h))
                    /\ MemUnits(h) = UnitsOf(MemOn(h))
  BY DEF UnitsAre
<1>1. \A x \in Vms : claims[x] = ClaimOf(x)
  BY DEF claims
<1> DEFINE S == {x \in Vms : claims[x].host = h}
<1>2. \A x \in Vms \ S : VcpuOn(h)[x] = 0 /\ MemOn(h)[x] = 0
  BY <1>1 DEF VcpuOn, MemOn
<1>3. \A x \in S : VcpuOn(h)[x] = claims[x].vcpu /\ MemOn(h)[x] = claims[x].mem
  BY <1>1 DEF VcpuOn, MemOn
<1>4. 1 .. 0 = {}
  OBVIOUS
<1>5. VcpuUnits(h) = UNION {{x} \X (1 .. VcpuOn(h)[x]) : x \in S}
  BY <1>3 DEF VcpuUnits
<1>6. MemUnits(h) = UNION {{x} \X (1 .. MemOn(h)[x]) : x \in S}
  BY <1>3 DEF MemUnits
<1>7. ASSUME NEW f, \A x \in Vms \ S : f[x] = 0
      PROVE  UNION {{x} \X (1 .. f[x]) : x \in S} = UnitsOf(f)
  <2>1. \A x \in Vms \ S : {x} \X (1 .. f[x]) = {}
    BY <1>4, <1>7
  <2>2. S \subseteq Vms
    OBVIOUS
  <2> HIDE DEF S
  <2>3. QED
    BY <2>1, <2>2 DEF UnitsOf
<1> HIDE DEF S
<1>8. QED
  BY <1>2, <1>5, <1>6, <1>7

\* The same in the next state.
LEMMA UnitsAreNext == UnitsAre'
  BY UnitsAreThose, PTL

\* A vm that begins or ceases to count changes the number by one.
LEMMA CountChange ==
    ASSUME NEW S \in SUBSET Vms, NEW T \in SUBSET Vms, NEW v \in Vms,
           \A x \in Vms \ {v} : x \in T <=> x \in S
    PROVE  /\ Cardinality(S) \in Nat
           /\ (v \in S <=> v \in T) => Cardinality(T) = Cardinality(S)
           /\ v \notin S /\ v \in T => Cardinality(T) = Cardinality(S) + 1
           /\ v \in S /\ v \notin T => Cardinality(T) = Cardinality(S) - 1
<1>1. IsFiniteSet(S) /\ IsFiniteSet(T)
  BY VmsAssumption, FS_Subset
<1>2. CASE v \in S <=> v \in T
  BY <1>1, <1>2, FS_CardinalityType
<1>3. CASE v \notin S /\ v \in T
  BY <1>1, <1>3, FS_AddElement, FS_CardinalityType
<1>4. CASE v \in S /\ v \notin T
  BY <1>1, <1>4, FS_RemoveElement, FS_CardinalityType
<1>5. QED
  BY <1>2, <1>3, <1>4

-----------------------------------------------------------------------------
(* The hosts. *)

CountSet(h) == {v \in Vms : CountedOn(v, h)}

\* What is claimed and counted on a host is finite.
Cardinals ==
    \A h \in Hosts :
       /\ Cardinality(UnitsOf(VcpuOn(h))) \in Nat
       /\ Cardinality(UnitsOf(MemOn(h))) \in Nat
       /\ Cardinality(CountSet(h)) \in Nat

\* There are finitely many vms, and each claims finitely many units.
LEMMA CardinalsAre == SInv => Cardinals
<1> SUFFICES ASSUME SInv, NEW h \in Hosts
             PROVE  /\ Cardinality(UnitsOf(VcpuOn(h))) \in Nat
                    /\ Cardinality(UnitsOf(MemOn(h))) \in Nat
                    /\ Cardinality(CountSet(h)) \in Nat
  BY DEF Cardinals
<1>1. VcpuOn(h) \in [Vms -> Nat] /\ MemOn(h) \in [Vms -> Nat]
  BY ClaimsAreTyped DEF ClaimsTyped, VcpuOn, MemOn
<1>2. IsFiniteSet(UnitsOf(VcpuOn(h))) /\ IsFiniteSet(UnitsOf(MemOn(h)))
  <2>1. CASE Vms = {}
    BY <2>1, FS_EmptySet DEF UnitsOf
  <2>2. CASE \E v \in Vms : TRUE
    BY <1>1, <2>2, UnitsSplit
  <2>3. QED
    BY <2>1, <2>2
<1>3. IsFiniteSet(CountSet(h))
  BY VmsAssumption, FS_Subset DEF CountSet
<1>4. QED
  BY <1>2, <1>3, FS_CardinalityType

\* The same in the next state.
LEMMA CardinalsNext == SInv' => Cardinals'
  BY CardinalsAre, PTL

\* The columns of a host change by as much as what is claimed and counted
\* there.
ColumnsFollowAt(h) ==
    /\ host'[h].vcpu_allocated = host[h].vcpu_allocated
          + (Cardinality(UnitsOf(VcpuOn(h)')) - Cardinality(UnitsOf(VcpuOn(h))))
    /\ host'[h].mem_allocated = host[h].mem_allocated
          + (Cardinality(UnitsOf(MemOn(h)')) - Cardinality(UnitsOf(MemOn(h))))
    /\ host'[h].vm_created = host[h].vm_created
          + (Cardinality(CountSet(h)') - Cardinality(CountSet(h)))

\* The columns of a host follow what one vm changes on it.
LEMMA ColumnsFollow ==
    ASSUME SInv, SInv', Effects, NEW h \in Hosts
    PROVE  ColumnsFollowAt(h)
<1>1. ClaimsTyped /\ ClaimsTyped' /\ UnitsAre /\ UnitsAre'
  BY ClaimsAreTyped, ClaimsAreTypedNext, UnitsAreThose, UnitsAreNext
<1>2. /\ VcpuOn(h) \in [Vms -> Nat] /\ MemOn(h) \in [Vms -> Nat]
      /\ VcpuOn(h)' \in [Vms -> Nat] /\ MemOn(h)' \in [Vms -> Nat]
      /\ host \in [Hosts -> HostRow]
      /\ host[h].vcpu_allocated \in Int /\ host[h].mem_allocated \in Int
      /\ host[h].vm_created \in Int
      /\ Cardinality(UnitsOf(VcpuOn(h))) \in Nat
      /\ Cardinality(UnitsOf(MemOn(h))) \in Nat
      /\ Cardinality(CountSet(h)) \in Nat
  BY <1>1, CardinalsAre DEF ClaimsTyped, VcpuOn, MemOn, SInv, IInv, HostsInv, HostTypeOK, HostRow, Cardinals
<1>4. ASSUME \A v \in Vms : ClaimOf(v)' = ClaimOf(v)
      PROVE  VcpuOn(h)' = VcpuOn(h) /\ MemOn(h)' = MemOn(h)
  BY <1>4 DEF VcpuOn, MemOn
<1>5. ASSUME \A v \in Vms : CountedOn(v, h)' <=> CountedOn(v, h)
      PROVE  CountSet(h)' = CountSet(h)
  BY <1>5 DEF CountSet
<1>6. CASE NoEffect
  BY <1>2, <1>4, <1>5, <1>6 DEF NoEffect, SameAccount, ColumnsFollowAt
<1>7. ASSUME NEW v \in Vms, AddressEffect(v)
      PROVE  ColumnsFollowAt(h)
  BY <1>2, <1>4, <1>5, <1>7
     DEF AddressEffect, OthersSame, SameAccount, SameClaim, SameCount, ColumnsFollowAt
<1>8. ASSUME NEW v \in Vms, ClaimEffect(v)
      PROVE  ColumnsFollowAt(h)
  <2> DEFINE c == ClaimOf(v)
             d == ClaimOf(v)'
  <2>1. PICK g \in Hosts : /\ c \in ClaimOn(g) /\ d \in ClaimOn(g)
                           /\ deduct_delta(g, d.vcpu - c.vcpu, d.mem - c.mem)
    BY <1>8 DEF ClaimEffect
  <2>2. \A x \in Vms \ {v} : ClaimOf(x)' = ClaimOf(x)
    BY <1>8 DEF ClaimEffect, OthersSame, SameAccount
  <2>3. CountSet(h)' = CountSet(h)
    BY <1>5, <1>8 DEF ClaimEffect, OthersSame, SameAccount, SameCount
  <2>4. \A x \in Vms \ {v} : VcpuOn(h)'[x] = VcpuOn(h)[x] /\ MemOn(h)'[x] = MemOn(h)[x]
    BY <2>2 DEF VcpuOn, MemOn
  <2>5. /\ VcpuOn(h)[v] = IF c.host = h THEN c.vcpu ELSE 0
        /\ MemOn(h)[v] = IF c.host = h THEN c.mem ELSE 0
        /\ VcpuOn(h)'[v] = IF d.host = h THEN d.vcpu ELSE 0
        /\ MemOn(h)'[v] = IF d.host = h THEN d.mem ELSE 0
    BY DEF VcpuOn, MemOn
  <2>6. /\ Cardinality(UnitsOf(VcpuOn(h)'))
              = Cardinality(UnitsOf(VcpuOn(h))) + (VcpuOn(h)'[v] - VcpuOn(h)[v])
        /\ Cardinality(UnitsOf(MemOn(h)'))
              = Cardinality(UnitsOf(MemOn(h))) + (MemOn(h)'[v] - MemOn(h)[v])
    BY <1>2, <2>4, UnitsChange
  <2> HIDE DEF c, d
  <2>7. CASE h = g
    BY <1>2, <2>1, <2>3, <2>5, <2>6, <2>7 DEF deduct_delta, ClaimOn, NoClaim, ColumnsFollowAt
  <2>8. CASE h # g
    BY <1>2, <2>1, <2>3, <2>5, <2>6, <2>8, VmAssumption DEF deduct_delta, ClaimOn, NoClaim, ColumnsFollowAt
  <2>9. QED
    BY <2>7, <2>8
<1>9. ASSUME NEW v \in Vms, CountEffect(v)
      PROVE  ColumnsFollowAt(h)
  <2>1. VcpuOn(h)' = VcpuOn(h) /\ MemOn(h)' = MemOn(h)
    BY <1>4, <1>9 DEF CountEffect, OthersSame, SameAccount, SameClaim
  <2>2. PICK g \in Hosts :
           /\ \A k \in Hosts \ {g} : CountedOn(v, k)' <=> CountedOn(v, k)
           /\ \/ /\ ~CountedOn(v, g) /\ CountedOn(v, g)'
                 /\ vm_created_num_add_1(g)
              \/ /\ CountedOn(v, g) /\ ~CountedOn(v, g)'
                 /\ vm_created_num_sub_1(g)
    BY <1>9 DEF CountEffect
  <2>3. \A x \in Vms \ {v} : x \in CountSet(h)' <=> x \in CountSet(h)
    BY <1>9 DEF CountEffect, OthersSame, SameAccount, CountSet
  <2>4. /\ CountSet(h) \in SUBSET Vms /\ CountSet(h)' \in SUBSET Vms
        /\ v \in CountSet(h) <=> CountedOn(v, h)
        /\ v \in CountSet(h)' <=> CountedOn(v, h)'
    BY DEF CountSet
  <2>5. /\ (v \in CountSet(h) <=> v \in CountSet(h)') =>
              Cardinality(CountSet(h)') = Cardinality(CountSet(h))
        /\ v \notin CountSet(h) /\ v \in CountSet(h)' =>
              Cardinality(CountSet(h)') = Cardinality(CountSet(h)) + 1
        /\ v \in CountSet(h) /\ v \notin CountSet(h)' =>
              Cardinality(CountSet(h)') = Cardinality(CountSet(h)) - 1
    BY <2>3, <2>4, CountChange
  <2>6. /\ host'[h].vcpu_allocated = host[h].vcpu_allocated
        /\ host'[h].mem_allocated = host[h].mem_allocated
        /\ h # g => host'[h].vm_created = host[h].vm_created
        /\ h = g /\ vm_created_num_add_1(g) => host'[h].vm_created = host[h].vm_created + 1
        /\ h = g /\ vm_created_num_sub_1(g) => host'[h].vm_created = host[h].vm_created - 1
    BY <1>2, <2>2 DEF vm_created_num_add_1, vm_created_num_sub_1, HostRow
  <2>7. host'[h].vm_created
           = host[h].vm_created + (Cardinality(CountSet(h)') - Cardinality(CountSet(h)))
    BY <1>2, <2>2, <2>4, <2>5, <2>6
  <2>8. QED
    BY <1>2, <2>1, <2>6, <2>7 DEF ColumnsFollowAt
<1>10. QED
  BY <1>6, <1>7, <1>8, <1>9 DEF Effects

\* Exact columns stay exact.
LEMMA HostLedgerNext ==
    ASSUME SInv, SInv', HostLedger, Effects
    PROVE  HostLedger'
<1> SUFFICES ASSUME NEW h \in Hosts
             PROVE  /\ host'[h].vcpu_allocated = Cardinality(VcpuUnits(h)')
                    /\ host'[h].mem_allocated = Cardinality(MemUnits(h)')
                    /\ host'[h].vm_created = Cardinality(CountSet(h)')
  BY DEF HostLedger, CountSet
<1>1. /\ VcpuUnits(h) = UnitsOf(VcpuOn(h)) /\ MemUnits(h) = UnitsOf(MemOn(h))
      /\ VcpuUnits(h)' = UnitsOf(VcpuOn(h)') /\ MemUnits(h)' = UnitsOf(MemOn(h)')
  BY UnitsAreThose, UnitsAreNext DEF UnitsAre, UnitsOf
<1>2. /\ host[h].vcpu_allocated = Cardinality(UnitsOf(VcpuOn(h)))
      /\ host[h].mem_allocated = Cardinality(UnitsOf(MemOn(h)))
      /\ host[h].vm_created = Cardinality(CountSet(h))
      /\ host[h] \in HostRow
  BY <1>1 DEF HostLedger, CountSet, SInv, IInv, HostsInv, HostTypeOK
<1>3. /\ Cardinality(UnitsOf(VcpuOn(h)')) \in Nat
      /\ Cardinality(UnitsOf(MemOn(h)')) \in Nat
      /\ Cardinality(CountSet(h)') \in Nat
  BY CardinalsNext DEF Cardinals
<1>4. ColumnsFollowAt(h)
  BY ColumnsFollow
<1>5. QED
  BY <1>1, <1>2, <1>3, <1>4 DEF ColumnsFollowAt, HostRow

\* Columns that cover what is claimed go on to do so, and go on when a process
\* died, because then less is claimed.
LEMMA QuotaCoveredNext ==
    ASSUME SInv, SInv', QuotaCovered, Effects \/ \E v \in Vms : DropEffect(v)
    PROVE  QuotaCovered'
<1> SUFFICES ASSUME NEW h \in Hosts
             PROVE  /\ Cardinality(VcpuUnits(h)') <= host'[h].vcpu_allocated
                    /\ Cardinality(MemUnits(h)') <= host'[h].mem_allocated
  BY DEF QuotaCovered
<1>1. /\ VcpuUnits(h) = UnitsOf(VcpuOn(h)) /\ MemUnits(h) = UnitsOf(MemOn(h))
      /\ VcpuUnits(h)' = UnitsOf(VcpuOn(h)') /\ MemUnits(h)' = UnitsOf(MemOn(h)')
  BY UnitsAreThose, UnitsAreNext DEF UnitsAre, UnitsOf
<1>2. /\ Cardinality(UnitsOf(VcpuOn(h))) <= host[h].vcpu_allocated
      /\ Cardinality(UnitsOf(MemOn(h))) <= host[h].mem_allocated
      /\ host[h].vcpu_allocated \in Int /\ host[h].mem_allocated \in Int
  BY <1>1 DEF QuotaCovered, SInv, IInv, HostsInv, HostTypeOK, HostRow
<1>3. /\ Cardinality(UnitsOf(VcpuOn(h))) \in Nat
      /\ Cardinality(UnitsOf(MemOn(h))) \in Nat
      /\ Cardinality(UnitsOf(VcpuOn(h)')) \in Nat
      /\ Cardinality(UnitsOf(MemOn(h)')) \in Nat
  BY CardinalsAre, CardinalsNext DEF Cardinals
<1>4. CASE Effects
  BY <1>1, <1>2, <1>3, <1>4, ColumnsFollow DEF ColumnsFollowAt
<1>5. ASSUME NEW v \in Vms, DropEffect(v)
      PROVE  /\ Cardinality(VcpuUnits(h)') <= host'[h].vcpu_allocated
             /\ Cardinality(MemUnits(h)') <= host'[h].mem_allocated
  <2>1. \A x \in Vms \ {v} : ClaimOf(x)' = ClaimOf(x)
    BY <1>5 DEF DropEffect, OthersSame, SameAccount
  <2>2. \A x \in Vms \ {v} : VcpuOn(h)'[x] = VcpuOn(h)[x] /\ MemOn(h)'[x] = MemOn(h)[x]
    BY <2>1 DEF VcpuOn, MemOn
  <2>3. /\ VcpuOn(h) \in [Vms -> Nat] /\ MemOn(h) \in [Vms -> Nat]
        /\ VcpuOn(h)' \in [Vms -> Nat] /\ MemOn(h)' \in [Vms -> Nat]
    BY ClaimsAreTyped, ClaimsAreTypedNext DEF ClaimsTyped, VcpuOn, MemOn
  <2>4. /\ Cardinality(UnitsOf(VcpuOn(h)'))
              = Cardinality(UnitsOf(VcpuOn(h))) + (VcpuOn(h)'[v] - VcpuOn(h)[v])
        /\ Cardinality(UnitsOf(MemOn(h)'))
              = Cardinality(UnitsOf(MemOn(h))) + (MemOn(h)'[v] - MemOn(h)[v])
    BY <2>2, <2>3, UnitsChange
  <2>5. ClaimOf(v)' = ClaimOf(v) \/ ClaimOf(v)' = NoClaim
    BY <1>5 DEF DropEffect, SameClaim
  <2>6. VcpuOn(h)'[v] <= VcpuOn(h)[v] /\ MemOn(h)'[v] <= MemOn(h)[v]
    <3>1. /\ VcpuOn(h)[v] \in Nat /\ MemOn(h)[v] \in Nat
          /\ VcpuOn(h)'[v] \in Nat /\ MemOn(h)'[v] \in Nat
      BY <2>3
    <3>2. CASE ClaimOf(v)' = ClaimOf(v)
      BY <3>1, <3>2 DEF VcpuOn, MemOn
    <3>3. CASE ClaimOf(v)' = NoClaim
      BY <3>1, <3>3 DEF VcpuOn, MemOn, NoClaim
    <3>4. QED
      BY <2>5, <3>2, <3>3
  <2>7. UNCHANGED host
    BY <1>5 DEF DropEffect
  <2>8. /\ VcpuOn(h)[v] \in Nat /\ MemOn(h)[v] \in Nat
        /\ VcpuOn(h)'[v] \in Nat /\ MemOn(h)'[v] \in Nat
    BY <2>3
  <2>9. QED
    BY <1>1, <1>2, <1>3, <2>4, <2>6, <2>7, <2>8
<1>6. QED
  BY <1>4, <1>5

-----------------------------------------------------------------------------
(* The inductive invariant and what follows from it. *)

CoveredInv == SInv /\ LoadedUsed /\ IpCovered /\ QuotaCovered

LedgersInv == CoveredInv /\ IpLedger /\ HostLedger

\* Exact ledgers cover what is held.
LEMMA ExactCovers ==
    ASSUME SInv, IpLedger, HostLedger
    PROVE  IpCovered /\ QuotaCovered
<1>1. IpCovered
  BY AddressesAreTyped DEF IpLedger, IpCovered
<1>2. \A h \in Hosts : host[h].vcpu_allocated \in Int /\ host[h].mem_allocated \in Int
  BY DEF SInv, IInv, HostsInv, HostTypeOK, HostRow
<1>3. ASSUME NEW h \in Hosts
      PROVE  /\ Cardinality(VcpuUnits(h)) <= host[h].vcpu_allocated
             /\ Cardinality(MemUnits(h)) <= host[h].mem_allocated
  <2>1. /\ host[h].vcpu_allocated = Cardinality(VcpuUnits(h))
        /\ host[h].mem_allocated = Cardinality(MemUnits(h))
    BY DEF HostLedger
  <2>2. QED
    BY <1>2, <2>1
<1>4. QED
  BY <1>1, <1>3 DEF QuotaCovered

\* At the start nothing is held and nothing is handed out.
LEMMA InitLedgers == Init => LedgersInv
<1> SUFFICES ASSUME Init
             PROVE  LedgersInv
  OBVIOUS
<1>1. SInv
  BY InitSInv
<1>2. \A w \in Workers : worker[w] = Idle /\ ~Acts(w)
  BY VmAssumption DEF Init, Acts, Idle
<1>3. ASSUME NEW v \in Vms
      PROVE  /\ ClaimOf(v) = NoClaim
             /\ IpOf(v) = NoIp
             /\ \A h \in Hosts : ~CountedOn(v, h)
  BY <1>1, <1>2, AccountedBySInv DEF Accounted, Init, ByRow, RowClaim, RowCount, NoRow
<1>4. LoadedUsed
  BY <1>2 DEF LoadedUsed, Idle, Deletes
<1>5. IpLedger
  BY <1>3, VmAssumption DEF IpLedger, Init, IpInit
<1>6. HostLedger
  <2> SUFFICES ASSUME NEW h \in Hosts
               PROVE  /\ host[h].vcpu_allocated = Cardinality(VcpuUnits(h))
                      /\ host[h].mem_allocated = Cardinality(MemUnits(h))
                      /\ host[h].vm_created = Cardinality({v \in Vms : CountedOn(v, h)})
    BY DEF HostLedger
  <2>1. h # NoHost
    BY VmAssumption
  <2>2. \A v \in Vms : claims[v].host # h
    BY <1>3, <2>1 DEF claims, NoClaim
  <2>3. VcpuUnits(h) = {} /\ MemUnits(h) = {}
    BY <2>2 DEF VcpuUnits, MemUnits
  <2>4. {v \in Vms : CountedOn(v, h)} = {}
    BY <1>3
  <2>5. Cardinality({}) = 0
    BY FS_EmptySet
  <2>6. /\ host[h].vcpu_allocated = 0 /\ host[h].mem_allocated = 0
        /\ host[h].vm_created = 0
    BY DEF Init, HostInit
  <2>7. QED
    BY <2>3, <2>4, <2>5, <2>6
<1>7. QED
  BY <1>1, <1>4, <1>5, <1>6, ExactCovers DEF LedgersInv, CoveredInv

\* Every step keeps what is held covered, the death of a process included.
LEMMA NextCovered ==
    ASSUME Serial, DeathsAreCovered, CoveredInv, [Next]_vars
    PROVE  CoveredInv'
<1>1. SInv' /\ SInv /\ LoadedUsed /\ IpCovered /\ QuotaCovered
  BY NextSInv DEF CoveredInv
<1>2. Effects \/ \E v \in Vms : DropEffect(v)
  BY <1>1, NextEffects, DeathDrops DEF Effects
<1>3. QED
  BY <1>1, <1>2, LoadedUsedNext, IpCoveredNext, QuotaCoveredNext DEF CoveredInv

\* While no process dies, every step of serial requests keeps the ledgers.
LEMMA NextLedgers ==
    ASSUME Serial, CrashOps = {}, LedgersInv, [Next]_vars
    PROVE  LedgersInv' /\ Effects
<1>1. CoveredInv /\ CoveredInv' /\ SInv /\ SInv' /\ LoadedUsed /\ IpLedger /\ HostLedger
  BY NextCovered DEF LedgersInv, CoveredInv, DeathsAreCovered
<1>2. Effects
  BY <1>1, NextEffects DEF Crash
<1>3. QED
  BY <1>1, <1>2, IpLedgerNext, HostLedgerNext DEF LedgersInv

\* Of serial requests, while no process dies, what each knows of its vm and the
\* ledgers are invariant.
THEOREM LedgersInvariance ==
    ASSUME Serial, CrashOps = {}
    PROVE  Spec => []LedgersInv
<1>1. LedgersInv /\ [Next]_vars => LedgersInv'
  BY NextLedgers
<1>2. QED
  BY <1>1, InitLedgers, PTL DEF Spec

\* The addresses marked used are those that a vm or a request under way holds,
\* each of them one (apply_for_free_ip, free_used_ip and set_free).
THEOREM IpLedgerExact ==
    ASSUME Serial, CrashOps = {}
    PROVE  Spec => []IpLedger
<1>1. LedgersInv => IpLedger
  BY DEF LedgersInv
<1>2. Spec => []LedgersInv
  BY LedgersInvariance
<1>3. QED
  BY <1>1, <1>2, PTL

\* The columns of a host are what virtual machines and requests under way have
\* claimed and counted there (claim_from_host, free, deduct_delta and the +1
\* and -1 of vm_created).
THEOREM HostLedgerExact ==
    ASSUME Serial, CrashOps = {}
    PROVE  Spec => []HostLedger
<1>1. LedgersInv => HostLedger
  BY DEF LedgersInv
<1>2. Spec => []LedgersInv
  BY LedgersInvariance
<1>3. QED
  BY <1>1, <1>2, PTL

\* However often processes die, what each request knows of its vm and the
\* cover of what is held are invariant.
THEOREM CoveredInvariance ==
    ASSUME Serial, DeathsAreCovered
    PROVE  Spec => []CoveredInv
<1>1. CoveredInv /\ [Next]_vars => CoveredInv'
  BY NextCovered
<1>2. Init => CoveredInv
  BY InitLedgers DEF LedgersInv
<1>3. QED
  BY <1>1, <1>2, PTL DEF Spec

\* The quota columns cover what rows and requests have claimed, though the
\* processes of any requests but shelves and edits die at any of their steps.
THEOREM QuotaIsCovered ==
    ASSUME Serial, DeathsAreCovered
    PROVE  Spec => []QuotaCovered
<1>1. CoveredInv => QuotaCovered
  BY DEF CoveredInv
<1>2. Spec => []CoveredInv
  BY CoveredInvariance
<1>3. QED
  BY <1>1, <1>2, PTL

\* An address that a row or request holds is marked, and held once, though the
\* processes of any requests but shelves and edits die at any of their steps.
THEOREM IpIsCovered ==
    ASSUME Serial, DeathsAreCovered
    PROVE  Spec => []IpCovered
<1>1. CoveredInv => IpCovered
  BY DEF CoveredInv
<1>2. Spec => []CoveredInv
  BY CoveredInvariance
<1>3. QED
  BY <1>1, <1>2, PTL

-----------------------------------------------------------------------------
(* The life cycle implements VmReservation. *)

\* What the claims on a host add up to is within its totals, as its columns
\* are.
LEMMA ClaimsWithinTotals ==
    HostLedger /\ SInv => Reservation!WithinTotals(claims)
<1> SUFFICES ASSUME HostLedger, SInv
             PROVE  Reservation!WithinTotals(claims)
  OBVIOUS
<1>1. ASSUME NEW h \in Hosts
      PROVE  /\ Reservation!VcpuUnits(claims, h) = VcpuUnits(h)
             /\ Reservation!MemUnits(claims, h) = MemUnits(h)
  BY DEF Reservation!VcpuUnits, Reservation!MemUnits, VcpuUnits, MemUnits
<1>2. ASSUME NEW h \in Hosts
      PROVE  /\ Cardinality(VcpuUnits(h)) <= VcpuTotal[h]
             /\ Cardinality(MemUnits(h)) <= MemTotal[h]
  BY DEF HostLedger, SInv, IInv, HostsInv, NoOvercommit
<1>3. ASSUME NEW h \in Hosts
      PROVE  /\ Cardinality(Reservation!VcpuUnits(claims, h)) <= VcpuTotal[h]
             /\ Cardinality(Reservation!MemUnits(claims, h)) <= MemTotal[h]
  BY <1>1, <1>2
<1>4. \A S : Reservation!Cardinality(S) = Cardinality(S)
  BY DEF Reservation!Cardinality, Cardinality
<1>5. QED
  BY <1>3, <1>4 DEF Reservation!WithinTotals

\* The same in the next state.
LEMMA ClaimsWithinTotalsNext ==
    HostLedger' /\ SInv' => Reservation!WithinTotals(claims')
<1>1. (HostLedger /\ SInv => Reservation!WithinTotals(claims))'
  BY ClaimsWithinTotals, PTL
<1>2. QED
  BY <1>1 DEF Reservation!WithinTotals, Reservation!VcpuUnits, Reservation!MemUnits

\* The initial states are those of VmReservation.
LEMMA InitReserves == Init => Reservation!Init
<1> SUFFICES ASSUME Init
             PROVE  Reservation!Init
  OBVIOUS
<1>1. SInv
  BY InitSInv
<1>2. \A w \in Workers : ~Acts(w)
  BY VmAssumption DEF Init, Acts, Idle
<1>3. ASSUME NEW v \in Vms
      PROVE  ClaimOf(v) = NoClaim /\ IpOf(v) = NoIp
  BY <1>1, <1>2, AccountedBySInv DEF Accounted, Init, ByRow, RowClaim, NoRow
<1>4. QED
  BY <1>3 DEF Reservation!Init, claims, addresses, Reservation!NoClaim, NoClaim

\* The effects on the address of a vm are steps of VmReservation.
LEMMA AddressReserves ==
    ASSUME IpLedger, SInv, NEW v \in Vms, AddressEffect(v)
    PROVE  Reservation!Next
<1>1. used \in [Ips -> BOOLEAN] /\ NoIp \notin Ips
  BY VmAssumption DEF SInv, IInv, StoresInv, IpTypeOK
<1>2. /\ claims' = claims
      /\ \A x \in Vms \ {v} : IpOf(x)' = IpOf(x)
  BY DEF AddressEffect, SameClaim, OthersSame, SameAccount, claims
<1>3. PICK i \in Ips :
         \/ /\ IpOf(v) = NoIp /\ IpOf(v)' = i
            /\ ~used[i]
         \/ /\ IpOf(v) = i /\ IpOf(v)' = NoIp
  BY DEF AddressEffect
<1>4. /\ addresses[v] = IpOf(v) /\ addresses'[v] = IpOf(v)'
      /\ \A x \in Vms : addresses[x] = IpOf(x)
      /\ addresses' = [addresses EXCEPT ![v] = addresses'[v]]
  BY <1>2 DEF addresses
<1>5. Reservation!OnlyAddressOf(v)
  BY <1>1, <1>2, <1>3, <1>4 DEF Reservation!OnlyAddressOf
<1>6. CASE IpOf(v) = NoIp /\ IpOf(v)' = i /\ ~used[i]
  BY <1>4, <1>5, <1>6 DEF IpLedger, Reservation!Take, Reservation!Next
<1>7. CASE IpOf(v) = i /\ IpOf(v)' = NoIp
  BY <1>4, <1>5, <1>7 DEF Reservation!GiveBack, Reservation!Next
<1>8. QED
  BY <1>3, <1>6, <1>7

\* So are those on its claim, unless it is the same as before.
LEMMA ClaimReserves ==
    ASSUME Reservation!WithinTotals(claims'), NEW v \in Vms, ClaimEffect(v)
    PROVE  Reservation!Next \/ UNCHANGED <<claims, addresses>>
<1>1. /\ addresses' = addresses
      /\ \A x \in Vms \ {v} : ClaimOf(x)' = ClaimOf(x)
  BY DEF ClaimEffect, SameIp, OthersSame, SameAccount, addresses
<1>2. PICK h \in Hosts : ClaimOf(v) \in ClaimOn(h) /\ ClaimOf(v)' \in ClaimOn(h)
  BY DEF ClaimEffect
<1>3. /\ claims[v] = ClaimOf(v) /\ claims'[v] = ClaimOf(v)'
      /\ claims' = [claims EXCEPT ![v] = claims'[v]]
  BY <1>1 DEF claims
<1>4. CASE ClaimOf(v)' = ClaimOf(v)
  BY <1>1, <1>4 DEF claims
<1>5. CASE ClaimOf(v)' # ClaimOf(v)
  <2>1. Reservation!OnlyClaimOf(v)
    BY <1>1, <1>3, <1>5 DEF Reservation!OnlyClaimOf
  <2>2. CASE ClaimOf(v)' = NoClaim
    BY <1>3, <2>1, <2>2 DEF Reservation!Release, Reservation!NoClaim, NoClaim, Reservation!Next
  <2>3. CASE ClaimOf(v) = NoClaim /\ ClaimOf(v)' # NoClaim
    BY <1>2, <1>3, <2>1, <2>3 DEF ClaimOn, Reservation!Claim, Reservation!NoClaim, NoClaim, Reservation!Next
  <2>4. CASE ClaimOf(v) # NoClaim /\ ClaimOf(v)' # NoClaim
    BY <1>2, <1>3, <2>1, <2>4 DEF ClaimOn, Reservation!Resize, Reservation!NoClaim, NoClaim, Reservation!Next
  <2>5. QED
    BY <2>2, <2>3, <2>4
<1>6. QED
  BY <1>4, <1>5

\* Every step of serial requests is a step of VmReservation or changes
\* nothing of it.
LEMMA NextReserves ==
    ASSUME Serial, CrashOps = {}, LedgersInv, [Next]_vars
    PROVE  [Reservation!Next]_<<claims, addresses>>
<1>1. LedgersInv' /\ Effects
  BY NextLedgers
<1>2. Reservation!WithinTotals(claims')
  BY <1>1, ClaimsWithinTotalsNext DEF LedgersInv, CoveredInv
<1>3. CASE NoEffect
  BY <1>3 DEF NoEffect, SameAccount, SameClaim, SameIp, claims, addresses
<1>4. ASSUME NEW v \in Vms, CountEffect(v)
      PROVE  UNCHANGED <<claims, addresses>>
  BY <1>4 DEF CountEffect, OthersSame, SameAccount, SameClaim, SameIp, claims, addresses
<1>5. QED
  BY <1>1, <1>2, <1>3, <1>4, AddressReserves, ClaimReserves
     DEF Effects, LedgersInv, CoveredInv

\* The life cycle implements VmReservation: what is claimed on a host stays
\* within its totals, an address has one holder, and of all claims and
\* addresses one changes at a time.
THEOREM LifecycleReserves ==
    ASSUME Serial, CrashOps = {}
    PROVE  Spec => Reserves
<1>1. LedgersInv /\ [Next]_vars => [Reservation!Next]_<<claims, addresses>>
  BY NextReserves
<1>2. Spec => []LedgersInv
  BY LedgersInvariance
<1>3. QED
  BY <1>1, <1>2, InitReserves, PTL DEF Spec, Reserves, Reservation!Spec
=============================================================================
