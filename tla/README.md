# Verification of evcloud in TLA+

evcloud is a Django application that manages KVM virtual machines: it keeps
rows about hosts, addresses, images, disks and virtual machines in a database,
and acts on libvirt daemons (domains) and ceph clusters (rbd images). A request
to its API runs in a thread of a web server process, several processes serve
requests at once, and almost no operation is covered by one transaction: a
create makes about eight separate changes to the database, ceph and libvirt,
any of which may fail, and undoes them by hand. This project is about that:
what is left in the database, in libvirt and in ceph after requests have
interleaved, failed half way, or died.

Modules are checked with TLC on small instances and proved about with TLAPS.
`PROJECT.json` maps every definition to the lines it stands for.

## 1. Inventory

| component | state | operations | talks to |
|---|---|---|---|
| host quota ledger (`src/compute`) | `Host.vcpu_allocated`, `mem_allocated`, `vm_created` against `vcpu_total`, `mem_total`, `vm_limit` | `claim_from_host`, `free`, `deduct_delta`, `vm_created_num_add_1/sub_1`, `update_host_quota` | every operation on a vm |
| address pool (`src/network`) | `MacIP.used`, `enable` | `apply_for_free_ip`, `free_used_ip`, `set_free` | scheduler, builder, delete, shelve, attached addresses |
| scheduler (`src/vms/scheduler.py`) | none of its own | choice of group, host and address, claim, undo | ledger, pool |
| vm life cycle (`src/vms`: `vm_builder`, `vminstance`, `manager`, `models`, `api`, `admin`) | `Vm`, `VmArchive`, `VmDiskSnap`, domains, system disks | create, delete, shelve, unshelve, delete of a shelved vm, edit, system disk operations, snapshots, archive removal | all of the above |
| vm migration (`src/vms/migrate.py`, `tasks.py`) | `MigrateTask`, a thread pool per process | live and static migration, clean-up of old tasks | ledger, life cycle, libvirt |
| virtual disks (`src/vdisk`) | `Vdisk`, `Quota.size_used` | create, delete, mount, umount | vm rows, libvirt, ceph |
| pci devices (`src/device`) | `PCIDevice.vm` | mount, umount | vm rows, libvirt |
| images (`src/image`) | `Image`, base image and protected snapshot | create, snapshot, delete, image vms | ceph, ledger, pool |
| mirror image tasks (`src/image/script`) | `MirrorImageTask.status` | import and export by a polling script, stop flag | images, files |
| libvirt wrapper (`src/utils/ev_libvirt`) | domains, on the hosts | define, undefine, power, attach, migrate | life cycle, migration |
| ceph access (`src/ceph`) | rbd images, in the cluster | clone, rename, remove, snapshots | life cycle, disks, images |
| REST API, web pages (`src/api`, views of every application) | none of its own | rules of who may call, lists, pages that post a row back | every component |
| users and authentication (`src/users`) | users, groups, `VmSharedUser` | the roles that the rules go by | REST API |
| vpn accounts (`src/vpn`) | `VPNAuth` | create, change, activate, delete, from the API and from pages | nothing |
| operation log (`src/logrecord`) | append-only rows | a record for each request about a vm | REST API |
| consoles, reports, physical servers, deployment | rows and files of their own | rendering | nothing that the above depend on |

What makes each correct:

* **ledger** - never beyond the totals, whoever claims; exact whenever nothing
  died; a claim is given back once and only once;
* **pool** - an address has at most one holder, is marked while it has one, and
  is free when it has none;
* **scheduler** - a failed attempt leaves nothing behind; no host of another
  group is combined with an address;
* **life cycle** - the row, the domain, the disk and the archive record agree
  when no request is under way, whatever failed; an archive record always leads
  to the image it stands for;
* **migration** - the vm runs on one host and its row names it; the quota of
  source and target moves exactly once per task;
* **virtual disks, devices, attached addresses** - at most one vm has a disk,
  row and domain agree, the quota says what there is;
* **images** - the snapshot a row names is there and can be cloned, a machine
  keeps a disk that leads to it, vms of images account for what they use;
* **mirror tasks** - what is offered was fetched completely, a row does not say
  that somebody works when nobody does;
* **rules of access** - they agree with each other, what is offered is allowed,
  what was done is recorded;
* **vpn accounts** - a request changes what it was asked to and nothing else.

Hard behaviours: checks made before a lock or without one and repeated under
it (or not); rows loaded at the start of a request and saved at its end;
clean-up code after a failure at each of the steps; two requests on one vm, which
nothing serialises; hosts that cannot be reached, for which a delete goes on
and an archive record remembers what is owed; processes that die half way; a
thread pool whose tasks race the clean-up of "old" tasks. `PROJECT.json`,
`hazards`, lists each at its line.

## 2. Modules

| module | models |
|---|---|
| `HostQuota` | the ledger: each operator is one statement or transaction |
| `MacIpPool` | the address pool, likewise |
| `VmLifecycle` | `EXTENDS` both: requests of eight kinds, step by step |
| `VmProperties` | what `VmLifecycle` is meant to keep, and its refinement mapping |
| `VmReservation` | abstract specification: who holds what, nothing else |
| `MCVmLifecycle` | the instances TLC checks |
| `LiveMigrate` | `EXTENDS HostQuota`: live migration, its tasks, thread pool and clean-up |
| `LiveMigrateProperties` | what `LiveMigrate` is meant to keep, and what it is not able to |
| `MCLiveMigrate` | the instances TLC checks |
| `DomainDevices` | a domain's live and persistent description, attach and detach |
| `VdiskQuota` | the quota of the pools of virtual disks |
| `Attachments` | `EXTENDS` both: disks, devices and addresses against the life of their vms |
| `AttachmentProperties`, `MCAttachments` | what it has to keep; the instances |
| `RbdPool` | rbd images, snapshots, clones and when ceph refuses |
| `SystemImages` | `EXTENDS RbdPool`, takes the ledger from `HostQuota`: images, vms of images, system disks, snapshots, releases |
| `ImageProperties`, `MCImages` | what it has to keep; the instances |
| `MirrorImage` | tasks of the public mirror and the scripts that serve them |
| `MirrorProperties`, `MCMirror` | what it has to keep; the instances |
| `VmAccess` | the requests about a vm, a disk or a device: who may, what becomes of the row, the record |
| `AccessProperties`, `MCAccess` | what it has to keep; the instance |
| `VpnAccounts` | the account of a vpn user, its API and pages, with its property |
| `StaticMigrate`, `MCStaticMigrate` | takes the ledger from `HostQuota`: static migration and the refresh of the columns, with its properties; the instance |
| `ResourceLists`, `MCResourceLists` | what users are offered and the checks behind it, with its property; the instance |
| `MCServices` | the parts above, one to a behaviour |
| `HostQuotaProofs` | lemmas about the statements of the ledger |
| `VmLifecycleProofs` | types, totals and placement in `VmLifecycle`, whatever requests meet; what requests know of their vm, its domains and its disk, for serial requests |
| `VmLedgerProofs` | `EXTENDS VmLifecycleProofs`: the ledgers, what is covered after deaths, the refinement |
| `LiveMigrateProofs` | types and totals in `LiveMigrate`, whatever requests meet; ended tasks, stale rows and the ledger, where none do |
| `AttachmentProofs` | types, the pools of disks, who holds a disk or a device, the images of disks, addresses: all of its properties |
| `ImageProofs` | `EXTENDS HostQuotaProofs`: the calls of `RbdPool`, types and totals in `SystemImages`, which requests meet; the vms of images, the columns that count them and their domains; the snapshots of images |
| `DiskProofs` | `EXTENDS ImageProofs`: the disks of machines and their snapshots, so that all properties of images that hold are proved |
| `ServiceProofs` | all properties of the access, vpn, migrate, lists and mirror parts |

`VmLifecycle`, `LiveMigrate`, `StaticMigrate` and `SystemImages` share the ledger
module and are not composed: a vm of the first never migrates, a vm of the
second is never deleted or resized. `Attachments` has a life cycle of its own,
reduced to what it does to disks, devices and addresses; in it quota of hosts
and system disks do not appear.

### How the state corresponds to the code

`host` and `used` are the columns of `Host` and `MacIP`. `vmrow[v]` has the
columns of `Vm` that the operations decide by, with `vm_status "none"` for a row
that is not there. `archive[v]` is the `VmArchive` row: `state` is
`host_released`, `disk` the image name it holds, `host` its `host_ipv4`.
`domain[h]` is what libvirt has defined on `h`; `disk[v]` the name the image of
the system disk has in ceph (`"live"`, the uuid; `"arch"`, `x_<time>_<uuid>`).
`worker[w]` is a request being served: `pc` names the next statement, the other
fields are its Python locals, above all `row`, `ip_used` and `ahv`, the objects
it loaded at its start and that may be stale by the time they are used.

An action is one statement or transaction of the database, or one call of
libvirt or ceph, together with the decision the code takes from its answer:

* *create*: `CreateStart` - `ApplyIp` or `PickHost` `PickIp` - `ClaimHost` -
  `Clone` - `SaveRow` - `Define` - `Count`; failures go through `SkipGroup`,
  `NoGroupLeft`, `NoFreeIp`, `ClaimFails`, `ClaimUndo`, `Unsave`, `UndoIp`,
  `UndoHost`, `UndoDisk`;
* *unshelve*: the same steps without `Clone`, from `UnshelveStart`;
* *delete*: `DeleteStart` - `Archive` - `Undefine` (or `UndefineHostDown`,
  `UndefineFails`) - `DeleteRow` - `Uncount` - `FreeIp` - `FreeHost` -
  `RenameDisk` - `RenameSave`; a delete that fails removes its archive record by
  `ReleaseHost` `RemoveDisk` `DeleteArchive`, and a forced one then goes on;
* *shelve*: `ShelveStart` - `Undefine` - `FreeIp` - `FreeHost` - `Uncount` -
  `ShelveSave`;
* *delete of a shelved vm*: `DelshelveStart` - `Archive` - `DeleteRow` -
  `RenameDisk` - `RenameSave`;
* *edit*: `EditStart` - `Deduct` - `Redefine` (or `RedefineFails`) - `EditSave`,
  with `EditUndo` and `EditRedefine`;
* *removal of an archive record*: `PurgeStart` - `ReleaseHost` - `RemoveDisk` -
  `DeleteArchive`.

*Live migration.* `vm_host[v]` is `Vm.host`, `domain_host[v]` where libvirt has
the domain. `task[t]` is the `MigrateTask` row with id `t`, with status "none"
for an id not given out; `old` holds the tasks made more than five minutes ago.
`request[r]` is a request being served: `vm_host` the host of the vm as it was
loaded at the start, `loaded` the old tasks as one query loaded them, `seen` the
host of the vm in that query. `job[t]` is the thread of the pool that has task
`t`: `m_task` the row as it loaded and changed it.

* *request*: `Start` - `CheckOld` - `LoadOld` - (`FailOld` `FailOldSave`) for each
  task that waits - (`FixSrc` `FixDst` `FixHost` `FixFree` `FixSave` `FixDone`) for
  the one with something to do - `Check` - `Claim` - `Insert` - `Submit`; failures
  through `UndoClaim` and `DeleteTask`;
* *job*: `JobStart` - `JobMigrate` - `JobSaveHost` - `JobCount` - `JobTodo` -
  `JobUncount` - `JobFree` - `JobFreeSave` - `JobFinish`; a move that fails goes to
  `JobFail` `JobFailSave`;
* *world*: `Age` lets five minutes pass for a task, `Crash` ends a process with
  some of the requests and jobs.

A job writes whole rows from its copy (`do_save()`), `_do_task_failed` only three
columns (`SaveFailed`); the difference matters when two threads have one task.

*Attachments.* `vdisk[d]` is the `Vdisk` row with `vm` and `dev` (the position of
the recorded name, vda being 1), `pci[p]` is `PCIDevice.vm`, `attached[i]` the `AttachmentsIP` row of an address,
`used` the flag of the address, `image[d]` the name the rbd image of a disk has.
`domain[v]` has what is attached `live` and in the `config` that survives a
power cycle; libvirt changes both in one call or only the second, and either may
fail (`AttachResults`, `DetachResults`). `worker[w]` is a request.

* *disk*: `CreateVdisk` - `ClaimQuota` - `SaveVdisk` - `CreateCephDisk`
  (`UnsaveVdisk` `UndoClaim`); `DestroyVdisk` - `SoftDelete` -
  `RenameDiskRbdName`; for good: `AdminDelete` - `RemoveCephDisk` - `FreeVdisk` - `DeleteVdiskRow`;
* *mount*: `MountDisk` - `MountRow` (under the row lock) - `Attach` (`UndoMount`);
  *umount*: `UmountDisk` - `Detach` - `UmountRow`; the same for devices with
  `MountPci` and `UmountPci`; *address*: `AttachIp` - `ApplyIp` - `Attach` -
  `AttachRow`, `DetachIp` - `Detach` - `FreeAttachedIp` - `DeleteAttachedIp`;
* *vm*: `DeleteVm`, `Shelve`, `Unshelve`, `Delshelve` with `Undefine`, `Define`,
  `MountVdisks` and the saves; `MissFix` with `FixAttach` and `FixUmount`; `PowerOn`,
  `PowerOff`; `Lose` is the host losing a domain, the case `miss_fix` is for.

*Images.* `pool` has the rbd images by name, with size, parent, snapshots and
which are protected; a name in ceph is an image's or a machine's, or that one
set aside. `imagerow`, `machine`, `snaprow` are the rows of `Image`, `Vm`
and `VmDiskSnap`; `imgdom` and `machdom` the domains. `tick` is the time that snapshots are
named after, and stops at `MaxTick`. The steps are named for the call they make:
`CreateSnap`, `InsertImage`, `CloneDisk`, `RenameSysDisk`, `SaveNew`, `RenameBack`,
`ReleaseClone`, ... What a change of system does after it has saved the row, the
mounting of disks and devices and the refusal for an attached address, is
`RemountDevices`: one outcome goes on to read the size, the other ends the request
with the new disk on the row and the size as it was.

*Mirror.* `task` is the row, `script[s]` a process with the row as it loaded it,
`local_file` what each node has of the image, `remote` how much the mirror has. A script
loads the row once and works with that copy to the end: `LoadTask` - `BeginTask` -
(`PullExists` `DownloadChunk`... `StartImport` `EndImport` `CreateOsImage`
`CleanLocalFile`) or (`ExportImage` `UploadChunk`... `MarkUploaded`), and `Killed`
at any point.

*Access.* `vm` is the row, `shared` the rows of `VmSharedUser`, `caller[c]` a
request with what it loaded. Every handler is a record of what it demands
(`allowed`, the flag of shared users, the rule for a disk or device), what it does
and when it logs; `Enter` - `Act` - `Leave` are common to all.

*Vpn.* `vpn` is the row, `vpn_call[c]` a request or a page that shows the row and may
be posted after the row has changed.

*StaticMigrate.* `mig_worker[w]` is a migration: `StartMigVm` - `ClaimTarget` -
`SaveHost` - (undo, `FreeTarget`) - `CountTarget` - `AttachVdisks` -
`UndefineSource` - `FreeSource` - `EndMigrate`, after which the request refreshes
the columns of the target in two steps, reading and writing. A save that fails removes
the domain just made, and goes on when that fails too. `RefuseMigrate` is a
request that is refused after it has switched the vm off.

*Lists.* `enabled`, `group_users`, the shields and the rows of `ShieldVlan` are
what administrators edit; the lists are operators over them, written as the
querysets are, and the checks of the later request are written as its code is.

### Abstractions

* A check that only refuses early, and that a later step repeats under a lock
  with the same outcome for the request, is that later step (for instance
  `available_macip` before `apply_for_free_ip`).
* Whether a domain runs, attached addresses, snapshots and permissions decide
  only whether a request is refused before its first effect: `Refuse`. The one
  permission check made *after* an effect is modelled where it is (`ApplyIp`).
* Vlans are folded into groups; a request for a host is one for a group with
  that host in it.
* Database statements fail only for a constraint of the schema (unique
  `mac_ip`, unique archive uuid) or because the row is gone; a database that
  goes away is not modelled. Libvirt and ceph calls fail as `Failing` says.
* A vm of the model stands for a uuid, and for another one as soon as neither
  row, record nor request knows it (`Fresh`).
* A forced power-off that fails is taken for the `VirtError` the caller expects;
  `destroy()` may also raise the error of libvirt as it is, which ends the request
  before it has an effect. Devices that a forced static migration takes out of the
  vm first are not part of `StaticMigrate`.
* In a migration all hosts are of one group, the sizes of vms do not change,
  `migrate3` either moves a domain or leaves it, and the pool has a thread for
  every task of the model.

## 3. Runs

The runs of `VmLifecycle` have two workers and two vms unless said otherwise;
workers and vms are symmetric.

| run | checks | shows |
|---|---|---|
| `serial` | `TypeOK`, `HostLedger`, `IpLedger`, `DomainMatchesRow`, `ArchiveNamesDisk`, `Reserves` | with every kind of request and every call failing, except as listed below, quota and addresses are exact at every step, rows and libvirt agree, an archive record names its image, and the life cycle implements `VmReservation` |
| `crash` | `QuotaCovered`, `IpCovered` | a process that dies at any step of a create, unshelve, removal of a record or any delete loses quota or addresses at worst: nothing in use is handed out again |
| `overlap` | `NoOvercommit`, `StatusMatchesPlacement`, `RequestsPlaced` | whatever requests meet on a vm, no host is overcommitted and no row is half placed |
| `unshelve_leak` | `UsedHasHolder`, violated | an unshelve refused for its last address leaves the address marked |
| `failed_delete` | `RowHasDisk`, violated | a delete that fails removes the disk of the vm that stays |
| `edit_undo` | `QuotaCovered`, violated | the restore of a shrinking edit may be refused unnoticed |
| `stale_archive` | `ReleasedIsGone`, violated | a forced delete records its outcome in the record of an earlier attempt, on another host |
| `migrate_serial` | `MigrateTypeOK`, `MigrateLedger`, `StaleRowIsReported`, `EndedTaskIsTrue`, `TaskEnds` | while no second request comes for a vm that migrates, with failing calls and a death, the columns are exact at every step, a wrong row is reported by a task, an ended task says what is so, and every task in a living pool ends |
| `migrate_recent` | `OneRecentTask`, violated | the five minutes are compared the wrong way round: a second migration is accepted while one runs |
| `services` | one type invariant, 19 invariants and 4 action properties, listed below | the parts of the system around the life cycle, each on its own instance |
| `shelve_two_disks` | `DevIsRecorded`, violated | an unshelve mounts the first of the disks and returns, so that recorded and real device names part |
| `release_answer` | `ReleaseAnswered`, violated | after one refused release every later success is answered with 400 |

**`services`.** The parts share no state, so a behaviour is one of a single part,
chosen at first and named by `service`, while the others keep an initial state:
the run is the union of seven small runs and not their product.

| part | property | hazard it is about |
|---|---|---|
| attachments | `DiskOnOneVm` | two mounts of a disk that meet, a detach that is done before its row |
| | `RecordedHolder` | an attach or a detach of which one half fails |
| | `ImageOfRow`, `VdiskLedger` | a create or removal of a disk that fails half way |
| | `OvercommitBounded` | the check and the write of the quota read different rows: the excess is at most one disk for each other request |
| | `AttachedIsUsed` | a vm that goes, or another vm named in a detach, frees an address in use |
| | `OnlyItsUmount` | a row is cleared by the request that detached the disk, no other |
| images | `SnapOfImage` | two updates, two deletions, two additions under one name, and clones beside them; an update whose calls fail is the exception |
| | `ImageVmLedger`, `DomainOfImage` | the claim and the domain of a vm of an image whose create, shelve or removal fails |
| | `DiskOfMachine` | a change of the system disk that fails at any of its steps, before or after the row is saved; the size is excepted where the end of a change fails |
| | `SnapshotsOfDisk` | rows of snapshots against the snapshots, with rollback and removal that meet |
| mirror | `ImageIsWhole`, `PushedWhole` | a retry appends to what an earlier attempt left, on the same or on another node; an upload is excepted whose file cannot be read |
| | `IdleIsSaid` | a failure, or a second start, that leaves the row saying that somebody works; a download that was complete already is excepted |
| access | `WhoChangesSees` | some forty rules written by hand, one of which may differ |
| | `AnsweredIsLogged` | a request that changed a vm and was not recorded |
| | `NoStaleRow` | a save of a row loaded before a change of owner or status |
| | `ReplacedWhole` | the difference of the lists of shared users is taken of rows that changed since |
| vpn | `AskedFor` | a request of the API that saves the row whole takes back what another did; a page posted late does, and is excepted |
| migrate | `StaticLedger`, `MovedWhole` | the refresh of the columns against claims under way; a source, or a target that was given up, that was not undefined |
| lists | `OfferedIsAllowed` | a list that hides or shows by other rows than the check behind it; a user who was given two rows of shields is excepted for vlans |

**What is excepted.** Where the code breaks a property in a case of its own, the
property excepts that case by name and the run has the case in it. A configuration
outside of the list of runs states what documentation says without the exception,
and TLC refutes it (`tlc -config X.cfg M`):

| configuration, module | refuted | the code |
|---|---|---|
| `UpdateLosesSnap`, `MCImages` | `SnapInForce`: the "当前生效镜像快照" of an image can be cloned | an update removes the snapshot in force first (`image/models.py:215`); when the next call fails the row goes on naming it |
| `ChangeKeepsSize`, `MCImages` | `SizeOfDisk`: "系统盘有变化，更新系统盘大小" | after the row is saved a device that cannot be mounted, or an attached address, ends the change before it reads the size (`vminstance.py:948`, 952) |
| `MirrorUnread`, `MCMirror` | `UploadedIsThere`: "上传完成" | a read that fails ends the generator of chunks as the end of the file does (`mirror_image_task.py:249`) |
| `MirrorDoneAgain`, `MCMirror` | `DownloadingIsAtWork`: "下载中" | a completed download that is started again saves DOWNLOADING (`mirror_image_task.py:775`) and returns where there is nothing left to do |
| `MirrorTwice`, `MCMirror` | `ImageIsWhole`: "镜像导入成功后，会启用镜像，否则不会启用" | nothing keeps a second script from starting (`mirror_image_task_view.py:439`), and both append to one file |
| `StaticUnnamed`, `MCStaticMigrate` | `NothingUnnamed`: "目标宿主机删除虚拟机" | the undo of a migration whose row is not saved swallows a failed undefine (`vm_builder.py:595`): a domain stays at the target that no row or task names |
| `ShieldTwoRows`, `MCResourceLists` | `OneRowOfUser`: "不能重复添加数据，只能修改" | the form refuses a second row for a user only when a row is added (`network/admin.py:40`): a row may be given to a user who has one, of which the list then reads the first and the check all |

**Bounds.** `serial` has two hosts, one with room for a large or two small vms,
one for a small one, in two groups with an address each: so that the picked host
can fill up before the claim, one group can be full while the other is not, and
the two vms can want the same address. Two workers are enough for a request to
be overtaken between any two of its steps, as every conflict is between two
requests for one row; two vms are enough for a claim and a competing one.
`crash` has one host and one death; `overlap` one host and one address, to make
all requests compete. `MaxDrift` bounds how far below zero repeated releases may
take the columns before no new request is admitted.

`migrate_serial` has two hosts and two vms, of which one host holds either the
large vm or both small claims, two requests and three tasks: enough for a
migration to fail or die, for the clean-up to deal with it, and for a third to
follow; one process may die, at any statement of a request or a thread where
nothing is lost between two saves. `migrate_recent` has three hosts,
one vm and two tasks.

`services`, by part:

* *attachments*: two requests, two vms of one host, two disks (three in the
  workload about quota), a device, an address, domains with two device names. One
  quota has room for a disk and a half, so that two creates that meet pass the
  total; six workloads (`PassWorkloads`) choose which kinds of request there are;
* *images*: two requests, two images, two machines, a host with room for one vm
  of an image, three ticks of time (`MaxTick`): an image can be updated twice
  while a machine is on its first snapshot; six settings (`PassSettings`);
* *mirror*: two scripts on two nodes, objects of two chunks and of a chunk
  and a half (`RemoteSizes`, `ReadChunk`): a chunk can be lost between two others
  and the last one is short; a pull, a push and a push of a file that cannot always be read;
* *access*: two callers, a superuser, a resource administrator and two
  users, either of whom owns the vm, with three tables of sharing;
* *vpn*: two callers, each a request or a page, two passwords, an account made twice;
* *migrate*: two requests, two vms, two hosts of which one holds both;
* *lists*: two centers with a group each, a user and a superuser, two rows of
  shields, `MaxEdits` changes by administrators: a list goes by three rows at
  most, and three edits reach every combination that two rows of shields can have, two rows of
  one user with it.

Requests are symmetric in `services`; properties there are safety and action
properties. Deadlock is not checked in it, because time, uuids and edits are used up.

**Overlaps.** Nothing in the code keeps two requests on one vm apart. Some
meetings go wrong in ways a row lock would prevent (a shelve that loaded the vm
before a delete finished frees its address for the second time), so the exact
ledgers cannot hold for all of them. `Overlaps` names the pairs of kinds that
may meet: in `serial` two plain deletes (of which the unique uuid of the archive
record stops one) and two deletes of a shelved vm; in `overlap` all pairs,
with the weaker properties that survive. Two requests on *different* vms are
unrestricted everywhere.

**Left out of `serial`.** `shrink` and `ahv_remove` of `Failing`: a shrinking
edit whose define fails is what `edit_undo` shows, and a removal of an image
that fails stops a forced delete half way, with the effects `stale_archive`
shows. `CrashOps` of `crash` leaves out shelve and edit. A shelve gives back what its
row still names, and saves the row after that; an edit shrinks the claim before
the row. One that dies between leaves a row that uses what others may take: a
hazard listed without a property.

Where a theorem needs the same restriction it names it: `Serial` is that of
`serial` and `crash`, `Complete` the rest of what is left out of `serial`, and
`DeathsAreCovered` the restriction of `crash` (section 4).

**Kept apart in `services`.** The same holds for its parts. What may not meet
on one thing, because some property is broken when it does:

* *attachments*: create of a disk with its removal for good or with mount, destroy with
  removal for good or with mount, removal for good with mount; mount with umount, delete,
  shelve, unshelve and `miss_fix`; delete with unshelve and `miss_fix`; unshelve with
  unshelve, shelve and delete of a shelved vm; `miss_fix` with umount and itself;
  attaching an address with detaching it, and with delete and shelve of the vm;
  detaching with delete and shelve; mount, umount, detach and removal for good
  with themselves. Two requests that attach the same address do meet: the second
  leaves it used though nothing records it, which `AttachedIsUsed` allows;
* *images*: an update of the snapshot with `enable_update`, with deletion of the image and
  with the vm of the image; two releases; a release with an addition of the same
  name or with an update; a snapshot of a machine with a change of its disk;
  power with a change of the disk; growth of a disk with itself; requests about the vm of an
  image with each other, but for power. Calls that do not fail in the
  instance, because the code does not undo them: undefine in a deletion of an image, clone
  in a release (a protected snapshot is left), the
  rename back after a failed change, the lack of an address for the vm of an image (its
  claim is lost), a host that cannot be reached in a deletion;
* *mirror*: a script starts only when no other is at work (`meet` FALSE), be it after a
  stop that the script at work does not read, or because two requests to start meet: neither
  is refused in the code, and `MirrorTwice` shows what becomes of the image;
* *access*: an edit of vcpu and memory, which saves the whole row, with a change of owner, with
  removal, shelve and unshelve; two replacements of the list of shared users;
* *migrate*: one migration of a vm at a time, and no refresh of a host at which
  another migration works (`RefreshMeets`).

`hazards` has the lines of the most serious of these.

`MayOverlap` of `LiveMigrate` is the same question for migrations: a request that
meets a task of its vm under way can give back what the task has, since the
clean-up reads a task without its lock and writes it later. `migrate_serial`
sets it to FALSE. Types and totals are proved for either, the other theorems of
`LiveMigrateProofs` for FALSE.

**Where processes die.** In `migrate_serial` everywhere but at the statements that
note what was just done (`UnnotedPcs` of `LiveMigrateProofs`). Between the move of the
domain and the some-todo mark nothing is left from which the clean-up could know that
the domain has moved; between a release and the save of its flag the release is
repeated; a claim is lost until its task is inserted, a count of vms until it is made.
There the code promises nothing, and `hazards` names the windows.

**Deadlock** is checked in every run but those of `services`' modules and `overlap`, where archived vms and the
drift bound can leave no request that may arrive, and the runs of
`LiveMigrate`, which stops when the `MaxTasks` ids are used up.

**Fairness.** `FairSpec` of `LiveMigrate` has weak fairness of `JobStep(t)`, one
condition per task: a `ThreadPoolExecutor` runs what was submitted to it as long
as its process lives, and a call of libvirt returns or raises. Nothing is
assumed of requests, which may stop coming, of time (`Age`), or of deaths.
`TaskEnds` therefore speaks of tasks in the pool, and excepts those of a
process that died. The script of the mirror is started by hand or by cron, and
nothing in the repository says how often: its properties are safety only.

## 4. Proofs

Every theorem holds for any sets of hosts, addresses, vms, requests, disks and so on,
any sizes and any bounds. The assumptions on the constants are the `ASSUME`s of the modules
that declare them: types; that names for "none" are not names of something; that sets
that are counted are finite (`VmsAssumption`, `AttachmentAssumption`, `MigrateAssumption`, `MigAssumption`,
`ImageAssumption`); that an image put aside has a name of its own and there is room for one snapshot (`RbdAssumption`);
that there is an image and a machine to begin with (`ImageAssumption`);
that disks, devices and interfaces are different things (`DomainAssumption`); and that
static migration begins with hosts that have room for their vms (`MigAssumption`). TLC
evaluates each in the runs. What else a theorem needs is a named hypothesis in its
`ASSUME`; the instances of the passing runs that check its property satisfy it.

| theorem | states | where |
|---|---|---|
| `Invariance`, `TypeCorrect`, `NeverOvercommitted`, `PlacementCorrect`, `RequestsArePlaced` | `TypeOK`, `NoOvercommit`, `StatusMatchesPlacement`, `RequestsPlaced` | always |
| `LedgersInvariance`, `HostLedgerExact`, `IpLedgerExact`, `LifecycleReserves` | `HostLedger`, `IpLedger`, `Reserves` | `Serial`, `CrashOps = {}` |
| `CoveredInvariance`, `QuotaIsCovered`, `IpIsCovered` | `QuotaCovered`, `IpCovered` | `Serial`, `DeathsAreCovered` |
| `StoredInvariance`, `DomainsMatchRows`, `ArchivesNameDisks` | `DomainMatchesRow`, `ArchiveNamesDisk` | `Serial`, `Complete` |
| `MigrateInvariance`, `MigrateTypeCorrect`, `MigrateNeverOvercommits` | `MigrateTypeOK`, `NoOvercommit` | always |
| `KnownInvariance`, `EndedTasksAreTrue` | `EndedTaskIsTrue` | `~MayOverlap` |
| `StaleRowsAreReported` | `StaleRowIsReported` | `~MayOverlap`; no death at "save_host", "count", "todo" |
| `MigrateLedgerIsExact` | `MigrateLedger` | `~MayOverlap`; no death at `UnnotedPcs` |
| `AttachmentsTypeCorrect`, `DiskOvercommit` | `TypeOK` of `Attachments`, `OvercommitBounded` | always |
| `DiskLedger` | `VdiskLedger` | `RemovedAlone` |
| `DisksOnOneVm`, `HoldersRecorded`, `TakenOutByItsUmount` | `DiskOnOneVm`, `RecordedHolder`, `OnlyItsUmount` | `HoldersApart` |
| `ImagesFollowRows` | `ImageOfRow` | `HoldersApart`, `RemovedApart` |
| `AttachedAddressIsUsed` | `AttachedIsUsed` | `AddressesApart` |
| `ImagesTypeCorrect`, `ImagesNeverOvercommit` | `ImagesTypeOK`, `NoOvercommit` of `SystemImages` | always |
| `ImageVmLedgerExact` | `ImageVmLedger` | `VmSetting`; a claim finds an address |
| `DomainsFollowImages` | `DomainOfImage` | `VmSetting`; a host with the domain answers |
| `SnapsOfImages` | `SnapOfImage` | `VmSetting`, `SnapSetting` |
| `DisksOfMachines` | `DiskOfMachine` | `DiskSetting` |
| `SnapshotsOfDisks` | `SnapshotsOfDisk` | `SysSnapSetting` |
| `MirrorTypeCorrect`, `OfferedIsWhole`, `UploadedIsWhole`, `IdleTaskIsSaid` | `MirrorTypeOK`, `ImageIsWhole`, `PushedWhole`, `IdleIsSaid` | `Alone` |
| `AccessTypeCorrect`, `DoneIsLogged`, `ChangesIsSeen` | `AccessTypeOK`, `AnsweredIsLogged`, `WhoChangesSees` | always |
| `NoStaleRowIsSaved` | `NoStaleRow` | `EditsApart` |
| `ReplaceIsWhole` | `ReplacedWhole` | `EditsApart`, `ReplacesApart` |
| `OnlyWhatIsAskedFor` | `AskedFor` | always |
| `OfferedIsNotRefused` | `OfferedIsAllowed` | always |
| `MigTypeCorrect`, `MovedVmIsWhole` | `MigTypeOK`, `MovedWhole` | always |
| `StaticLedgerIsExact` | `StaticLedger` | `~RefreshMeets` |

**The hypotheses.**

* `Serial`: two requests meet on one vm only as two deletes or two deletes of a shelved
  vm; nobody lacks the permission on the group of his vm's last address; the define
  of a smaller vm does not fail. Each part is needed: `unshelve_leak` shows the leak without the
  second, `edit_undo` refutes `QuotaCovered` without the third, and a shelve that meets a
  delete frees an address twice without the first.
* `CrashOps = {}`: no process dies. One that does loses what it held, so that the
  ledgers are then too high, which `CoveredInvariance` allows: it says that they are
  never too low.
* `DeathsAreCovered`: those of shelves and edits do not die (section 3, "Left out").
* `Complete`: no process dies and an archive record that a failed delete takes back can be
  removed; `stale_archive` shows what becomes of domains otherwise.
* `~MayOverlap`: no request comes for a vm at which a request or a task works. With
  another the clean-up may take back what the thread has just done.
* no death at "save_host", "count" and "todo": the domain has moved and the task is still
  in process, as no request can tell from the rows. `UnnotedPcs` adds the statements between a
  change of a quota column and the save that notes it. Everywhere else any number of processes may die.
* `RemovedAlone`: a disk is not removed for good twice at once, nor while it is still being
  created: of two removals each would give back the same size.
* `HoldersApart`: a mount does not meet the requests that would take it back, or take away
  the disk or the vm (`HolderPairs`, as in section 3, "Kept apart"); no mount or unmount comes
  twice at once; a disk of a vm that was shelved is not unmounted by a request, because its
  row may then name a machine without it (`shelve_two_disks`); and what libvirt plugged
  into a running machine it can take out again.
* `RemovedApart`: `RemovedAlone`, and a disk is not removed for good while it is soft-deleted:
  the soft delete would find no row, or rename an image that is being removed.
* `AddressesApart`: a detach of an address is the only request for it, and its vm is not deleted,
  shelved or unshelved meanwhile; nor is a vm unshelved while it is deleted as shelved. Unshelve is in it
  because one that fails puts a vm back to shelved, whose delete then looks at no address.
* `VmSetting`: no vm is made for an image, or no two requests that write the columns of its
  vm or save its row as a whole are about one image at a time (create, shelve, unshelve and delete of the
  vm, delete of the image, `snap_update`, `enable_update`): each saves the row that it loaded, and of two
  deletes each gives back the vm. The ledger needs besides that a claim finds an address, as
  `create_vm_for_image` looks it up after the claim and outside of what undoes it; the domains, that a host
  that has one answers, as `delete_for_image` takes one that does not answer for one without.
* `SnapSetting`: the snapshot of an image is not updated while the image is switched on or off or is deleted, for
  either would save the row it loaded or delete the row; an image is not deleted while it is added, switched or
  released, nor released while it is added or released, since `user_flatten_image` asks whether the image is in
  the list and makes it many calls later; an update that has removed the snapshot in force gets another (`create_snap`
  and `protect_snap` do not fail, in a setting with updates), because `Image.create_snap` removes the old one first, and
  the row goes on naming it when the new one cannot be made (`UpdateLosesSnap`; `SnapOfImage` excepts it); and
  a delete that has put the base image aside comes to delete the row, with its vm undefined.
* `DiskSetting`: no two requests change the disk of one machine at a time (a change of system, a rollback and an
  expansion with each other or with the create), as a size that is read before a change is saved after it; no
  snapshot is taken, by a user or a release, of a disk whose system is being changed, since the change looks for
  snapshots only at its start and a new disk that has one cannot be removed; and the calls that undo a failed change
  (`remove_image` of the new disk, `rename_image` back) do not fail in a setting with changes.
* `SysSnapSetting`: the second of these; nothing else makes, updates, deletes or releases the image that a release
  makes, as the clone that a release removes after a failure would be the image of the other; and clone, and
  the removal of a snapshot or an image, do not fail in a setting with releases, which leave
  the protected snapshot behind when they do.
* `Alone`: a script starts when the one before it has ended. Without it two scripts append to one
  file (`MirrorTwice`).
* `EditsApart`, `ReplacesApart`, `~RefreshMeets`: section 3,
  "Kept apart".

They restrict which requests meet, which calls fail and where processes die, not how many there are or in which
order their steps come; the lines that the code would need in order to ensure them are
in `hazards`.

**The life cycle.** `IInv` of `VmLifecycleProofs` is the conjunction of `TypeOK`,
`NoOvercommit`, `StatusMatchesPlacement` and `RequestsPlaced`, in four parts by variable
(`HostsInv`, `RowsInv`, `WorkersInv`, `StoresInv`), so that each action is looked at only
in the parts it changes. None is inductive alone. `TypeOK` fails by itself because a
delete reads `used` at the `mac_ip` of a row it takes to be placed;
`StatusMatchesPlacement` because the row that a create or an edit writes comes from the
request; `RequestsPlaced` because a request loads its row from the database.
`DeductKeepsTotals` and `FreeKeepsTotals` of `HostQuotaProofs` carry the totals: the
conditional UPDATE compares a total only when its resource changes and only from above,
and that suffices for either sign. `PlacedAt` says what a request must have at each
`pc`; `GotoPlaced` is the one lemma that moves a worker.

*What requests know.* The ledgers depend on more: that what a request loaded at its start is
still so when it gives it back. `SInv` of `VmLifecycleProofs` adds to `IInv`, for each kind
of request and each `pc`, what the row and the archive record of its vm are
(`KnowsInv`), that two requests on a vm are two deletes of which one has not archived
(`AloneInv`), and that rows have a size and no two rows an address (`RecordsInv`). The unique
uuid of the archive record is what keeps it: of two deletes that loaded the same row, the
second turns back at `Archive`.

*Ledgers.* `ClaimOf`, `IpOf` and `CountedOn` choose a request that answers for a vm. Under
`SInv` there is at most one (`Accounted`), and then every step has one of a few effects:
it changes nothing, or takes or gives back what a single vm holds, in columns and accounts
alike. `HostLedger` is a sum over the vms, and changes by one summand;
`IpLedger` and the refinement `Reserves` follow from the same effects. `LedgersInv` joins
them. For deaths there is one more effect, `DropEffect`: columns and flags stay and the vm
holds less. `CoveredInv` is what it leaves, with `LoadedUsed` for the flags that a delete has
read.

*Domains and disks.* `StoredInv` says for each request and `pc` which domains its vm has
and what its record and disk are (`Stored`), and the same for a vm at which no request works
(`AtRest`): a record with the state "released" has no domain, one with "pending" at most one, on
the host that it names. The disk is what the record says but for the moment between
`RenameDisk` and `RenameSave`, at which only one request can be.

**Live migration.** A release frees the size of the vm that a task row names, and the row may
have been loaded long before: types and totals hold only because every task that
somebody will still act on names a vm and two hosts, in the table (`TasksInv`),
in the locals of requests (`RequestPlaced`) and of jobs (`JobPlaced`).

*What threads know.* For one request or task at a vm at a time, `KInv` adds what the row of a
task is in each status (`TaskKnown`), what its thread has loaded of it at each statement
(`JobKnown`), the same for a request and the task at hand (`RequestKnown`), and that two tasks
at which somebody works, or will, are of different vms (`ApartInv`). A copy is the row, or the
row with the one flag changed that the next save writes. It is proved for any deaths: after one
the task rests in its last saved status, and the next request takes it up from there.
`EndedTaskIsTrue` is then a part of `TaskKnown`. `StaleRowIsReported` needs besides that the
trace, once made, stays (`TracesKept`).

*Ledger.* A column is the size of the vms on the host and two sums of shares: of tasks, which hold
their claim at the target until the domain moved and at the source until it is freed,
and of requests between claim and row. `TotalSplit` takes one summand out of a sum, and
`TotalChanges` and `CardinalityChanges` say what becomes of a sum of which one summand changes.
Then each step is of one kind: nothing changes hands, something is handed from a request to its
task or from a task to its vm, a claim is made, or one is freed. `CountExact` does the same for
`vm_created`, with the moved vms that the target does not count yet and those that the source still counts (`Coming`, `Leaving`).

**Attachments.** `TInv` adds to the types what each kind of request has to hold (`Request`) and
that a row has a pool, and a device name while it names a vm (`DiskRowSound`). `OvercommitBounded` is not inductive:
`ClaimsToCome` counts the requests that have read the pool and not yet claimed, each of
which may add one disk to it. `VdiskLedger` needs that one request makes or removes a disk (`MakersInv`).

*Holders.* Domain and row are written by different steps, in one order by a mount and in the
other by an unmount, and both by the lives of vms. `HInv` has five parts. Of the requests that share a vm
or a thing, which kinds they are (`MeetInv`). Of a domain, that its disks are the same in both
descriptions, each once and under its own name, and that a vm without a row has none
(`DomainsInv`). What a domain has is recorded for its vm (`HoldsInv`). Unless vms are unshelved,
what is recorded is in the description or in the hand of a request that will attach it or clear the row
(`RecordedInv`). And what each request knows of its vm and its thing at each `pc`
(`KnowsInv`). `HoldsInv` fails by itself: that the row of a disk may be cleared follows only from what the
unmount knows since its detach; and the detach removes what has the device name the row gave,
which is that very disk only by `RecordedInv`. A step changes one domain, one row or the
device rows, and `OthersKnow`, `HoldersKept` and `QuietHolders` say what is left to show then.

*Images.* `ImagesInv` says for each disk that there is no image without a row, that a listed disk has
its image under the uuid and a deleted one has one and is not mounted, unless a
request is half way: between row and image in a create, between image and row in a removal
(`HalfPcs`). `KnowsImage` is what each request knows of the image at its `pc`, above all that the
name a removal has read is still the name. That a destroyed disk is not mounted follows from `HInv`: a mount that
passed its check keeps the soft delete away.

*Addresses.* `AddressesInv` says of an address that is attached that its vm is normal and its flag set, but
between the two steps of a detach (`IpSound`). An attach that fails is undone by what frees any
holder's address, so that this rests on which requests are past the flag and which past the row: of
two attaches of one address only one can be (`OneHolds`), and it is the one whose vm the row names
(`KnowsIp`). A vm that passed the check of a delete or a shelve gets no address any more (`Leaving`).

**Images.** The operators of `RbdPool` give sets of outcomes. For each call there is a lemma of what it may do
(`Made`, `Snapped`, `Cloned`, `Renamed`, ...) and one of what becomes of each image of the pool by
that; nothing else expands them. `TInv` adds to the types that the pool is `Sound`: what is not there has no snapshots,
what is protected is there, no snapshot is later than the time; and that each request is at a step of its kind and
is about what its kind is about (`Formed`). That is needed for the totals, because what a request
gives back is what the host in its record gets. `MInv` adds that the requests that are about the same image or
machine are of kinds that the setting lets meet.

*Vms of images.* `VmInv` adds what each request that works at the vm of an image knows of the row it loaded:
that the row it holds names the same vm as the one in the table, or none, by its `pc` (`VmKnows`), and that
no two rows name one vm and none one later than the last uuid (`VmRows`). The columns of a host are a sum over the images of a bit for the
row less one for a request between column and row (`Held`, `Counted`), and each step changes the
summand of one image on one host as it changes the column (`HeldBy`, `CountedBy`). `DomInv` says that
the vm of each domain is named by a row, and that a row names one without a domain exactly while a
request is between the two.

*Snapshots of images.* `SnapOfImage` is not inductive, for what it leaves out: while an update is
under way. `OfferSound` says that an image in the list has its base image, with the snapshot that the row names
or an update that will name another, until a delete has put it aside. That the update ends well depends on what
it knows (`SnapKnows`): the snapshot it has made and not yet saved is there, protected, and not the one in
the row, so that of two updates neither removes what the other is about to name (`SnapsDiffer`: times of
snapshots are never used twice); a request that saves the whole row has the snapshot that is in it; and a release past
its look at the list is about an image that is not in it.

*Disks of machines.* `DiskOfMachine` speaks of machines at rest. `DiskInv` adds that at most one request
changes a machine, and what that one knows at each `pc` (`DiskKnows`): until a change of system has saved the
row, the disk that the row means is the one set aside, whole, and the new one has no snapshot, so that it can be
removed and the old one renamed back; a create has its clone, and its row only after; an
expansion saves the size that the disk has, and a request that ends before it has saved the size leaves
the clone. `CloneOf` takes a parent that was set aside for the one in
the row: `Like` and `Follows` say what a rename of an image, a flatten or a removal leaves of every other disk, and
with them each call is looked at only at the one disk it is about.

*Snapshots of disks.* `SnapshotsOfDisk` alone is not kept by a rollback, a delete or a rename. `SysSnapInv` adds whose
each snapshot is: a row names one that is there, or that a request which comes to the row has removed (`Drops`); one that is
taken and not yet noted belongs to the one request that holds it (`Holds`); a protected one to a release (`Guards`), and
what is cloned from it to the same (`Copies`), so that its removal cannot be refused; a disk set aside protects none. A
change of system under way means that no row names the machine, which lets it rename the
disk. Each step then loses at most one snapshot, or one protection (`Loses`), and its request knows which.

**Mirror.** `MirrorInv` says for the one script at work what its copy of the row, the file at
its node and the mirror are at each step (`ScriptSound`), and for a task at rest that what it
offers is there (`TaskSound`): an import begins with no file, so what was left by a killed
script is not in it. `SaidInv` adds which status a script leaves behind it at any step.
A task that is started again when all is done is one more status a script may leave.

**Access, vpn, lists.** `RouteShapes` takes the forty handlers apart once, into what a
handler demands, does and logs; the rest is about those. `RowsSound` says that the row
an edit has loaded is still the row. An offer is the conjunction of the conditions of the list
and an acceptance that of the check: for vlans they agree of a user who has one row of shields (`OneShield`).

**Static migration.** `MoveInv` says for each step of a migration where the domain, the disk
and the row are, and that a vm that nothing moves is whole. `LedgerInv` adds the
columns as numbers of vms and of claims under way, and what the refresh has read.

**Only model-checked.** The type invariant of `services` as one formula, of which each part is
proved in the module of that part. Out of the prover's reach: liveness under fairness (`TaskEnds`), `ENABLED`, and
induction over data.

## 5. Findings

The seven violation runs are disagreements between code and comment; each is
quoted in `PROJECT.json`, `findings`. The seven configurations of section 3, "What is
excepted", show as many more, with the comment that each refutes.

## 6. Plan

Done: the life cycle, both kinds of migration, disks, devices and addresses,
images, the mirror, the rules of access, vpn accounts and lists; the theorems of
section 4, which state every invariant and action property of the passing runs but
`TaskEnds` and the one type invariant that joins those of the parts of `services`. What is
left is to model more: the two windows in `hazards` that no property covers, and the composition
of the life cycle with migration, so that a vm that moves may be deleted or resized.

## 7. Not modelled

* Text: the xml of domains and devices, configuration files of vpn and DHCP, the
  addresses of a subnet, serializers, pages, translations.
* What only reads or appends: statistics, monthly reports, the inventory of
  servers, the log beyond whether a record is made, stats of domains.
* What is done by a program outside: the connect script of the vpn server and its
  log of sessions, the password change in a guest, the console proxy.
* Authentication: passwords, sessions, tokens, the list of addresses that may call.
* Inside the modelled parts: local disks of a host, a process that dies anywhere
  but in `VmLifecycle`, `LiveMigrate` and `MirrorImage`, totals that an
  administrator types in, images whose size is read again from ceph,
  objects of size zero (for which the download does not end), the devices that a forced
  static migration takes out of a vm.
* Lists: devices found by type or by search, and the vms a device can be mounted on, are
  not limited to what the user may see, and so no rule is stated for them.
* Vendored and generated code.
