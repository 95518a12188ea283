--------------------------- MODULE MCAttachments ---------------------------
(* AttachmentProperties on small instances: two vms of one host, a pool    *)
(* with room for a disk and a half, a device, an address.                  *)
EXTENDS AttachmentProperties, TLC

CONSTANTS q1, d3

MCQuotaTotal == [q \in Quotas |-> IF q = q1 THEN 3 ELSE 2]
MCMaxVdisk == [q \in Quotas |-> 2]

\* Requests of all kinds meet, but for the pairs that are kept apart, with
\* which some property does not hold: README, "Attachments".  Requests to mount, to
\* unmount, to detach and to remove for good do not come twice.
Apart(pairs) == pairs \cup {<<p[2], p[1]>> : p \in pairs}

Work(ops, apart) ==
    [ops |-> ops, overlaps |-> (ops \X ops) \ Apart(apart),
     repeats |-> ops \ {"admin_delete", "mount_disk", "mount_pci", "umount_disk", "umount_pci",
                        "detach_ip"},
     things |-> Things \ {d3}, strangers |-> FALSE]

\* Disks from their creation to their removal, on machines that are switched on
\* and off.
DiskWork ==
    Work({"create_vdisk", "destroy_vdisk", "admin_delete", "mount_disk", "umount_disk",
          "power"},
         {<<"create_vdisk", "admin_delete">>, <<"create_vdisk", "mount_disk">>,
          <<"destroy_vdisk", "admin_delete">>, <<"destroy_vdisk", "mount_disk">>,
          <<"admin_delete", "mount_disk">>, <<"mount_disk", "umount_disk">>})

\* A third disk for a pool that two overcommit.
PoolWork ==
    [Work({"create_vdisk", "destroy_vdisk", "admin_delete"},
          {<<"create_vdisk", "admin_delete">>, <<"destroy_vdisk", "admin_delete">>})
     EXCEPT !.things = Disks]

\* A vm goes through its life with disks mounted; nothing is unmounted by a
\* request once it was shelved.
LifeWork ==
    Work({"create_vdisk", "mount_disk", "delete_vm", "shelve", "unshelve", "delshelve"},
         {<<"create_vdisk", "mount_disk">>, <<"mount_disk", "delete_vm">>,
          <<"mount_disk", "shelve">>, <<"mount_disk", "unshelve">>, <<"delete_vm", "unshelve">>,
          <<"unshelve", "delshelve">>, <<"unshelve", "unshelve">>,
          <<"shelve", "unshelve">>})

\* The host loses the domain of a vm, and miss_fix brings it back.
FixWork ==
    Work({"create_vdisk", "mount_disk", "umount_disk", "delete_vm", "miss_fix", "lose"},
         {<<"create_vdisk", "mount_disk">>, <<"mount_disk", "umount_disk">>,
          <<"mount_disk", "miss_fix">>, <<"mount_disk", "delete_vm">>,
          <<"umount_disk", "miss_fix">>, <<"delete_vm", "miss_fix">>,
          <<"miss_fix", "miss_fix">>})

\* Devices, and addresses, which any vm may be named to detach.
PciWork ==
    Work({"mount_pci", "umount_pci", "delete_vm", "power", "shelve", "unshelve"},
         {<<"mount_pci", "umount_pci">>, <<"mount_pci", "delete_vm">>,
          <<"delete_vm", "unshelve">>})

IpWork ==
    [Work({"attach_ip", "detach_ip", "delete_vm", "shelve", "delshelve", "power"},
          {<<"attach_ip", "detach_ip">>, <<"attach_ip", "delete_vm">>,
           <<"attach_ip", "shelve">>, <<"detach_ip", "detach_ip">>,
           <<"detach_ip", "delete_vm">>, <<"detach_ip", "shelve">>})
     EXCEPT !.strangers = TRUE]

PassWorkloads == {DiskWork, PoolWork, LifeWork, FixWork, PciWork, IpWork}

\* A vm is shelved with two disks and comes back with one.
ShelveTwoDisks ==
    {Work({"create_vdisk", "mount_disk", "umount_disk", "shelve", "unshelve"},
          {<<"create_vdisk", "mount_disk">>, <<"mount_disk", "umount_disk">>})}
=============================================================================
