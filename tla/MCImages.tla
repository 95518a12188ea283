------------------------------ MODULE MCImages ------------------------------
(* ImageProperties on small instances: two images, a machine that is there *)
(* and one that may be made, and a host with room for one vm of an image.  *)
EXTENDS ImageProperties, TLC

\* The host has one vcpu and may have three vms.
MCOne == [h \in Hosts |-> 1]
MCVmLimit == [h \in Hosts |-> 3]
MCRbdNames == Images \cup Machines

\* Requests of these kinds, of which those of `overlaps` may be about the same
\* image or machine at a time: README, "Images".
ImageWork ==
    [ops |-> {"add_image", "snap_update", "delete_image", "create_machine"},
     overlaps |-> {<<"snap_update", "snap_update">>, <<"create_machine", "snap_update">>,
                   <<"create_machine", "delete_image">>, <<"add_image", "add_image">>,
                   <<"create_machine", "create_machine">>, <<"delete_image", "delete_image">>},
     failing |-> {"define", "remove_image", "rename_image"}]

\* An update that fails on its way.
UpdateWork ==
    [ops |-> {"snap_update", "create_machine", "delete_image"},
     overlaps |-> {<<"create_machine", "snap_update">>},
     failing |-> {"create_snap", "protect_snap", "remove_snap"}]

EnableWork ==
    [ops |-> {"enable_update", "create_machine", "change_sys_disk"},
     overlaps |-> {<<"enable_update", "enable_update">>, <<"create_machine", "enable_update">>,
                   <<"change_sys_disk", "enable_update">>},
     failing |-> {"define", "remount", "get_size"}]

ImageVmWork ==
    [ops |-> {"create_image_vm", "unshelve_image_vm", "shelve_image_vm", "delshelve_image_vm",
              "delete_image_vm", "image_vm_power", "add_image"},
     overlaps |-> {<<"image_vm_power", op>> : op \in ImageOps},
     failing |-> {"define", "undefine"}]

SysDiskWork ==
    [ops |-> {"change_sys_disk", "create_sys_snap", "delete_sys_snap", "rollback",
              "sys_disk_expand", "add_image", "snap_update"},
     overlaps |-> {<<"create_sys_snap", "rollback">>, <<"delete_sys_snap", "rollback">>,
                   <<"create_sys_snap", "delete_sys_snap">>,
                   <<"create_sys_snap", "create_sys_snap">>, <<"change_sys_disk", "snap_update">>},
     failing |-> {"clone", "define", "remove_snap", "resize", "rollback"}]

ReleaseWork ==
    [ops |-> {"release", "power", "create_sys_snap", "delete_image", "create_machine"},
     overlaps |-> {<<"release", "power">>, <<"release", "create_machine">>,
                   <<"release", "create_sys_snap">>},
     failing |-> {"flatten", "create_snap"}]

PassSettings == {ImageWork, UpdateWork, EnableWork, ImageVmWork, SysDiskWork, ReleaseWork}

\* A machine is released, and released again.
ReleasesOnly == {[ReleaseWork EXCEPT !.ops = {"release"}, !.overlaps = {}, !.failing = {}]}

\* An update whose second call fails; a change of a larger disk that ends early.
UpdatesOnly == {[UpdateWork EXCEPT !.ops = {"snap_update"}, !.overlaps = {}, !.failing = {"create_snap"}]}
ChangesOnly == {[EnableWork EXCEPT !.ops = {"sys_disk_expand", "change_sys_disk"}, !.overlaps = {},
                                   !.failing = {"remount"}]}
=============================================================================
