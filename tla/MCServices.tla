----------------------------- MODULE MCServices -----------------------------
(* The parts of the system that share no state with each other, each on a  *)
(* small instance: a behaviour is one of the first part that is chosen.    *)
EXTENDS MCAttachments, MCImages, MCMirror, MCAccess, VpnAccounts, MCStaticMigrate,
        MCResourceLists

VARIABLE service

serviceVars == <<service, vars, imageVars, mirrorVars, accessVars, vpnVars, migVars, listVars>>

\* Requests are alike, in whichever thread they run.
MCThreads == Permutations(Workers)

Services == {"attachments", "images", "mirror", "access", "vpn", "migrate", "lists"}

\* The part that a behaviour is not one of keeps the first of its initial states.
ServicesInit ==
    /\ service \in Services
    /\ Init /\ ImagesInit /\ MirrorInit /\ AccessInit /\ VpnInit /\ MigInit /\ ListsInit
    /\ service # "attachments" => workload = CHOOSE x \in Workloads : TRUE
    /\ service # "images" => setting = CHOOSE x \in Settings : TRUE
    /\ service # "mirror" => /\ mirrorwork = CHOOSE x \in MirrorWorks : TRUE
                             /\ remote_size = CHOOSE x \in RemoteSizes : TRUE

AttachmentsStep ==
    /\ service = "attachments" /\ Next
    /\ UNCHANGED <<imageVars, mirrorVars, accessVars, vpnVars, migVars, listVars>>

ImagesStep ==
    /\ service = "images" /\ ImagesNext
    /\ UNCHANGED <<vars, mirrorVars, accessVars, vpnVars, migVars, listVars>>

MirrorStep ==
    /\ service = "mirror" /\ MirrorNext
    /\ UNCHANGED <<vars, imageVars, accessVars, vpnVars, migVars, listVars>>

AccessStep ==
    /\ service = "access" /\ AccessNext
    /\ UNCHANGED <<vars, imageVars, mirrorVars, vpnVars, migVars, listVars>>

VpnStep ==
    /\ service = "vpn" /\ VpnNext
    /\ UNCHANGED <<vars, imageVars, mirrorVars, accessVars, migVars, listVars>>

MigrateStep ==
    /\ service = "migrate" /\ MigNext
    /\ UNCHANGED <<vars, imageVars, mirrorVars, accessVars, vpnVars, listVars>>

ListsStep ==
    /\ service = "lists" /\ ListsNext
    /\ UNCHANGED <<vars, imageVars, mirrorVars, accessVars, vpnVars, migVars>>

ServicesNext ==
    /\ UNCHANGED service
    /\ \/ AttachmentsStep
       \/ ImagesStep
       \/ MirrorStep
       \/ AccessStep
       \/ VpnStep
       \/ MigrateStep
       \/ ListsStep

ServicesSpec == ServicesInit /\ [][ServicesNext]_serviceVars

\* Every part has its types.
ServicesTypeOK ==
    /\ TypeOK
    /\ ImagesTypeOK
    /\ MirrorTypeOK
    /\ AccessTypeOK
    /\ VpnTypeOK
    /\ MigTypeOK
    /\ ListsTypeOK
=============================================================================
