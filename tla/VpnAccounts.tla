---------------------------- MODULE VpnAccounts ----------------------------
(***************************************************************************)
(* The account of a user with the vpn: the requests of the interface       *)
(* (VPNViewSet) and of the pages (src/vpn/views.py) that write its row.    *)
(*                                                                         *)
(* A request loads the row and saves the columns it has changed.  A page   *)
(* shows the row first, and what is posted later is compared with the row  *)
(* as it is then.  Who may send a request is left out: administrators.     *)
(***************************************************************************)
EXTENDS Integers

CONSTANTS
    VpnCallers,  \* requests at a time
    Passwords,
    MaxVpnId     \* a bound: how often the account is made

VARIABLES
    vpn,       \* the row of VPNAuth
    vpn_call   \* the requests

vpnVars == <<vpn, vpn_call>>

Columns == {"password", "active"}

VpnRow == [there : BOOLEAN, id : Nat, password : Passwords, active : BOOLEAN]

\* columns: those the user wants changed.
VpnCall == [pc : {"idle", "page", "save"},
            op : {"none", "create", "change", "post", "delete"},
            row : VpnRow, columns : SUBSET Columns, update_fields : SUBSET Columns]

ASSUME VpnAssumption == Passwords # {} /\ MaxVpnId \in Nat \ {0}

NoVpn == [there |-> FALSE, id |-> 0, password |-> CHOOSE p \in Passwords : TRUE, active |-> FALSE]

NoVpnCall == [pc |-> "idle", op |-> "none", row |-> NoVpn, columns |-> {}, update_fields |-> {}]

VpnTypeOK ==
    /\ vpn \in VpnRow
    /\ vpn_call \in [VpnCallers -> VpnCall]

VpnInit ==
    /\ vpn = NoVpn
    /\ vpn_call = [c \in VpnCallers |-> NoVpnCall]

-----------------------------------------------------------------------------
\* The request goes on to save the columns of `row` that `update_fields` names.
ToSave(c, op, row, columns, update_fields) ==
    vpn_call' = [vpn_call EXCEPT ![c] = [pc |-> "save", op |-> op, row |-> row,
                                         columns |-> columns, update_fields |-> update_fields]]

\* A request that finds no row is refused.
get_vpn(c) == vpn_call[c].pc = "idle" /\ vpn.there

\* The columns in which two rows differ.
Differing(row, other) == {col \in Columns : row[col] # other[col]}

-----------------------------------------------------------------------------
(* VPNViewSet.                                                             *)

\* The row is inserted when it is saved.
create_vpn(c, p, active) ==
    /\ vpn_call[c].pc = "idle" /\ ~vpn.there
    /\ vpn.id < MaxVpnId
    /\ ToSave(c, "create", [there |-> TRUE, id |-> vpn.id + 1, password |-> p, active |-> active],
              Columns, Columns)
    /\ UNCHANGED vpn

\* An account made by the interface is not active (VPN_USER_ACTIVE_DEFAULT).
VPNViewSet_create(c) == \E p \in Passwords : create_vpn(c, p, FALSE)

\* A fault of set_password that a run has to find: the row is saved whole.
set_password_whole(c, p) == ToSave(c, "change", [vpn EXCEPT !.password = p], {"password"}, Columns)

set_password(c, p) ==
    ToSave(c, "change", [vpn EXCEPT !.password = p], {"password"}, {"password"})

VPNViewSet_partial_update(c) ==
    /\ get_vpn(c)
    /\ \E p \in Passwords : set_password(c, p)
    /\ UNCHANGED vpn

\* An account that is active already is left alone.
active_vpn(c) ==
    /\ get_vpn(c) /\ ~vpn.active
    /\ ToSave(c, "change", [vpn EXCEPT !.active = TRUE], {"active"}, {"active"})
    /\ UNCHANGED vpn

deactive_vpn(c) ==
    /\ get_vpn(c) /\ vpn.active
    /\ ToSave(c, "change", [vpn EXCEPT !.active = FALSE], {"active"}, {"active"})
    /\ UNCHANGED vpn

-----------------------------------------------------------------------------
(* The pages.                                                              *)

VPNAddView_post(c) == \E p \in Passwords, active \in BOOLEAN : create_vpn(c, p, active)

change_vpn_view(c) ==
    /\ get_vpn(c)
    /\ vpn_call' = [vpn_call EXCEPT ![c] = [NoVpnCall EXCEPT !.pc = "page", !.op = "change", !.row = vpn]]
    /\ UNCHANGED vpn

\* What is posted is compared with the row as it is now, so that a column that
\* has changed since the page showed it is written back.
save_change(c, posted) ==
    LET update_fields == Differing(posted, vpn)
    IN  /\ update_fields # {}
        /\ ToSave(c, "post", posted, Differing(posted, vpn_call[c].row), update_fields)

\* The user changes some of what the page shows, and all of it is posted.
VPNChangeView_post(c) ==
    /\ vpn_call[c].pc = "page" /\ vpn.there /\ vpn.id = vpn_call[c].row.id
    /\ \E p \in Passwords, active \in BOOLEAN :
         save_change(c, [vpn EXCEPT !.password = p, !.active = active])
    /\ UNCHANGED vpn

VPNDeleteView_post(c) ==
    /\ get_vpn(c)
    /\ ToSave(c, "delete", vpn, {}, {})
    /\ UNCHANGED vpn

\* One statement deletes the accounts that are not active.
VPNDeleteUnactiveView_post(c) ==
    /\ get_vpn(c) /\ ~vpn.active
    /\ vpn' = [vpn EXCEPT !.there = FALSE]
    /\ UNCHANGED vpn_call

-----------------------------------------------------------------------------
\* save(update_fields=...) writes those columns of the row in hand and fails when
\* the row is gone; an insert fails when the user has a row.
VPNAuth_save(c) ==
    LET call == vpn_call[c]
        written(col) == IF col \in call.update_fields THEN call.row[col] ELSE vpn[col]
    IN  vpn' = IF call.op = "create"
               THEN IF vpn.there THEN vpn ELSE [call.row EXCEPT !.id = vpn.id + 1]
               ELSE IF vpn.there /\ vpn.id = call.row.id
               THEN [vpn EXCEPT !.password = written("password"), !.active = written("active")]
               ELSE vpn

SaveVpn(c) ==
    /\ vpn_call[c].pc = "save"
    /\ IF vpn_call[c].op = "delete"
       THEN vpn' = [vpn EXCEPT !.there = vpn.there /\ vpn.id # vpn_call[c].row.id]
       ELSE VPNAuth_save(c)
    /\ vpn_call' = [vpn_call EXCEPT ![c] = NoVpnCall]

\* The page is left, or a request refused that was to come this far.
LeavePage(c) ==
    /\ vpn_call[c].pc = "page"
    /\ vpn_call' = [vpn_call EXCEPT ![c] = NoVpnCall]
    /\ UNCHANGED vpn

VpnNext ==
    \E c \in VpnCallers :
        \/ VPNViewSet_create(c)
        \/ VPNViewSet_partial_update(c)
        \/ active_vpn(c)
        \/ deactive_vpn(c)
        \/ VPNAddView_post(c)
        \/ change_vpn_view(c)
        \/ VPNChangeView_post(c)
        \/ VPNDeleteView_post(c)
        \/ VPNDeleteUnactiveView_post(c)
        \/ SaveVpn(c)
        \/ LeavePage(c)

VpnSpec == VpnInit /\ [][VpnNext]_vpnVars

-----------------------------------------------------------------------------
\* A column of an account changes only by a request that is meant to change it,
\* whatever other requests are between their load and their save, or by a page
\* that is posted, which writes back what it has shown; and an account that was
\* deleted comes back only when it is made again.  So one that was deactivated is
\* not let in again by a change of its password through the interface; by a page
\* that was shown before, it is (set_password, active_vpn, deactive_vpn,
\* save_change).
AskedFor ==
    [][/\ vpn.there /\ vpn'.there
          => \A col \in Differing(vpn, vpn') :
               \E c \in VpnCallers : /\ vpn_call[c].pc = "save" /\ vpn_call'[c].pc = "idle"
                                     /\ col \in vpn_call[c].columns \/ vpn_call[c].op = "post"
       /\ ~vpn.there /\ vpn'.there
          => \E c \in VpnCallers : vpn_call[c].op = "create" /\ vpn_call'[c].pc = "idle"]_vpnVars
=============================================================================
