---------------------------- MODULE AdminRotation ----------------------------
(***************************************************************************)
(* The admin of the token contract (admin.rs): set once by initialize,     *)
(* then replaced in one step (set_admin) or by proposal and acceptance     *)
(* (propose_admin, accept_admin), the latter with an activation delay that *)
(* check_admin enforces on privileged calls.                               *)
(***************************************************************************)
EXTENDS Host

CONSTANTS
    NoAddress,         \* an absent Admin, PendingAdmin or ClawbackCoSigner key
    NewAdmins,         \* addresses a caller may name as the new admin
    ActivationDelay    \* ADMIN_ACTIVATION_DELAY

ASSUME AdminAssumption ==
    /\ NoAddress \notin Address
    /\ NewAdmins \subseteq Address
    /\ ActivationDelay \in Nat

VARIABLES
    admin,             \* DataKey::Admin (instance storage)
    pendingAdmin,      \* DataKey::PendingAdmin
    adminActiveAfter   \* DataKey::AdminActiveAfter, 0 when absent

adminVars == <<admin, pendingAdmin, adminActiveAfter>>

MaybeAddress == Address \cup {NoAddress}

AdminTypeOK ==
    /\ admin \in MaybeAddress
    /\ pendingAdmin \in MaybeAddress
    /\ adminActiveAfter \in Nat

AdminInit ==
    /\ admin = NoAddress
    /\ pendingAdmin = NoAddress
    /\ adminActiveAfter = 0

HasAdmin == admin # NoAddress

\* Mutation: check_admin ignores the activation ledger.
CheckAdmin_NoDelay(a) == a = admin

CheckAdmin(a) ==
    /\ now >= adminActiveAfter
    /\ a = admin

ProposeAdmin(caller, newAdmin) ==
    /\ caller = admin
    /\ pendingAdmin' = newAdmin
    /\ UNCHANGED <<admin, adminActiveAfter>>

\* read_admin unwraps, so there is an admin to replace.
AcceptAdmin(caller) ==
    /\ caller = pendingAdmin
    /\ HasAdmin
    /\ admin' = pendingAdmin
    /\ adminActiveAfter' = now + ActivationDelay
    /\ pendingAdmin' = NoAddress

\* set_admin: no activation check, and the activation ledger and a pending
\* proposal survive.
TransferAdmin(caller, newAdmin) ==
    /\ caller = admin
    /\ admin' = newAdmin
    /\ UNCHANGED <<pendingAdmin, adminActiveAfter>>

AdminNext ==
    \/ \E c \in Account, n \in NewAdmins : ProposeAdmin(c, n)
    \/ \E c \in Account : AcceptAdmin(c)
    \/ \E c \in Account, n \in NewAdmins : TransferAdmin(c, n)

=============================================================================
