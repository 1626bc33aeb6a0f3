------------------------------- MODULE Staff -------------------------------
(***************************************************************************)
(* Staff accounts: sign-in and sessions, password change, and the          *)
(* management of staff by super administrators (staff.service.ts,          *)
(* staff.controller.ts), with the two ways a staff route is guarded: by a  *)
(* permission of the role (staff-permission.guard.ts) and by a list of     *)
(* roles in the controller.                                                *)
(*                                                                         *)
(* The guard of a request and every read of its handler happen before the  *)
(* handler's first write; deactivate writes twice.                         *)
(***************************************************************************)
EXTENDS Naturals, FiniteSets

CONSTANTS Members,        \* staff e-mail addresses
          FirstAdmin,     \* the seeded super administrator
          Logins,         \* rows of StaffSession that may come to exist
          Desks,          \* concurrent HTTP handlers
          GivenRoles,     \* roles that are handed out
          MaxStaffOps     \* bound: requests that change something

VARIABLES staff,        \* the StaffUser rows
          logins,       \* the StaffSession rows
          desk,         \* what each handler has read and does next
          staffOps,     \* requests started (bound)
          stoodDown,    \* history: an administrator gave up the role himself
          overtaken     \* history: a change by somebody no longer entitled

staffVars == <<staff, logins, desk, staffOps, stoodDown, overtaken>>

-----------------------------------------------------------------------------
(* STAFF_PERMISSIONS, the permissions some route or role list stands for.  *)

OperationsPermissions ==
  {"users.view", "stores.view", "stores.update", "products.view", "orders.view",
   "orders.cancel", "orders.status.update", "deliveries.view", "deliveries.assign",
   "deliveries.status.update", "reports.view", "roles.assign", "roles.revoke",
   "rewards.manage", "support.tickets.manage", "chats.moderate"}

FinancePermissions ==
  {"orders.view", "orders.refund.approve", "payments.view", "payments.reconcile",
   "payments.reverse", "wallets.view", "wallets.credit", "wallets.debit",
   "reports.view", "reports.export", "rewards.manage"}

CompliancePermissions ==
  {"users.view", "users.freeze", "riders.view", "kyc.read", "kyc.review",
   "risk.flag", "risk.blacklist.create", "audit.view", "reports.view"}

MerchantPermissions ==
  {"stores.view", "stores.create", "stores.update", "stores.activate",
   "stores.suspend", "merchants.approve", "merchants.suspend", "products.view",
   "products.create", "products.update", "inventory.adjust", "orders.view"}

SupportPermissions ==
  {"users.view", "users.update", "users.freeze", "orders.view", "orders.cancel",
   "orders.refund.initiate", "products.view", "stores.view",
   "support.tickets.manage", "chats.moderate"}

CreditPermissions ==
  {"users.view", "bnpl.loan.create", "bnpl.limit.adjust",
   "bnpl.repayment.restructure", "reports.view", "bnpl.repayments.view"}

AuditPermissions ==
  {"users.view", "stores.view", "products.view", "orders.view", "payments.view",
   "deliveries.view", "riders.view", "kyc.read", "reports.view", "reports.export",
   "audit.view", "audit.export"}

RegionalPermissions ==
  {"users.view", "stores.view", "stores.update", "products.view", "orders.view",
   "orders.cancel", "deliveries.view", "deliveries.assign", "riders.view", "reports.view"}

FaultyStaffPermissions ==
  [SUPER_ADMIN            |-> {"admin.*"},
   OPERATIONS_ADMIN       |-> OperationsPermissions \ {"rewards.manage"},
   FINANCE_ADMIN          |-> FinancePermissions,
   RISK_COMPLIANCE_ADMIN  |-> CompliancePermissions \cup {"risk.blacklist.remove"},
   MERCHANT_ADMIN         |-> MerchantPermissions,
   CUSTOMER_SUPPORT_ADMIN |-> SupportPermissions,
   CREDIT_BNPL_ADMIN      |-> CreditPermissions,
   AUDIT_OBSERVER_ADMIN   |-> AuditPermissions,
   REGIONAL_ADMIN         |-> RegionalPermissions,
   COMPLIANCE_LEAD        |-> CompliancePermissions \cup {"audit.export"}]

StaffPermissions ==
  [SUPER_ADMIN            |-> {"admin.*"},
   OPERATIONS_ADMIN       |-> OperationsPermissions,
   FINANCE_ADMIN          |-> FinancePermissions,
   RISK_COMPLIANCE_ADMIN  |-> CompliancePermissions \cup {"risk.blacklist.remove"},
   MERCHANT_ADMIN         |-> MerchantPermissions,
   CUSTOMER_SUPPORT_ADMIN |-> SupportPermissions,
   CREDIT_BNPL_ADMIN      |-> CreditPermissions,
   AUDIT_OBSERVER_ADMIN   |-> AuditPermissions,
   REGIONAL_ADMIN         |-> RegionalPermissions,
   COMPLIANCE_LEAD        |-> CompliancePermissions \cup {"audit.export"}]

StaffRoles == DOMAIN StaffPermissions

\* The seeded administrator is staff; createStaff and update take a role of the
\* enumeration the table is written for.
ASSUME StaffAssumption ==
  FirstAdmin \in Members /\ GivenRoles \subseteq StaffRoles /\ MaxStaffOps \in Nat

\* StaffPermissionGuard; "admin.*" is the only wildcard of the table.
StaffMay(role, permission) ==
  {permission, "admin.*"} \cap StaffPermissions[role] # {}

\* The permission each guarded staff route asks for.
StaffRoutes ==
  [dashboard |-> "reports.view", updateOrderStatus |-> "orders.status.update",
   getRiderKyc |-> "kyc.read", decideRiderApplication |-> "kyc.review",
   reviewEvidence |-> "kyc.review", activateStore |-> "stores.activate",
   decideVendor |-> "merchants.approve", pushCampaigns |-> "notifications.send"]

\* Controllers that compare the role itself, and the permission of that work.
RewardsDesk == {"SUPER_ADMIN", "OPERATIONS_ADMIN", "FINANCE_ADMIN"}
SupportDesk == {"SUPER_ADMIN", "CUSTOMER_SUPPORT_ADMIN", "OPERATIONS_ADMIN"}
CreditDesk == {"SUPER_ADMIN", "CREDIT_BNPL_ADMIN"}

-----------------------------------------------------------------------------

Waiting == [step |-> "waiting", actor |-> FirstAdmin, target |-> FirstAdmin,
            role |-> "none", status |-> "none", password |-> 0, late |-> FALSE]
NoStaff == [status |-> "none", role |-> "none", password |-> 0, temporary |-> FALSE]

StaffInit ==
  /\ staff = [m \in Members |->
       IF m = FirstAdmin
       THEN [status |-> "ACTIVE", role |-> "SUPER_ADMIN", password |-> 1, temporary |-> FALSE]
       ELSE NoStaff]
  /\ logins = [l \in Logins |-> [state |-> "none", member |-> FirstAdmin,
                                 password |-> 0, late |-> FALSE]]
  /\ desk = [d \in Desks |-> Waiting]
  /\ staffOps = 0
  /\ stoodDown = FALSE
  /\ overtaken = FALSE

Open(d, rec) ==
  /\ desk[d] = Waiting /\ staffOps < MaxStaffOps
  /\ staffOps' = staffOps + 1
  /\ desk' = [desk EXCEPT ![d] = rec]
Close(d) == desk' = [desk EXCEPT ![d] = Waiting]

Active(m) == staff[m].status = "ACTIVE"
\* validateSession, behind StaffJwtGuard.
SignedIn(m) == Active(m) /\ \E l \in Logins : logins[l].state = "live" /\ logins[l].member = m
\* assertSuperAdmin
SuperAdmin(m) == Active(m) /\ staff[m].role = "SUPER_ADMIN"

-----------------------------------------------------------------------------
(* Sessions.                                                               *)

StaffLogin(d, m, password) ==
  /\ Active(m) /\ password = staff[m].password
  /\ Open(d, [Waiting EXCEPT !.step = "session", !.actor = m, !.password = password])
  /\ UNCHANGED <<staff, logins, stoodDown, overtaken>>

IssueTokens(d) ==
  /\ desk[d].step = "session"
  /\ \E l \in Logins :
       /\ logins[l].state = "none"
       /\ logins' = [logins EXCEPT ![l] =
            [state |-> "live", member |-> desk[d].actor,
             password |-> desk[d].password, late |-> desk[d].late]]
  /\ Close(d)
  /\ UNCHANGED <<staff, staffOps, stoodDown, overtaken>>

\* logout, or the session runs out of time.
StaffLogout(l) ==
  /\ logins[l].state = "live"
  /\ logins' = [logins EXCEPT ![l].state = "revoked"]
  /\ UNCHANGED <<staff, desk, staffOps, stoodDown, overtaken>>

SignedOut(m) ==
  [l \in Logins |-> IF logins[l].member = m /\ logins[l].state = "live"
                    THEN [logins[l] EXCEPT !.state = "revoked"] ELSE logins[l]]

StaffPasswordRead(d, m, password) ==
  /\ SignedIn(m) /\ password = staff[m].password
  /\ Open(d, [Waiting EXCEPT !.step = "password", !.actor = m])
  /\ UNCHANGED <<staff, logins, stoodDown, overtaken>>

FaultyLoginsAfterChange(m) ==
  [l \in Logins |-> IF logins[l].member = m /\ logins[l].state = "live"
                       /\ \E k \in Logins : k # l /\ logins[k].member = m /\ logins[k].state = "live"
                    THEN [logins[l] EXCEPT !.state = "revoked"] ELSE logins[l]]

\* updateMany where revokedAt is null: the caller's own session included.
LoginsAfterChange(m) == SignedOut(m)

\* One transaction.  A login that compared the old password is now late.
StaffChangePassword(d) ==
  /\ desk[d].step = "password"
  /\ LET m == desk[d].actor IN
     /\ staff' = [staff EXCEPT ![m].password = @ + 1, ![m].temporary = FALSE]
     /\ logins' = LoginsAfterChange(m)
     /\ desk' = [e \in Desks |->
          IF e = d THEN Waiting
          ELSE IF desk[e].step = "session" /\ desk[e].actor = m
          THEN [desk[e] EXCEPT !.late = TRUE] ELSE desk[e]]
  /\ UNCHANGED <<staffOps, stoodDown, overtaken>>

-----------------------------------------------------------------------------
(* Management, for super administrators.                                   *)

CreateRead(d, actor, m, role) ==
  /\ SignedIn(actor) /\ SuperAdmin(actor) /\ staff[m].status = "none"
  /\ Open(d, [Waiting EXCEPT !.step = "create", !.actor = actor, !.target = m, !.role = role])
  /\ UNCHANGED <<staff, logins, stoodDown, overtaken>>

\* The unique e-mail refuses the second of two creations.
CreateStaff(d) ==
  /\ desk[d].step = "create"
  /\ LET m == desk[d].target IN
     staff' = IF staff[m].status # "none" THEN staff
              ELSE [staff EXCEPT ![m] = [status |-> "ACTIVE", role |-> desk[d].role,
                                         password |-> 1, temporary |-> TRUE]]
  /\ Close(d)
  /\ UNCHANGED <<logins, staffOps, stoodDown, overtaken>>

\* update: a role or a status; "none" leaves the field as it is.
UpdateRead(d, actor, m, role, status) ==
  /\ SignedIn(actor) /\ SuperAdmin(actor) /\ staff[m].status # "none"
  /\ Open(d, [Waiting EXCEPT !.step = "update", !.actor = actor, !.target = m,
                             !.role = role, !.status = status])
  /\ UNCHANGED <<staff, logins, stoodDown, overtaken>>

\* History: who takes an administrator away, and is he still entitled to?
Removal(d, m, role, status) ==
  LET removes == SuperAdmin(m) /\ (role # "SUPER_ADMIN" \/ status # "ACTIVE") IN
  /\ stoodDown' = (stoodDown \/ (removes /\ desk[d].actor = m))
  /\ overtaken' = (overtaken \/ (removes /\ ~SuperAdmin(desk[d].actor)))

UpdateStaff(d) ==
  /\ desk[d].step = "update"
  /\ LET m == desk[d].target
         role == IF desk[d].role = "none" THEN staff[m].role ELSE desk[d].role
         status == IF desk[d].status = "none" THEN staff[m].status ELSE desk[d].status IN
     /\ staff' = [staff EXCEPT ![m].role = role, ![m].status = status]
     /\ Removal(d, m, role, status)
  /\ Close(d)
  /\ UNCHANGED <<logins, staffOps>>

FaultyDeactivatable(actor, m) == staff[m].status # "none"
Deactivatable(actor, m) == m # actor /\ staff[m].status # "none"

DeactivateRead(d, actor, m) ==
  /\ SignedIn(actor) /\ SuperAdmin(actor) /\ Deactivatable(actor, m)
  /\ Open(d, [Waiting EXCEPT !.step = "deactivate", !.actor = actor, !.target = m])
  /\ UNCHANGED <<staff, logins, stoodDown, overtaken>>

Deactivate(d) ==
  /\ desk[d].step = "deactivate"
  /\ LET m == desk[d].target IN
     /\ staff' = [staff EXCEPT ![m].status = "INACTIVE"]
     /\ overtaken' = (overtaken \/ (SuperAdmin(m) /\ ~SuperAdmin(desk[d].actor)))
  /\ desk' = [desk EXCEPT ![d].step = "revoke"]
  /\ UNCHANGED <<logins, staffOps, stoodDown>>

\* The second statement of deactivate.
RevokeLogins(d) ==
  /\ desk[d].step = "revoke"
  /\ logins' = SignedOut(desk[d].target)
  /\ Close(d)
  /\ UNCHANGED <<staff, staffOps, stoodDown, overtaken>>

StaffNext ==
  \/ \E d \in Desks :
       \/ \E m \in Members, password \in 1..2 :
            StaffLogin(d, m, password) \/ StaffPasswordRead(d, m, password)
       \/ IssueTokens(d) \/ StaffChangePassword(d)
       \/ \E actor, m \in Members :
            \/ \E role \in GivenRoles : CreateRead(d, actor, m, role)
            \/ \E role \in GivenRoles : UpdateRead(d, actor, m, role, "none")
            \/ \E status \in {"ACTIVE", "INACTIVE"} : UpdateRead(d, actor, m, "none", status)
            \/ DeactivateRead(d, actor, m)
       \/ CreateStaff(d) \/ UpdateStaff(d) \/ Deactivate(d) \/ RevokeLogins(d)
  \/ \E l \in Logins : StaffLogout(l)

StaffSpec == StaffInit /\ [][StaffNext]_staffVars

-----------------------------------------------------------------------------
(* Properties.                                                             *)

\* Somebody can always manage staff: the last active super administrator
\* disappears only when an administrator takes the role or status from
\* himself (update has no self check) or when two administrators remove each
\* other at the same time (the guard is older than the write).
AdminLossHasCause ==
  (\E m \in Members : SuperAdmin(m)) \/ stoodDown \/ overtaken

\* changePassword ends every staff session opened with an older password; a
\* session that survives belongs to a login that was under way.
StaffSessionsEndWithPassword ==
  \A l \in Logins : logins[l].state = "live" =>
     logins[l].password = staff[logins[l].member].password \/ logins[l].late

\* Controllers that list roles let in the same roles as the permission of
\* that work in STAFF_PERMISSIONS would, and every role a staff member holds
\* is one of that table, so the two ways of guarding a route agree.
RoleListsMatchPermissions ==
  /\ RewardsDesk = {r \in StaffRoles : StaffMay(r, "rewards.manage")}
  /\ SupportDesk = {r \in StaffRoles : StaffMay(r, "support.tickets.manage")}
  /\ CreditDesk = {r \in StaffRoles : StaffMay(r, "bnpl.loan.create")}
  /\ \A route \in DOMAIN StaffRoutes : StaffMay("SUPER_ADMIN", StaffRoutes[route])
  /\ \A m \in Members : staff[m].status # "none" => staff[m].role \in StaffRoles

\* Staff keep and lose access only as the service means it, through any
\* sequence of invitations, role changes, logins and password changes.
StaffAccessIsSound ==
  AdminLossHasCause /\ StaffSessionsEndWithPassword /\ RoleListsMatchPermissions
=============================================================================
