---------------------------- MODULE Permissions ----------------------------
(***************************************************************************)
(* Roles, permissions and approvals of users: the seeded tables            *)
(* (prisma/seed.ts), the permission a request carries (rbac.service.ts,    *)
(* permission.guard.ts), role assignment, overrides, and requests that a   *)
(* second person decides (approvals.service.ts).                           *)
(*                                                                         *)
(* JwtAuthGuard builds the user's context when the request arrives; the    *)
(* handler works with it until it writes.  No seeded permission is a       *)
(* wildcard and overrides name existing permissions, so the wildcards of   *)
(* hasPermission never apply to users.                                     *)
(***************************************************************************)
EXTENDS Naturals, FiniteSets

CONSTANTS Users,            \* users of the back office
          RolesOf,          \* the roles each of them starts with
          Tickets,          \* rows of ApprovalRequest that may come to exist
          Policies,         \* the action keys asked for
          Grantable,        \* roles handed out
          Overridable,      \* permissions overridden
          Handlers,         \* concurrent HTTP handlers
          MaxCalls          \* bound: requests and expiries

\* The seed is not a user.
ASSUME PermissionsAssumption ==
  /\ IsFiniteSet(Handlers) /\ IsFiniteSet(Tickets)
  /\ "seed" \notin Users
  /\ MaxCalls \in Nat

VARIABLES roles,       \* UserRole rows that have not expired
          overrides,   \* PermissionOverride rows in force
          tickets,     \* ApprovalRequest rows; all name one resource
          call,        \* what each handler has checked and does next
          calls,       \* requests and expiries so far (bound)
          grantedBy,   \* history: who assigned a role a user holds
          decisions    \* history: decisions written on each ticket

permissionsVars == <<roles, overrides, tickets, call, calls, grantedBy, decisions>>

-----------------------------------------------------------------------------
(* The seeded tables.                                                      *)

ShopperPermissions ==
  {"users.view", "stores.view", "products.view", "orders.view", "orders.place",
   "deliveries.view", "cart.manage", "checkout.create", "payments.initiate",
   "reviews.write", "orders.cancel", "orders.return.request", "rewards.view",
   "rewards.redeem", "referrals.view", "referrals.claim", "chats.use",
   "support.tickets.create", "support.tickets.view.own", "bnpl.repayments.pay",
   "orders.qr.view"}
AgentPermissions ==
  {"stores.view", "products.view", "orders.view", "orders.status.update",
   "chats.use", "inventory.scan"}
VendorPermissions ==
  AgentPermissions \cup
  {"stores.create", "stores.update", "products.create", "products.update",
   "products.price.update", "inventory.adjust"}
RiderPermissions ==
  {"users.view", "riders.view", "riders.update", "deliveries.view",
   "deliveries.status.update", "deliveries.scan", "support.tickets.create",
   "support.tickets.view.own"}
OperationsTable ==
  {"users.view", "stores.view", "stores.update", "products.view", "orders.view",
   "orders.cancel", "orders.status.update", "deliveries.view", "deliveries.assign",
   "deliveries.status.update", "reports.view"}
FinanceTable ==
  {"orders.view", "orders.refund.approve", "payments.view", "payments.reconcile",
   "payments.reverse", "wallets.view", "wallets.credit", "wallets.debit",
   "reports.view", "reports.export"}
SupportTable ==
  {"users.view", "users.update", "users.freeze", "orders.view", "orders.cancel",
   "orders.refund.initiate", "products.view", "stores.view",
   "support.tickets.manage", "chats.moderate"}
ComplianceTable ==
  {"users.view", "users.freeze", "riders.view", "kyc.read", "kyc.review",
   "risk.flag", "risk.blacklist.create", "audit.view", "reports.view"}
MerchantTable ==
  {"stores.view", "stores.create", "stores.update", "stores.activate",
   "stores.suspend", "merchants.approve", "merchants.suspend", "products.view",
   "products.create", "products.update", "inventory.adjust", "orders.view"}
CreditTable ==
  {"users.view", "bnpl.loan.create", "bnpl.limit.adjust",
   "bnpl.repayment.restructure", "reports.view"}
AuditTable ==
  {"users.view", "stores.view", "products.view", "orders.view", "payments.view",
   "deliveries.view", "riders.view", "kyc.read", "reports.view", "reports.export",
   "audit.view", "audit.export"}
RegionalTable ==
  {"users.view", "stores.view", "stores.update", "products.view", "orders.view",
   "orders.cancel", "deliveries.view", "deliveries.assign", "riders.view", "reports.view"}

\* Permissions only SUPER_ADMIN has, who has every one that is defined.
ReservedPermissions ==
  {"roles.create", "roles.assign", "roles.revoke", "roles.override",
   "products.archive", "wallets.freeze", "riders.approve", "riders.suspend",
   "notifications.send", "integrations.manage", "rewards.manage",
   "risk.blacklist.remove"}
PermissionDefinitions ==
  UNION {ShopperPermissions, VendorPermissions, RiderPermissions, OperationsTable,
         FinanceTable, SupportTable, ComplianceTable, MerchantTable, CreditTable,
         AuditTable, RegionalTable, ReservedPermissions}

FaultyRolePermissions ==
  [CUSTOMER |-> ShopperPermissions \ {"orders.qr.view"}, VENDOR |-> VendorPermissions,
   STORE_AGENT |-> AgentPermissions, RIDER |-> RiderPermissions,
   SUPER_ADMIN |-> PermissionDefinitions, OPERATIONS_ADMIN |-> OperationsTable,
   FINANCE_ADMIN |-> FinanceTable,
   RISK_COMPLIANCE_ADMIN |-> ComplianceTable \cup {"risk.blacklist.remove"},
   MERCHANT_ADMIN |-> MerchantTable, CUSTOMER_SUPPORT_ADMIN |-> SupportTable,
   CREDIT_BNPL_ADMIN |-> CreditTable, AUDIT_OBSERVER_ADMIN |-> AuditTable,
   REGIONAL_ADMIN |-> RegionalTable,
   COMPLIANCE_LEAD |-> ComplianceTable \cup {"audit.export"}]

RolePermissions ==
  [CUSTOMER |-> ShopperPermissions, VENDOR |-> VendorPermissions,
   STORE_AGENT |-> AgentPermissions, RIDER |-> RiderPermissions,
   SUPER_ADMIN |-> PermissionDefinitions, OPERATIONS_ADMIN |-> OperationsTable,
   FINANCE_ADMIN |-> FinanceTable,
   RISK_COMPLIANCE_ADMIN |-> ComplianceTable \cup {"risk.blacklist.remove"},
   MERCHANT_ADMIN |-> MerchantTable, CUSTOMER_SUPPORT_ADMIN |-> SupportTable,
   CREDIT_BNPL_ADMIN |-> CreditTable, AUDIT_OBSERVER_ADMIN |-> AuditTable,
   REGIONAL_ADMIN |-> RegionalTable,
   COMPLIANCE_LEAD |-> ComplianceTable \cup {"audit.export"}]

RoleLevel ==
  [CUSTOMER |-> 1, VENDOR |-> 2, STORE_AGENT |-> 2, RIDER |-> 2, SUPER_ADMIN |-> 100,
   OPERATIONS_ADMIN |-> 80, FINANCE_ADMIN |-> 80, RISK_COMPLIANCE_ADMIN |-> 80,
   MERCHANT_ADMIN |-> 70, CUSTOMER_SUPPORT_ADMIN |-> 60, CREDIT_BNPL_ADMIN |-> 70,
   AUDIT_OBSERVER_ADMIN |-> 50, REGIONAL_ADMIN |-> 60, COMPLIANCE_LEAD |-> 75]

\* actionKey |-> the permission that starts it; the key itself decides it.
Initiator ==
  [orders_refund_approve |-> "orders.refund.initiate", payments_reverse |-> "payments.view",
   roles_assign |-> "roles.assign", risk_blacklist_remove |-> "risk.flag"]
Approver ==
  [orders_refund_approve |-> "orders.refund.approve", payments_reverse |-> "payments.reverse",
   roles_assign |-> "roles.assign", risk_blacklist_remove |-> "risk.blacklist.remove"]

-----------------------------------------------------------------------------
(* What the guarded routes of each controller ask for: one set of          *)
(* permissions per combination of decorators.  A decorator of a method     *)
(* replaces the one of its class (getAllAndOverride).                      *)

CartRoutes == {{"cart.manage"}}
CheckoutRoutes == {{"checkout.create"}}
OrderRoutes == {{"checkout.create", "payments.initiate"}, {"orders.cancel"},
                {"orders.return.request"}, {"cart.manage"}}
PaymentRoutes == {{"payments.initiate"}}
WalletRoutes == {{"payments.initiate"}}
KlumpRoutes == {{"checkout.create"}}
RewardRoutes == {{"rewards.view"}, {"rewards.redeem"}, {"cart.manage"}}
ReferralRoutes == {{"referrals.view"}, {"referrals.claim"}}
SupportRoutes == {{"support.tickets.create"}, {"support.tickets.view.own"}}
ReviewRoutes == {{"reviews.write"}}
ChatRoutes == {{"chats.use"}}
OrderQrRoutes == {{"orders.qr.view"}}
StoreShelfRoutes == {{"orders.view"}, {"stores.view"}, {"stores.update"}, {"chats.use"}}
StoreRoutes == {{"stores.view"}, {"stores.create"}, {"stores.update"}, {"products.price.update"}}
StorePushRoutes == {{"stores.update"}}
StoreOrderRoutes == {{"orders.status.update"}}
StoreScanRoutes == {{"inventory.scan"}}
DeliveryRoutes == {{"deliveries.view"}, {"deliveries.status.update"}}
RiderScanRoutes == {{"deliveries.scan"}}
RiderSupportRoutes == {{"support.tickets.create"}}

Journey ==
  [CUSTOMER |-> UNION {CartRoutes, CheckoutRoutes, OrderRoutes, PaymentRoutes, WalletRoutes,
                       KlumpRoutes, RewardRoutes, ReferralRoutes, SupportRoutes, ReviewRoutes,
                       ChatRoutes, OrderQrRoutes},
   VENDOR |-> UNION {StoreShelfRoutes, StoreRoutes, StorePushRoutes, StoreOrderRoutes,
                     StoreScanRoutes, ChatRoutes},
   RIDER |-> UNION {DeliveryRoutes, RiderScanRoutes, RiderSupportRoutes}]

-----------------------------------------------------------------------------

NoCall == [step |-> "idle", actor |-> CHOOSE u \in Users : TRUE, user |-> CHOOSE u \in Users : TRUE,
           role |-> "none", ticket |-> 0, granted |-> FALSE]
NoTicket == [status |-> "none", policy |-> "none", by |-> "none", decider |-> "none"]

PermissionsInit ==
  /\ roles = [u \in Users |-> RolesOf[u]]
  /\ overrides = [u \in Users |-> {}]
  /\ tickets = [t \in Tickets |-> NoTicket]
  /\ call = [h \in Handlers |-> NoCall]
  /\ calls = 0
  /\ grantedBy = [u \in Users |-> [r \in Grantable |-> "seed"]]
  /\ decisions = [t \in Tickets |-> 0]

\* buildUserContext: roles and grants, less what is denied.
PermissionsOf(u) ==
  (UNION {RolePermissions[r] : r \in roles[u]}
     \cup {o.permission : o \in {x \in overrides[u] : x.granted}})
  \ {o.permission : o \in {x \in overrides[u] : ~x.granted}}

hasPermission(u, permission) == permission \in PermissionsOf(u)

Arrive(h, rec) ==
  /\ call[h] = NoCall /\ calls < MaxCalls
  /\ calls' = calls + 1
  /\ call' = [call EXCEPT ![h] = rec]
Finish(h) == call' = [call EXCEPT ![h] = NoCall]

-----------------------------------------------------------------------------
(* Role assignment and overrides.                                          *)

FaultyMayAssign(actor, u, r) == ~(u = actor /\ RoleLevel[r] > 80)
MayAssign(actor, u, r) == ~(u = actor /\ RoleLevel[r] >= 80)

AssignRead(h, actor, u, r) ==
  /\ hasPermission(actor, "roles.assign") /\ MayAssign(actor, u, r)
  /\ Arrive(h, [NoCall EXCEPT !.step = "assign", !.actor = actor, !.user = u, !.role = r])
  /\ UNCHANGED <<roles, overrides, tickets, grantedBy, decisions>>

\* An upsert: a role already held keeps its row.
AssignRole(h) ==
  /\ call[h].step = "assign"
  /\ LET u == call[h].user
         r == call[h].role IN
     /\ roles' = [roles EXCEPT ![u] = @ \cup {r}]
     /\ grantedBy' = IF r \in roles[u] THEN grantedBy
                     ELSE [grantedBy EXCEPT ![u][r] = call[h].actor]
  /\ Finish(h)
  /\ UNCHANGED <<overrides, tickets, calls, decisions>>

\* revokeRole, by somebody with the permission; expiry has the same effect.
RevokeRole(u, r) ==
  /\ r \in roles[u] /\ calls < MaxCalls
  /\ calls' = calls + 1
  /\ roles' = [roles EXCEPT ![u] = @ \ {r}]
  /\ UNCHANGED <<overrides, tickets, call, grantedBy, decisions>>

CreateOverride(h, actor, u, permission, granted) ==
  /\ hasPermission(actor, "roles.override")
  /\ call[h] = NoCall /\ calls < MaxCalls
  /\ calls' = calls + 1
  /\ overrides' = [overrides EXCEPT ![u] =
       @ \cup {[permission |-> permission, granted |-> granted]}]
  /\ UNCHANGED <<roles, tickets, call, grantedBy, decisions>>

OverrideExpires(u, o) ==
  /\ calls < MaxCalls
  /\ calls' = calls + 1
  /\ overrides' = [overrides EXCEPT ![u] = @ \ {o}]
  /\ UNCHANGED <<roles, tickets, call, grantedBy, decisions>>

-----------------------------------------------------------------------------
(* Approval requests.                                                      *)

Pending == {t \in Tickets : tickets[t].status = "PENDING"}

FaultyNoDuplicate(policy) == TRUE
NoDuplicate(policy) == \A t \in Pending : tickets[t].policy # policy

\* create: the route's permission, the policy's, and no pending duplicate.
CreateTicketRead(h, actor, policy) ==
  /\ hasPermission(actor, "orders.refund.initiate") /\ hasPermission(actor, Initiator[policy])
  /\ NoDuplicate(policy)
  /\ Arrive(h, [NoCall EXCEPT !.step = "create", !.actor = actor, !.role = policy])
  /\ UNCHANGED <<roles, overrides, tickets, grantedBy, decisions>>

CreateTicket(h) ==
  /\ call[h].step = "create"
  /\ \E t \in Tickets :
       /\ tickets[t].status = "none" /\ \A s \in Tickets : s < t => tickets[s].status # "none"
       /\ tickets' = [tickets EXCEPT ![t] = [status |-> "PENDING", policy |-> call[h].role,
                                             by |-> call[h].actor, decider |-> "none"]]
  /\ Finish(h)
  /\ UNCHANGED <<roles, overrides, calls, grantedBy, decisions>>

FaultyUndecided(t) == tickets[t].status \in {"PENDING", "REJECTED"}
Undecided(t) == tickets[t].status = "PENDING"

DecideRead(h, actor, t, approve) ==
  /\ Undecided(t) /\ tickets[t].by # actor
  /\ hasPermission(actor, "orders.refund.approve")
  /\ hasPermission(actor, Approver[tickets[t].policy])
  /\ Arrive(h, [NoCall EXCEPT !.step = "decide", !.actor = actor, !.ticket = t,
                              !.granted = approve])
  /\ UNCHANGED <<roles, overrides, tickets, grantedBy, decisions>>

\* An unconditional update of the row.
Decide(h) ==
  /\ call[h].step = "decide"
  /\ LET t == call[h].ticket IN
     /\ tickets' = [tickets EXCEPT ![t].decider = call[h].actor,
                                   ![t].status = IF call[h].granted THEN "APPROVED" ELSE "REJECTED"]
     /\ decisions' = [decisions EXCEPT ![t] = @ + 1]
  /\ Finish(h)
  /\ UNCHANGED <<roles, overrides, calls, grantedBy>>

PermissionsNext ==
  \/ \E h \in Handlers :
       \/ \E actor, u \in Users :
            \/ \E r \in Grantable : AssignRead(h, actor, u, r)
            \/ \E p \in Overridable, g \in BOOLEAN : CreateOverride(h, actor, u, p, g)
       \/ \E actor \in Users :
            \/ \E policy \in Policies : CreateTicketRead(h, actor, policy)
            \/ \E t \in Tickets, g \in BOOLEAN : DecideRead(h, actor, t, g)
       \/ AssignRole(h) \/ CreateTicket(h) \/ Decide(h)
  \/ \E u \in Users : \E r \in roles[u] : RevokeRole(u, r)
  \/ \E u \in Users : \E o \in overrides[u] : OverrideExpires(u, o)

PermissionsSpec == PermissionsInit /\ [][PermissionsNext]_permissionsVars

-----------------------------------------------------------------------------
(* Properties.                                                             *)

\* A user with the role of a journey gets through every route of it, as long
\* as no override denies one: the tables of the seed and the decorators of
\* the controllers agree, whatever other roles come and go.
JourneysAreOpen ==
  \A u \in Users :
     LET open == PermissionsOf(u) \cup {o.permission : o \in overrides[u]} IN
     \A r \in roles[u] \cap DOMAIN Journey : UNION Journey[r] \subseteq open

\* A privileged role (level 80 and above) comes from somebody else, through
\* whatever sequence of grants, revocations and overrides it was reached.
PrivilegeComesFromAnother ==
  \A u \in Users : \A r \in roles[u] \cap Grantable :
     RoleLevel[r] >= 80 => grantedBy[u][r] # u

\* create looks for a pending duplicate before it inserts, so concurrent
\* requests can file several; never more than there are handlers, because a
\* pending one stops all that start later.
DuplicatesAreBounded ==
  \A p \in Policies :
     Cardinality({t \in Pending : tickets[t].policy = p}) <= Cardinality(Handlers)

\* decide overwrites the row without a condition, so decisions that were
\* under way together replace each other; none is taken on a decided one.
DecisionsAreBounded ==
  \A t \in Tickets : decisions[t] <= Cardinality(Handlers)

\* Roles, overrides and approval requests together: what a role is for stays
\* possible, nobody raises himself, and overlapping requests and decisions
\* multiply by no more than their number.
AuthorityIsSound ==
  /\ JourneysAreOpen
  /\ PrivilegeComesFromAnother
  /\ DuplicatesAreBounded
  /\ DecisionsAreBounded
=============================================================================
