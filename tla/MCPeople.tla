--------------------------------- MODULE MCPeople ---------------------------------
(***************************************************************************)
(* Customers, riders and staff, their conversations, and the seed script   *)
(* that staff run: components that share no state.  `scene' says which of  *)
(* them this behaviour is about; the others stay put.                      *)
(***************************************************************************)
EXTENDS Accounts, Staff, Permissions, RiderOnboarding, Tracking, Conversations, Seeding, TLC

CONSTANTS r1, r2, s1, s2, l1, l2, d1, d2, h1, h2, a1, a2, u1, u2

VARIABLE scene

RolesAtStart ==
  [root |-> {"SUPER_ADMIN"}, agent |-> {"CUSTOMER_SUPPORT_ADMIN"},
   ann |-> {"CUSTOMER", "VENDOR", "RIDER"}]

\* Applications with a licence the provider checks, with a motorcycle and
\* papers that staff reviews (the only one that can get complete), with an
\* identity document, and with a guarantor.
RiderApplications ==
  {[kinds |-> {"check"}, motor |-> FALSE],
   [kinds |-> {"licence", "liveness", "registration"}, motor |-> TRUE],
   [kinds |-> {"document"}, motor |-> FALSE],
   [kinds |-> {"guarantor", "reference"}, motor |-> FALSE]}

PeopleInit ==
  /\ scene \in {"accounts", "staff", "permissions", "onboarding", "tracking", "conversations", "seeding"}
  /\ AccountsInit /\ StaffInit /\ PermissionsInit /\ OnboardingInit /\ TrackingInit
  /\ ConversationsInit /\ SeedingInit
  /\ scene # "onboarding" => application.motor
  /\ scene # "accounts" => ~account.exists

PeopleNext ==
  \/ scene = "accounts" /\ AccountsNext
     /\ UNCHANGED <<scene, staffVars, permissionsVars, onboardingVars, trackingVars, conversationVars, seedingVars>>
  \/ scene = "staff" /\ StaffNext
     /\ UNCHANGED <<scene, accountsVars, permissionsVars, onboardingVars, trackingVars, conversationVars, seedingVars>>
  \/ scene = "permissions" /\ PermissionsNext
     /\ UNCHANGED <<scene, accountsVars, staffVars, onboardingVars, trackingVars, conversationVars, seedingVars>>
  \/ scene = "onboarding" /\ OnboardingNext
     /\ UNCHANGED <<scene, accountsVars, staffVars, permissionsVars, trackingVars, conversationVars, seedingVars>>
  \/ scene = "tracking" /\ TrackingNext
     /\ UNCHANGED <<scene, accountsVars, staffVars, permissionsVars, onboardingVars, conversationVars, seedingVars>>
  \/ scene = "conversations" /\ ConversationsNext
     /\ UNCHANGED <<scene, accountsVars, staffVars, permissionsVars, onboardingVars, trackingVars, seedingVars>>
  \/ scene = "seeding" /\ SeedingNext
     /\ UNCHANGED <<scene, accountsVars, staffVars, permissionsVars, onboardingVars, trackingVars, conversationVars>>

PeopleSpec == PeopleInit /\ [][PeopleNext]_<<scene, accountsVars, staffVars, permissionsVars, onboardingVars, trackingVars, conversationVars, seedingVars>>
=============================================================================
