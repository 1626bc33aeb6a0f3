------------------------------ MODULE Seeding ------------------------------
(***************************************************************************)
(* The seed script (prisma/seed.ts).  It fills the tables section by       *)
(* section, without a transaction: a run that stops keeps what it wrote    *)
(* and is started again by hand, on a database that people may have        *)
(* edited in between, and nothing keeps two runs apart.                    *)
(*                                                                         *)
(* One seed row stands for the rows of a section, and a section keeps its  *)
(* copies.  Sections with a unique key are upserted in one statement.  The *)
(* others are looked up by a name and then created, which are two, and     *)
(* the name of a product, a store or a station can be edited: the look-up  *)
(* does not find a renamed row.  An offer is found by the product and the  *)
(* store that this run has found or made.                                  *)
(***************************************************************************)
EXTENDS Naturals, Sequences, FiniteSets

CONSTANTS SeedRuns,      \* processes that run the script
          MaxSeeds,      \* bound: runs started
          MaxSettings    \* bound: edits through the back office

ASSUME SeedingAssumption == IsFiniteSet(SeedRuns) /\ {MaxSeeds, MaxSettings} \subseteq Nat

VARIABLES rows,          \* section |-> the copies of its row, in the order of their ids
          script,        \* the section each run works on, and what it found
          seeds,         \* runs started (bound)
          settings,      \* edits (bound)
          renamed,       \* history: section |-> edits that took the seed's name away
          parallel       \* history: runs started while another one was active

seedingVars == <<rows, script, seeds, settings, renamed, parallel>>

Upserted ==
  {"permissions", "roles", "policies", "superAdmin", "customer", "vendors", "offers",
   "checkoutSettings", "rates", "rewards"}
FoundOrCreated == {"categories", "products", "stores", "faqs", "stations"}
Sections == Upserted \cup FoundOrCreated

\* What the application can edit, and where it can edit the name.
EditableSections ==
  {"superAdmin", "customer", "products", "vendors", "stores", "offers",
   "checkoutSettings", "rewards", "stations"}
RenamableSections == {"products", "stores", "stations"}

Stopped == [at |-> "stopped", looked |-> FALSE, found |-> 0, product |-> 0, store |-> 0]
Running(r) == script[r].at # "stopped"

SeedingInit ==
  /\ rows = [s \in Sections |-> <<>>]
  /\ script = [r \in SeedRuns |-> Stopped]
  /\ seeds = 0 /\ settings = 0
  /\ renamed = [s \in Sections |-> 0]
  /\ parallel = 0

StartSeed(r) ==
  /\ ~Running(r) /\ seeds < MaxSeeds
  /\ seeds' = seeds + 1
  /\ script' = [script EXCEPT ![r] = [Stopped EXCEPT !.at = "permissions"]]
  /\ parallel' = IF \E q \in SeedRuns : Running(q) THEN parallel + 1 ELSE parallel
  /\ UNCHANGED <<rows, settings, renamed>>

\* The script throws or the process ends: what is written stays.
SeedStops(r) ==
  /\ Running(r)
  /\ script' = [script EXCEPT ![r] = Stopped]
  /\ UNCHANGED <<rows, seeds, settings, renamed, parallel>>

Of(r, s) == IF s = "offers" THEN <<script[r].product, script[r].store>> ELSE <<0, 0>>

\* A look-up by something that is not stable from one run to the next.
FaultyFoundRows(r, s) ==
  {i \in DOMAIN rows[s] : s # "stations" /\ rows[s][i].named /\ rows[s][i].of = Of(r, s)}
\* The copies that the unique key, or the name, of the seed row finds.
FoundRows(r, s) == {i \in DOMAIN rows[s] : rows[s][i].named /\ rows[s][i].of = Of(r, s)}

Insert(r, s) ==
  rows' = [rows EXCEPT ![s] = Append(@, [named |-> TRUE, by |-> "seed", of |-> Of(r, s)])]

\* What an update leaves in a row: "update: {}" keeps it, any other writes
\* the seed's values, a name included.
FaultyUpdated(row, overwrites) == [row EXCEPT !.by = "seed"]
Updated(row, overwrites) ==
  IF overwrites THEN [row EXCEPT !.by = "seed", !.named = TRUE] ELSE row
Update(s, i, overwrites) == rows' = [rows EXCEPT ![s][i] = Updated(@, overwrites)]

\* On to the next section with copy i of this one; the maps of products and
\* stores are last read by the offers.
GoOn(r, s, i, next) ==
  script' = [script EXCEPT ![r] =
    [Stopped EXCEPT !.at = next,
       !.product = IF s = "products" THEN i ELSE IF s = "offers" THEN 0 ELSE script[r].product,
       !.store = IF s = "stores" THEN i ELSE IF s = "offers" THEN 0 ELSE script[r].store]]

Upsert(r, s, overwrites, next) ==
  /\ script[r].at = s
  /\ \/ FoundRows(r, s) = {} /\ Insert(r, s) /\ GoOn(r, s, Len(rows[s]) + 1, next)
     \/ \E i \in FoundRows(r, s) : Update(s, i, overwrites) /\ GoOn(r, s, i, next)
  /\ UNCHANGED <<seeds, settings, renamed, parallel>>

LookUp(r, s) ==
  /\ script[r].at = s /\ ~script[r].looked
  /\ \E i \in IF FoundRows(r, s) = {} THEN {0} ELSE FoundRows(r, s) :
       script' = [script EXCEPT ![r].looked = TRUE, ![r].found = i]
  /\ UNCHANGED <<rows, seeds, settings, renamed, parallel>>

\* By the id that was found, whatever the row is called by now.
CreateOrUpdate(r, s, overwrites, next) ==
  /\ script[r].at = s /\ script[r].looked
  /\ LET i == script[r].found IN
     IF i = 0 THEN Insert(r, s) /\ GoOn(r, s, Len(rows[s]) + 1, next)
              ELSE Update(s, i, overwrites) /\ GoOn(r, s, i, next)
  /\ UNCHANGED <<seeds, settings, renamed, parallel>>

FindOrCreate(r, s, overwrites, next) == LookUp(r, s) \/ CreateOrUpdate(r, s, overwrites, next)

-----------------------------------------------------------------------------
(* The sections in their order.                                            *)

\* findUniqueOrThrow
Exists(s) == rows[s] # <<>>

SeedPermissions(r) == Upsert(r, "permissions", TRUE, "roles")
SeedRoles(r) == Exists("permissions") /\ Upsert(r, "roles", TRUE, "policies")
SeedPolicies(r) ==
  \E next \in {"superAdmin", "customer"} : Upsert(r, "policies", TRUE, next)   \* env set or not
SeedSuperAdmin(r) == Upsert(r, "superAdmin", FALSE, "customer")
SeedCustomer(r) == Exists("roles") /\ Upsert(r, "customer", FALSE, "categories")
SeedCategories(r) == FindOrCreate(r, "categories", FALSE, "products")
SeedProducts(r) == FindOrCreate(r, "products", TRUE, "vendors")
SeedVendors(r) == Exists("roles") /\ Upsert(r, "vendors", FALSE, "stores")
SeedStores(r) == FindOrCreate(r, "stores", FALSE, "offers")
SeedOffers(r) == Upsert(r, "offers", TRUE, "checkoutSettings")
SeedCheckoutSettings(r) == Upsert(r, "checkoutSettings", FALSE, "rates")
SeedRates(r) == Upsert(r, "rates", FALSE, "rewards")
SeedRewards(r) == Upsert(r, "rewards", FALSE, "faqs")
SeedFaqs(r) == FindOrCreate(r, "faqs", FALSE, "stations")
SeedStations(r) == FindOrCreate(r, "stations", TRUE, "stopped")

\* Somebody edits copy i; the name may go to something else, and back.
Configure(s, i, named) ==
  /\ settings < MaxSettings
  /\ s \in RenamableSections \/ named = rows[s][i].named
  /\ settings' = settings + 1
  /\ rows' = [rows EXCEPT ![s][i].by = "admin", ![s][i].named = named]
  /\ renamed' = IF rows[s][i].named /\ ~named THEN [renamed EXCEPT ![s] = @ + 1] ELSE renamed
  /\ UNCHANGED <<script, seeds, parallel>>

SeedSection(r) ==
  \/ SeedPermissions(r) \/ SeedRoles(r) \/ SeedPolicies(r) \/ SeedSuperAdmin(r)
  \/ SeedCustomer(r) \/ SeedCategories(r) \/ SeedProducts(r) \/ SeedVendors(r)
  \/ SeedStores(r) \/ SeedOffers(r) \/ SeedCheckoutSettings(r) \/ SeedRates(r)
  \/ SeedRewards(r) \/ SeedFaqs(r) \/ SeedStations(r)

SeedingNext ==
  \/ \E r \in SeedRuns : StartSeed(r) \/ SeedStops(r) \/ SeedSection(r)
  \/ \E s \in EditableSections : \E i \in DOMAIN rows[s], named \in BOOLEAN : Configure(s, i, named)

SeedingSpec == SeedingInit /\ [][SeedingNext]_seedingVars

-----------------------------------------------------------------------------
(* Properties.                                                             *)

\* Running the script again, after any crash, duplicates no row ("so re-runs
\* don't duplicate stations"), as far as the code keeps that: a further copy
\* of what is found by name needs a rename or a run started beside another,
\* one for each copy.  A unique key admits no copy at all, and an offer is
\* repeated only with its product or its store.
CopiesHaveCause ==
  /\ \A s \in FoundOrCreated : Len(rows[s]) <= 1 + renamed[s] + parallel
  /\ \A s \in Upserted : \A i, j \in DOMAIN rows[s] : rows[s][i].of = rows[s][j].of => i = j

\* "never overwrite an admin-configured value": where an update writes
\* nothing, what was edited (the settings, accounts, stores and rewards) stays
\* through every later run, complete or not.
ConfiguredValuesStand ==
  \A s \in Sections \ {"permissions", "roles", "policies", "products", "offers", "stations"} :
    \A i \in DOMAIN rows[s] : rows'[s][i] = rows[s][i] \/ settings' > settings

\* The script can be run again at any time, after a crash too.
RerunsAreHarmless == [][ConfiguredValuesStand /\ CopiesHaveCause']_seedingVars
=============================================================================
