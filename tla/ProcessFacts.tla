---------------------------- MODULE ProcessFacts ----------------------------
(***************************************************************************)
(* What the Windows sampler concludes about a process it can hardly look   *)
(* into: its category and the application it belongs to (tm-core           *)
(* classify.rs, refine_categories_and_group_apps), and its owner and       *)
(* elevation (the fallback ladder of sample_inner, the service catalogue,  *)
(* fallback_user_for_known_role, inherit_same_image_service_accounts,      *)
(* infer_elevation_from_account).                                          *)
(*                                                                         *)
(* A behaviour follows one of two questions (variable topic). For the      *)
(* category the machine is any forest of processes, with parent PIDs that  *)
(* may be reused and cyclic. For the owner it is a service host and a      *)
(* process whose parent PID is the host's, and the service is reconfigured *)
(* and restarted while the catalogue's cache ages.                         *)
(***************************************************************************)
EXTENDS Integers, FiniteSets

CONSTANTS
    FPids,     \* PIDs, numbers above 4; 0 is no parent
    Sorts,     \* records [name, owned, critical, window], see below
    FBirths,   \* start times; 0 is unknown
    ConfigTtl, \* SERVICE_CONFIG_TTL in ticks
    Unsaid     \* Option::None

ASSUME FactsAssumption ==
    /\ FPids \subseteq {n \in Nat : n > 4} /\ IsFiniteSet(FPids)
    /\ \A s \in Sorts : /\ s.name \in {"kernel", "core", "plain"}
                        /\ s.owned \in {TRUE, FALSE, Unsaid}
                        /\ s.critical \in BOOLEAN /\ s.window \in BOOLEAN
    /\ ConfigTtl \in Nat
    /\ Unsaid \notin {"SYSTEM", "SERVICE", "user", "yes", "no"}

VARIABLES
    topic,    \* "category" or "owner"
    beings,   \* category: FPids -> [sort, parent, birth]
    verdict,  \* category: the result of a sample, or Unsaid
    world,    \* owner: the host and the other process as they are
    configs,  \* owner: the cached account of the service and its age
    stated,   \* owner: the published user and elevation of the two
    outdated  \* owner, ghost: ticks the published account was not the configured one

factsVars == <<topic, beings, verdict, world, configs, stated, outdated>>

-----------------------------------------------------------------------------
(***************************************************************************)
(* Category and application.                                               *)
(***************************************************************************)

\* classify: unknown ownership trusts a core name, a foreign image does not pass.
Classify(s) ==
    IF s.name = "kernel" \/ s.critical \/ (s.name = "core" /\ s.owned # FALSE) THEN "system"
    ELSE IF s.window THEN "app" ELSE "background"

CoreImage(s) == s.name \in {"kernel", "core"}

\* is_plausible_parent: a parent is not younger than its child.
Begot(bs, q, p) ==
    /\ q \in FPids /\ q # p /\ bs[p].parent = q
    /\ bs[q].birth = 0 \/ bs[p].birth = 0 \/ bs[q].birth <= bs[p].birth

\* The walk from a window up to the topmost windowless ancestor that is not an
\* OS image; a cycle of reused PIDs ends it.
RootOf(bs, p) ==
    LET step[n \in 0..Cardinality(FPids)] ==
          IF n = 0 THEN [at |-> p, seen |-> {p}]
          ELSE LET w  == step[n - 1]
                   up == {q \in FPids \ w.seen : /\ Begot(bs, q, w.at) /\ ~bs[q].sort.window
                                                 /\ ~CoreImage(bs[q].sort)}
               IN  IF up = {} THEN w
                   ELSE LET q == CHOOSE q \in up : TRUE IN [at |-> q, seen |-> w.seen \cup {q}]
    IN  step[Cardinality(FPids)].at

AppTops(bs) ==
    {RootOf(bs, p) : p \in {q \in FPids : bs[q].sort.window /\ ~CoreImage(bs[q].sort)}}

\* Mutant: a system image passes the application on to what it started.
MembersThrough(bs, kinds, roots) ==
    LET reach[n \in 0..Cardinality(FPids)] ==
          IF n = 0 THEN roots
          ELSE reach[n - 1] \cup {k \in FPids : \E p \in reach[n - 1] : Begot(bs, p, k)}
    IN  {p \in reach[Cardinality(FPids)] : kinds[p] # "system"}

\* App goes down from the roots, not into a system image nor another root.
Members(bs, kinds, roots) ==
    LET reach[n \in 0..Cardinality(FPids)] ==
          IF n = 0 THEN roots
          ELSE reach[n - 1] \cup
               {k \in FPids \ roots : /\ kinds[k] # "system"
                                      /\ \E p \in reach[n - 1] : kinds[p] # "system" /\ Begot(bs, p, k)}
    IN  {p \in reach[Cardinality(FPids)] : kinds[p] # "system"}

\* refine_categories_and_group_apps
Refined(bs) ==
    LET kinds == [p \in FPids |-> Classify(bs[p].sort)]
        roots == AppTops(bs)
        apps  == Members(bs, kinds, roots)
    IN  [cats  |-> [p \in FPids |-> IF p \in apps THEN "app" ELSE kinds[p]], roots |-> roots]

Categorise ==
    /\ topic = "category" /\ verdict = Unsaid
    /\ verdict' = Refined(beings)
    /\ UNCHANGED <<topic, beings, world, configs, stated, outdated>>

-----------------------------------------------------------------------------
(***************************************************************************)
(* Owner and elevation. Accounts are "SYSTEM", "SERVICE" (the other        *)
(* service accounts) and "user".                                           *)
(***************************************************************************)
Accounts == {"SYSTEM", "SERVICE", "user"}

\* What infer_elevation_from_account takes for a full token.
Privileged(account) == account \in {"SYSTEM", "SERVICE"}

\* service_catalog: configurations are read again when the cache is old.
CatalogRead(cache, configured) ==
    IF cache.account = Unsaid \/ cache.age > ConfigTtl
    THEN [account |-> configured, age |-> 0] ELSE cache

\* fallback_user_for_known_role with RoleEvidence: only an image proved to be
\* Windows' own, by its location and its publisher.
RoleAccount(b) == IF b.core /\ b.verified THEN "SYSTEM" ELSE Unsaid

\* The ladder: the token, the service catalogue, the known role.
Owner(b, listed) ==
    IF b.readable THEN b.account
    ELSE IF listed # Unsaid THEN listed
    ELSE RoleAccount(b)

\* Elevation by token, by verified role, by account.
Elevation(b, user) ==
    IF b.readable THEN IF Privileged(b.account) THEN "yes" ELSE "no"
    ELSE IF (b.core /\ b.verified) \/ Privileged(user) THEN "yes" ELSE Unsaid

\* inherit_same_image_service_accounts: a windowless child of the same image.
Inherited(w, host, own) ==
    IF own = Unsaid /\ host # Unsaid /\ w.other.sameImage /\ ~w.other.window /\ w.other.child
    THEN host ELSE own

\* infer_elevation_from_account runs again after the inheritance.
ElevatedLast(b, own, final) ==
    IF Elevation(b, own) # Unsaid THEN Elevation(b, own) ELSE Elevation(b, final)

\* One tick; the enumeration of the services may fail, and leaves the
\* catalogue empty.
OwnerTick ==
    /\ topic = "owner"
    /\ \E answers \in BOOLEAN :
        LET aged   == [configs EXCEPT !.age = IF @ > ConfigTtl THEN @ ELSE @ + 1]
            cache  == IF answers THEN CatalogRead(aged, world.configured) ELSE
                      IF aged.age > ConfigTtl THEN [account |-> Unsaid, age |-> 0] ELSE aged
            listed == IF answers THEN cache.account ELSE Unsaid
            host   == Owner(world.host, listed)
            own    == Owner(world.other, Unsaid)
            final  == Inherited(world, IF answers THEN host ELSE Unsaid, own)
        IN  /\ configs' = cache
            /\ stated' = [host  |-> [user |-> host, elevated |-> ElevatedLast(world.host, host, host)],
                          other |-> [user |-> final, elevated |-> ElevatedLast(world.other, own, final)]]
            /\ outdated' = IF world.host.readable \/ host \in {Unsaid, world.configured} THEN 0
                           ELSE IF outdated > ConfigTtl + 1 THEN outdated ELSE outdated + 1
    /\ UNCHANGED <<topic, beings, verdict, world>>

\* The administrator gives the service another account; the host that runs
\* keeps its token until the service is restarted.
Reconfigured ==
    /\ topic = "owner"
    /\ \E account \in Accounts : world' = [world EXCEPT !.configured = account]
    /\ UNCHANGED <<topic, beings, verdict, configs, stated, outdated>>

\* A restart takes a child of the same image with it.
Restarted ==
    /\ topic = "owner" /\ ~world.host.readable
    /\ world.host.account # world.configured
    /\ world' = [world EXCEPT !.host.account = world.configured,
                              !.other.account = IF world.other.child /\ world.other.sameImage
                                                THEN world.configured ELSE @]
    /\ UNCHANGED <<topic, beings, verdict, configs, stated, outdated>>

-----------------------------------------------------------------------------
\* A token that can be read, or a core image; a process that is not Windows'
\* own may bear a core name, and then runs as anyone.
Facts ==
    [account : Accounts, readable : BOOLEAN, core : BOOLEAN, verified : BOOLEAN]

Worlds ==
    {[configured |-> h.account, host |-> h,
      other |-> [account |-> o.account, readable |-> o.readable, core |-> o.core,
                 verified |-> o.verified, sameImage |-> s, window |-> w, child |-> c]] :
        h \in {f \in Facts : ~f.core}, o \in Facts,
        s \in BOOLEAN, w \in BOOLEAN, c \in BOOLEAN}

\* A verified core image runs as SYSTEM; a windowless child of the host with the
\* host's image runs under the service's account.
Sound(w) ==
    /\ ~w.host.verified
    /\ w.other.core /\ w.other.verified => w.other.account = "SYSTEM" /\ ~w.other.sameImage
    /\ w.other.sameImage => w.other.child /\ ~w.other.core /\ w.other.account = w.host.account

FactsInit ==
    /\ topic \in {"category", "owner"}
    /\ verdict = Unsaid
    /\ configs = [account |-> Unsaid, age |-> 0]
    /\ stated = [host |-> [user |-> Unsaid, elevated |-> Unsaid],
                 other |-> [user |-> Unsaid, elevated |-> Unsaid]]
    /\ outdated = 0
    /\ IF topic = "category"
       THEN /\ beings \in [FPids -> [sort : Sorts, parent : {0} \cup FPids, birth : FBirths]]
            /\ world = Unsaid
       ELSE /\ beings = Unsaid
            /\ world \in {w \in Worlds : Sound(w)}

FactsNext == Categorise \/ OwnerTick \/ Reconfigured \/ Restarted

FactsSpec == FactsInit /\ [][FactsNext]_factsVars

-----------------------------------------------------------------------------
\* A foreign image under the name of an OS image is not taken for Windows'
\* own: "a third-party svchost.exe in a user directory must not become a
\* Windows process" (ClassifyInput).
NoForeignSystem ==
    verdict # Unsaid => \A p \in FPids :
        LET s == beings[p].sort
        IN  s.name = "core" /\ s.owned = FALSE /\ ~s.critical => verdict.cats[p] # "system"

\* A system process stays one, and what hangs below it is not part of the
\* application above it: a windowless member of an application that is not
\* its root was started by a member (refine_categories_and_group_apps).
SystemIsABoundary ==
    verdict # Unsaid =>
        /\ \A p \in FPids : Classify(beings[p].sort) = "system" => verdict.cats[p] = "system"
        /\ \A p \in FPids : verdict.cats[p] = "app" /\ ~beings[p].sort.window /\ p \notin verdict.roots
              => \E q \in FPids : verdict.cats[q] = "app" /\ Begot(beings, q, p)

\* The owner of a service host whose token is closed is the account the service
\* is configured with, at most one life of the cache behind (service_catalog,
\* "picked up within this window").
OwnerSettles == outdated <= ConfigTtl + 1

\* A process whose token cannot be opened is not given SYSTEM by its name: a
\* look-alike stays unknown (fallback_user_for_known_role).
NoInventedOwner ==
    topic = "owner" /\ stated.other.user # Unsaid /\ ~world.other.sameImage
        => stated.other.user = world.other.account

\* Whoever is shown under a service account is shown elevated, an inherited
\* account included (the second infer_elevation_from_account).
AccountMeansElevated ==
    topic = "owner" =>
        \A b \in {stated.host, stated.other} :
            b.user # Unsaid => (Privileged(b.user) => b.elevated = "yes")

\* What is concluded of a process: no foreign image becomes a system process,
\* applications do not reach across one, an owner is read or known and never invented,
\* and the same account means the same elevation.
FactsSound ==
  /\ NoForeignSystem /\ SystemIsABoundary /\ OwnerSettles /\ NoInventedOwner
  /\ AccountMeansElevated
=============================================================================
