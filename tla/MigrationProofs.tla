--------------------------- MODULE MigrationProofs ---------------------------
(***************************************************************************)
(* Whatever runs of sozo migrate interleave, and wherever they stop: the   *)
(* picture of the world that is rebuilt from its events is right, and no   *)
(* right is on a selector at which nothing is registered.  For any         *)
(* project, world and number of accounts.                                  *)
(***************************************************************************)
EXTENDS Migration, TLAPS, WellFoundedInduction, FiniteSetTheorems

-----------------------------------------------------------------------------
(* The inductive invariant *)

ResourceFns ==
    {"register_event", "register_model", "register_contract", "register_library",
     "upgrade_event", "upgrade_model", "upgrade_contract"}

\* The calls that are ever made.
Calls ==
    [fn : {"declare"}, r : Selectors, x : Nat]
    \cup [fn : {"deploy_world", "upgrade_world"}, r : {WORLD}, x : Nat \ {0}]
    \cup [fn : {"register_namespace"}, r : Namespaces, x : Nat \ {0}]
    \cup [fn : ResourceFns, r : Resources, x : Nat \ {0}]
    \cup [fn : {"init_contract"}, r : Contracts, x : {0}]
    \cup [fn : Grants, r : Selectors, x : Addresses]

Runs ==
    [phase : Active \cup {"idle", "done", "failed"}, seen : Worlds,
     declares : SUBSET (Selectors \X Nat), todo : {S \in SUBSET Calls : IsFiniteSet(S)},
     tx : Seq(Calls), status : {"none", "sent", "ok", "reverted"},
     final : BOOLEAN, waiting : BOOLEAN, misled : BOOLEAN, sequential : BOOLEAN]

\* A run that waits is in a phase and has a transaction.
Run(m) == m \in Runs /\ (m.waiting => m.phase \in Active /\ m.tx # <<>>)

ChainInv(w, m) == w \in Worlds /\ m \in Worlds /\ Rebuilt(w, m) /\ RightsRooted(w)

MigInv ==
    /\ ChainInv(world, remote) /\ mined \in Worlds
    /\ mig = [a \in Accounts |-> mig[a]] /\ \A a \in Accounts : Run(mig[a])

-----------------------------------------------------------------------------
(* One call of the world contract *)

\* A world and its parts.
LEMMA WorldIs ==
    ASSUME NEW w
    PROVE  w \in Worlds <=>
               /\ w = [classes |-> w.classes, owners |-> w.owners, writers |-> w.writers,
                       initialized |-> w.initialized]
               /\ w.classes \in [Selectors -> Nat] /\ w.owners \subseteq Selectors \X Addresses
               /\ w.writers \subseteq Selectors \X Addresses /\ w.initialized \subseteq Contracts
BY DEF Worlds

\* Namespaces, resources and the world are different selectors.
LEMMA SelectorsAre ==
    /\ WORLD \in Selectors /\ Namespaces \subseteq Selectors /\ Resources \subseteq Selectors
    /\ WORLD \notin Namespaces /\ WORLD \notin Resources /\ Contracts \subseteq Resources
    /\ Contracts \subseteq Addresses /\ Accounts \subseteq Addresses
    /\ \A r \in Resources : NamespaceOf[r] \in Namespaces
BY WorldAssumption DEF Selectors, Contracts, Addresses

\* What is to be shown of a world and the picture of it.
LEMMA ChainIs ==
    ASSUME NEW n, NEW k, NEW classes, NEW owners, NEW writers, NEW initialized, NEW seen,
           n = [classes |-> classes, owners |-> owners, writers |-> writers, initialized |-> initialized],
           k = [classes |-> classes, owners |-> seen, writers |-> writers, initialized |-> initialized],
           classes \in [Selectors -> Nat], owners \subseteq Selectors \X Addresses,
           writers \subseteq Selectors \X Addresses, initialized \subseteq Contracts,
           seen \subseteq owners, \A o \in owners \ seen : o[1] # WORLD /\ o[2] \in Accounts,
           \A o \in owners \cup writers : classes[o[1]] > 0,
           \A s \in Selectors : classes[s] > 0 => classes[WORLD] > 0
    PROVE  ChainInv(n, k)
<1>1. /\ n.classes = classes /\ n.owners = owners /\ n.writers = writers /\ n.initialized = initialized
      /\ k.classes = classes /\ k.owners = seen /\ k.writers = writers /\ k.initialized = initialized
  OBVIOUS
<1>2. n \in Worlds /\ k \in Worlds
  BY <1>1, WorldIs
<1>3. Rebuilt(n, k)
  BY ONLY <1>1, seen \subseteq owners, \A o \in owners \ seen : o[1] # WORLD /\ o[2] \in Accounts DEF Rebuilt
<1>4. RightsRooted(n)
  BY ONLY <1>1, \A o \in owners \cup writers : classes[o[1]] > 0,
          \A s \in Selectors : classes[s] > 0 => classes[WORLD] > 0
     DEF RightsRooted, Registered
<1> QED
  BY <1>2, <1>3, <1>4 DEF ChainInv

\* The same, read the other way.
LEMMA ChainHas ==
    ASSUME NEW w, NEW m, ChainInv(w, m)
    PROVE  /\ w = [classes |-> w.classes, owners |-> w.owners, writers |-> w.writers, initialized |-> w.initialized]
           /\ m = [classes |-> w.classes, owners |-> m.owners, writers |-> w.writers, initialized |-> w.initialized]
           /\ w.classes \in [Selectors -> Nat] /\ w.owners \subseteq Selectors \X Addresses
           /\ w.writers \subseteq Selectors \X Addresses /\ w.initialized \subseteq Contracts
           /\ m.owners \subseteq w.owners /\ \A o \in w.owners \ m.owners : o[1] # WORLD /\ o[2] \in Accounts
           /\ \A o \in w.owners \cup w.writers : w.classes[o[1]] > 0
           /\ \A s \in Selectors : w.classes[s] > 0 => w.classes[WORLD] > 0
BY WorldIs DEF ChainInv, Rebuilt, RightsRooted, Registered

\* A class is written, and in the contract an owner with it.
LEMMA ClassWritten ==
    ASSUME NEW w, NEW m, ChainInv(w, m), NEW r \in Selectors, NEW x \in Nat \ {0},
           Registered(w, WORLD), NEW owners, NEW n, NEW k,
           n = [w EXCEPT !.classes[r] = x, !.owners = owners],
           k = [m EXCEPT !.classes[r] = x],
           owners = w.owners \/ \E a \in Accounts : r # WORLD /\ owners = w.owners \cup {<<r, a>>}
    PROVE  ChainInv(n, k)
<1>1. PICK cs, os, ws, is, see :
          cs = w.classes /\ os = w.owners /\ ws = w.writers /\ is = w.initialized /\ see = m.owners
  OBVIOUS
<1>2. PICK classes : classes = [cs EXCEPT ![r] = x]
  OBVIOUS
<1>3. /\ w = [classes |-> cs, owners |-> os, writers |-> ws, initialized |-> is]
      /\ m = [classes |-> cs, owners |-> see, writers |-> ws, initialized |-> is]
      /\ cs \in [Selectors -> Nat] /\ os \subseteq Selectors \X Addresses
      /\ ws \subseteq Selectors \X Addresses /\ is \subseteq Contracts
      /\ see \subseteq os /\ \A o \in os \ see : o[1] # WORLD /\ o[2] \in Accounts
      /\ \A o \in os \cup ws : cs[o[1]] > 0
  BY ONLY <1>1, ChainHas, ChainInv(w, m)
<1>4. /\ n = [classes |-> classes, owners |-> owners, writers |-> ws, initialized |-> is]
      /\ k = [classes |-> classes, owners |-> see, writers |-> ws, initialized |-> is]
  BY <1>2, <1>3
<1>5. /\ classes \in [Selectors -> Nat] /\ classes[r] = x
      /\ \A s \in Selectors : s # r => classes[s] = cs[s]
  BY ONLY <1>2, <1>3, r \in Selectors, x \in Nat \ {0}
<1>6. owners \subseteq Selectors \X Addresses
  BY <1>1, <1>3, SelectorsAre
<1>7. see \subseteq owners /\ \A o \in owners \ see : o[1] # WORLD /\ o[2] \in Accounts
  BY <1>1, <1>3
<1>8. \A s \in Selectors : cs[s] > 0 => classes[s] > 0
  BY ONLY <1>5, x \in Nat \ {0}
<1>9. \A o \in owners \cup ws : classes[o[1]] > 0
  <2>1. \A o \in os \cup ws : o[1] \in Selectors
    BY <1>3
  <2>2. \A o \in os \cup ws : classes[o[1]] > 0
    BY <1>3, <1>8, <2>1
  <2> QED
    BY <1>1, <1>5, <2>2
<1>10. classes[WORLD] > 0
  BY <1>1, <1>8, SelectorsAre DEF Registered
<1> QED
  BY ONLY <1>3, <1>4, <1>5, <1>6, <1>7, <1>9, <1>10, ChainIs

\* The world is deployed: nothing was registered before, and nobody had a right.
LEMMA WorldDeployed ==
    ASSUME NEW w, NEW m, ChainInv(w, m), ~Registered(w, WORLD), NEW a \in Accounts, NEW x \in Nat \ {0}, NEW n, NEW k,
           n = [w EXCEPT !.classes[WORLD] = x, !.owners = w.owners \cup {<<WORLD, a>>}],
           k = [m EXCEPT !.classes[WORLD] = x, !.owners = {<<WORLD, a>>}]
    PROVE  ChainInv(n, k)
<1>1. PICK cs, os, ws, is, see :
          cs = w.classes /\ os = w.owners /\ ws = w.writers /\ is = w.initialized /\ see = m.owners
  OBVIOUS
<1>2. PICK classes, new : classes = [cs EXCEPT ![WORLD] = x] /\ new = {<<WORLD, a>>}
  OBVIOUS
<1>3. /\ w = [classes |-> cs, owners |-> os, writers |-> ws, initialized |-> is]
      /\ m = [classes |-> cs, owners |-> see, writers |-> ws, initialized |-> is]
      /\ cs \in [Selectors -> Nat] /\ os \subseteq Selectors \X Addresses
      /\ ws \subseteq Selectors \X Addresses /\ is \subseteq Contracts
      /\ \A o \in os \cup ws : cs[o[1]] > 0
      /\ \A s \in Selectors : cs[s] > 0 => cs[WORLD] > 0
  BY ONLY <1>1, ChainHas, ChainInv(w, m)
<1>4. os = {} /\ ws = {}
  <2>1. \A s \in Selectors : ~(cs[s] > 0)
    BY <1>1, <1>3 DEF Registered
  <2>2. \A o \in os \cup ws : o[1] \in Selectors
    BY <1>3
  <2> QED
    BY <1>3, <2>1, <2>2
<1>5. /\ n = [classes |-> classes, owners |-> new, writers |-> ws, initialized |-> is]
      /\ k = [classes |-> classes, owners |-> new, writers |-> ws, initialized |-> is]
  <2>1. w.owners \cup {<<WORLD, a>>} = new
    BY ONLY <1>1, <1>2, <1>4
  <2>2. n = [w EXCEPT !.classes[WORLD] = x, !.owners = new]
    BY ONLY <2>1, n = [w EXCEPT !.classes[WORLD] = x, !.owners = w.owners \cup {<<WORLD, a>>}]
  <2>3. k = [m EXCEPT !.classes[WORLD] = x, !.owners = new]
    BY <1>2
  <2> QED
    BY ONLY <1>2, <1>3, <2>2, <2>3
<1>6. classes \in [Selectors -> Nat] /\ classes[WORLD] > 0
  BY ONLY <1>2, <1>3, x \in Nat \ {0}, SelectorsAre
<1>7. new \subseteq Selectors \X Addresses /\ \A o \in new : o[1] = WORLD
  BY <1>2, SelectorsAre
<1>8. /\ new \subseteq new /\ \A o \in new \ new : o[1] # WORLD /\ o[2] \in Accounts
      /\ \A o \in new \cup ws : classes[o[1]] > 0
  BY ONLY <1>4, <1>6, <1>7
<1> QED
  BY ONLY <1>3, <1>5, <1>6, <1>7, <1>8, ChainIs

\* A right is granted on what is registered, or revoked.
LEMMA RightChanged ==
    ASSUME NEW w, NEW m, ChainInv(w, m), NEW c, c.fn \in Grants, c.r \in Selectors, c.x \in Addresses,
           Registered(w, c.r)
    PROVE  ChainInv(GrantEffect(w, c), GrantEffect(m, c))
<1>1. PICK cs, os, ws, is, see :
          cs = w.classes /\ os = w.owners /\ ws = w.writers /\ is = w.initialized /\ see = m.owners
  OBVIOUS
<1>2. PICK p : p = <<c.r, c.x>>
  OBVIOUS
<1>3. /\ w = [classes |-> cs, owners |-> os, writers |-> ws, initialized |-> is]
      /\ m = [classes |-> cs, owners |-> see, writers |-> ws, initialized |-> is]
      /\ cs \in [Selectors -> Nat] /\ os \subseteq Selectors \X Addresses
      /\ ws \subseteq Selectors \X Addresses /\ is \subseteq Contracts
      /\ see \subseteq os /\ \A o \in os \ see : o[1] # WORLD /\ o[2] \in Accounts
      /\ \A o \in os \cup ws : cs[o[1]] > 0
      /\ \A s \in Selectors : cs[s] > 0 => cs[WORLD] > 0
  BY ONLY <1>1, ChainHas, ChainInv(w, m)
<1>4. p \in Selectors \X Addresses /\ cs[p[1]] > 0
  BY <1>1, <1>2 DEF Registered
<1>5. ASSUME NEW n, NEW k, NEW owners, NEW writers, NEW seen,
             n = [classes |-> cs, owners |-> owners, writers |-> writers, initialized |-> is],
             k = [classes |-> cs, owners |-> seen, writers |-> writers, initialized |-> is],
             owners \subseteq os \cup {p}, writers \subseteq ws \cup {p}, seen \subseteq owners,
             owners \ seen \subseteq os \ see
      PROVE  ChainInv(n, k)
  <2>1. owners \subseteq Selectors \X Addresses /\ writers \subseteq Selectors \X Addresses
    BY <1>3, <1>4, <1>5
  <2>2. \A o \in owners \cup writers : cs[o[1]] > 0
    BY <1>3, <1>4, <1>5
  <2>3. \A o \in owners \ seen : o[1] # WORLD /\ o[2] \in Accounts
    BY <1>3, <1>5
  <2> QED
    BY ONLY <1>3, <1>5, <2>1, <2>2, <2>3, ChainIs
<1>6. PICK n, k : n = GrantEffect(w, c) /\ k = GrantEffect(m, c)
  OBVIOUS
<1>7. CASE c.fn = "grant_owner"
  <2>1. PICK owners, seen : owners = os \cup {p} /\ seen = see \cup {p}
    OBVIOUS
  <2>2. /\ n = [classes |-> cs, owners |-> owners, writers |-> ws, initialized |-> is]
        /\ k = [classes |-> cs, owners |-> seen, writers |-> ws, initialized |-> is]
    BY <1>2, <1>3, <1>6, <1>7, <2>1 DEF GrantEffect
  <2>3. owners \subseteq os \cup {p} /\ ws \subseteq ws \cup {p} /\ seen \subseteq owners /\ owners \ seen \subseteq os \ see
    BY <1>3, <2>1
  <2>4. ChainInv(n, k)
    BY ONLY <1>5, <2>2, <2>3
  <2> QED
    BY <1>6, <2>4
<1>8. CASE c.fn = "revoke_owner"
  <2>1. PICK owners, seen : owners = os \ {p} /\ seen = see \ {p}
    OBVIOUS
  <2>2. /\ n = [classes |-> cs, owners |-> owners, writers |-> ws, initialized |-> is]
        /\ k = [classes |-> cs, owners |-> seen, writers |-> ws, initialized |-> is]
    BY <1>2, <1>3, <1>6, <1>8, <2>1 DEF GrantEffect
  <2>3. owners \subseteq os \cup {p} /\ ws \subseteq ws \cup {p} /\ seen \subseteq owners /\ owners \ seen \subseteq os \ see
    BY <1>3, <2>1
  <2>4. ChainInv(n, k)
    BY ONLY <1>5, <2>2, <2>3
  <2> QED
    BY <1>6, <2>4
<1>9. CASE c.fn \in {"grant_writer", "revoke_writer"}
  <2>1. PICK writers : writers = IF c.fn = "grant_writer" THEN ws \cup {p} ELSE ws \ {p}
    OBVIOUS
  <2>2. /\ n = [classes |-> cs, owners |-> os, writers |-> writers, initialized |-> is]
        /\ k = [classes |-> cs, owners |-> see, writers |-> writers, initialized |-> is]
    BY <1>2, <1>3, <1>6, <1>9, <2>1 DEF GrantEffect
  <2>3. os \subseteq os \cup {p} /\ writers \subseteq ws \cup {p} /\ see \subseteq os /\ os \ see \subseteq os \ see
    BY <1>3, <2>1
  <2>4. ChainInv(n, k)
    BY ONLY <1>5, <2>2, <2>3
  <2> QED
    BY <1>6, <2>4
<1> QED
  BY <1>7, <1>8, <1>9 DEF Grants

\* A contract is initialised.
LEMMA ContractInitialized ==
    ASSUME NEW w, NEW m, ChainInv(w, m), NEW r \in Contracts
    PROVE  ChainInv(InitEffect(w, r), InitEffect(m, r))
<1>1. PICK cs, os, ws, is, see :
          cs = w.classes /\ os = w.owners /\ ws = w.writers /\ is = w.initialized /\ see = m.owners
  OBVIOUS
<1>2. PICK n, k, new : n = InitEffect(w, r) /\ k = InitEffect(m, r) /\ new = is \cup {r}
  OBVIOUS
<1>3. /\ w = [classes |-> cs, owners |-> os, writers |-> ws, initialized |-> is]
      /\ m = [classes |-> cs, owners |-> see, writers |-> ws, initialized |-> is]
      /\ cs \in [Selectors -> Nat] /\ os \subseteq Selectors \X Addresses
      /\ ws \subseteq Selectors \X Addresses /\ is \subseteq Contracts
      /\ see \subseteq os /\ \A o \in os \ see : o[1] # WORLD /\ o[2] \in Accounts
      /\ \A o \in os \cup ws : cs[o[1]] > 0
      /\ \A s \in Selectors : cs[s] > 0 => cs[WORLD] > 0
  BY ONLY <1>1, ChainHas, ChainInv(w, m)
<1>4. /\ n = [classes |-> cs, owners |-> os, writers |-> ws, initialized |-> new]
      /\ k = [classes |-> cs, owners |-> see, writers |-> ws, initialized |-> new]
  BY <1>2, <1>3 DEF InitEffect
<1>5. new \subseteq Contracts
  BY <1>2, <1>3
<1>6. ChainInv(n, k)
  BY ONLY <1>3, <1>4, <1>5, ChainIs
<1> QED
  BY <1>2, <1>6

\* Where something is registered the world is.
LEMMA WorldFirst ==
    ASSUME NEW w, NEW m, ChainInv(w, m), NEW s \in Selectors, Registered(w, s)
    PROVE  Registered(w, WORLD)
BY DEF ChainInv, RightsRooted

\* A registration that the contract accepts.
LEMMA RegistrationApplied ==
    ASSUME NEW w, NEW m, ChainInv(w, m), NEW a \in Accounts, NEW c, NEW r \in Selectors, NEW x \in Nat \ {0},
           r = c.r, x = c.x, r # WORLD, Registered(w, WORLD)
    PROVE  ChainInv(RegisterEffect(w, a, c), [m EXCEPT !.classes[c.r] = c.x])
<1>1. PICK owners, n, k : /\ owners = w.owners \cup {<<r, a>>}
                          /\ n = RegisterEffect(w, a, c) /\ k = [m EXCEPT !.classes[r] = x]
  OBVIOUS
<1>2. n = [w EXCEPT !.classes[r] = x, !.owners = owners]
  BY <1>1 DEF RegisterEffect
<1>3. \E b \in Accounts : r # WORLD /\ owners = w.owners \cup {<<r, b>>}
  BY <1>1
<1>4. k = [m EXCEPT !.classes[r] = x]
  BY <1>1
<1>5. ChainInv(n, k)
  BY ONLY ChainInv(w, m), r \in Selectors, x \in Nat \ {0}, Registered(w, WORLD), <1>2, <1>3, <1>4, ClassWritten
<1> QED
  BY <1>1, <1>5

\* An upgrade that the contract accepts.
LEMMA UpgradeApplied ==
    ASSUME NEW w, NEW m, ChainInv(w, m), NEW r \in Selectors, NEW x \in Nat \ {0}, Registered(w, WORLD)
    PROVE  ChainInv([w EXCEPT !.classes[r] = x], [m EXCEPT !.classes[r] = x])
<1>1. PICK cs, os, ws, is :
          cs = w.classes /\ os = w.owners /\ ws = w.writers /\ is = w.initialized
  OBVIOUS
<1>2. PICK n, k : n = [w EXCEPT !.classes[r] = x] /\ k = [m EXCEPT !.classes[r] = x]
  OBVIOUS
<1>3. w = [classes |-> cs, owners |-> os, writers |-> ws, initialized |-> is]
  BY ONLY <1>1, ChainHas, ChainInv(w, m)
<1>4. n = [w EXCEPT !.classes[r] = x, !.owners = os]
  <2>1. PICK classes : classes = [cs EXCEPT ![r] = x]
    OBVIOUS
  <2>2. n = [classes |-> classes, owners |-> os, writers |-> ws, initialized |-> is]
    BY ONLY <1>2, <1>3, <2>1
  <2>3. PICK o : o = [w EXCEPT !.classes[r] = x, !.owners = os]
    OBVIOUS
  <2>4. o = [classes |-> classes, owners |-> os, writers |-> ws, initialized |-> is]
    BY ONLY <1>3, <2>1, <2>3
  <2> QED
    BY ONLY <2>2, <2>3, <2>4
<1>5. k = [m EXCEPT !.classes[r] = x]
  BY <1>2
<1>6. ChainInv(n, k)
  BY ONLY ChainInv(w, m), r \in Selectors, x \in Nat \ {0}, Registered(w, WORLD), <1>1, <1>4, <1>5, ClassWritten
<1> QED
  BY <1>2, <1>6

\* What a call is about.
LEMMA CallIs ==
    ASSUME NEW c \in Calls
    PROVE  \/ c.fn = "declare"
           \/ c.fn \in {"deploy_world", "upgrade_world"} /\ c.r = WORLD /\ c.x \in Nat \ {0}
           \/ c.fn = "register_namespace" /\ c.r \in Namespaces /\ c.x \in Nat \ {0}
           \/ c.fn \in ResourceFns /\ c.r \in Resources /\ c.x \in Nat \ {0}
           \/ c.fn = "init_contract" /\ c.r \in Contracts
           \/ c.fn \in Grants /\ c.r \in Selectors /\ c.x \in Addresses
BY DEF Calls

\* A call that the world accepts leaves the world and its picture in agreement.
LEMMA AcceptedCall ==
    ASSUME NEW w, NEW m, ChainInv(w, m), NEW d, NEW a \in Accounts, NEW c \in Calls,
           c.fn # "declare", Accepts(w, d, a, c)
    PROVE  ChainInv(Effect(w, a, c), MatchEvent(m, a, c))
<1>1. CASE c.fn = "deploy_world" /\ c.r = WORLD /\ c.x \in Nat \ {0}
  <2>1. ~Registered(w, WORLD)
    BY <1>1 DEF Accepts, DeployWorldAllowed, Grants
  <2>2. PICK n, k, x : n = Effect(w, a, c) /\ k = MatchEvent(m, a, c) /\ x = c.x
    OBVIOUS
  <2>3. n = [w EXCEPT !.classes[WORLD] = x, !.owners = w.owners \cup {<<WORLD, a>>}]
    <3>1. n = RegisterEffect(w, a, c)
      BY <1>1, <2>2 DEF Effect, Registrations, Upgrades, Grants
    <3> QED
      BY ONLY <1>1, <2>2, <3>1 DEF RegisterEffect
  <2>6. k = [m EXCEPT !.classes[WORLD] = x, !.owners = {<<WORLD, a>>}]
    BY <1>1, <2>2 DEF MatchEvent, ClassEvents, Registrations, Upgrades, Grants
  <2>4. x \in Nat \ {0}
    BY <1>1, <2>2
  <2>5. ChainInv(n, k)
    BY ONLY ChainInv(w, m), a \in Accounts, <2>1, <2>3, <2>4, <2>6, WorldDeployed
  <2> QED
    BY <2>2, <2>5
<1>2. CASE c.fn = "upgrade_world" /\ c.r = WORLD /\ c.x \in Nat \ {0}
  <2>1. <<WORLD, a>> \in w.owners
    BY <1>2 DEF Accepts, UpgradeWorldAllowed, IsOwner, Grants
  <2>2. Registered(w, WORLD)
    BY <2>1, ChainHas DEF Registered
  <2>3. Effect(w, a, c) = [w EXCEPT !.classes[c.r] = c.x] /\ MatchEvent(m, a, c) = [m EXCEPT !.classes[c.r] = c.x]
    BY <1>2 DEF Effect, MatchEvent, Registrations, Upgrades, ClassEvents, Grants
  <2> QED
    BY <1>2, <2>2, <2>3, UpgradeApplied, SelectorsAre
<1>3. CASE c.fn = "register_namespace" /\ c.r \in Namespaces /\ c.x \in Nat \ {0}
  <2>1. Registered(w, WORLD)
    BY <1>3 DEF Accepts, RegisterNamespaceAllowed, Grants
  <2>2. Effect(w, a, c) = RegisterEffect(w, a, c) /\ MatchEvent(m, a, c) = [m EXCEPT !.classes[c.r] = c.x]
    BY <1>3 DEF Effect, MatchEvent, Registrations, Upgrades, ClassEvents, Grants
  <2> QED
    BY <1>3, <2>1, <2>2, RegistrationApplied, SelectorsAre
<1>4. CASE /\ c.fn \in {"register_event", "register_model", "register_contract", "register_library"}
           /\ c.r \in Resources /\ c.x \in Nat \ {0}
  <2>1. Registered(w, NamespaceOf[c.r])
    BY <1>4 DEF Accepts, NewIn, IsNamespaceRegistered, RegisterEventAllowed, RegisterModelAllowed,
                RegisterContractAllowed, RegisterLibraryAllowed, Grants
  <2>2. Registered(w, WORLD)
    BY <1>4, <2>1, WorldFirst, SelectorsAre
  <2>3. Effect(w, a, c) = RegisterEffect(w, a, c) /\ MatchEvent(m, a, c) = [m EXCEPT !.classes[c.r] = c.x]
    BY <1>4 DEF Effect, MatchEvent, Registrations, Upgrades, ClassEvents, Grants
  <2> QED
    BY <1>4, <2>2, <2>3, RegistrationApplied, SelectorsAre
<1>5. CASE c.fn \in {"upgrade_event", "upgrade_model", "upgrade_contract"} /\ c.r \in Resources /\ c.x \in Nat \ {0}
  <2>1. Registered(w, c.r)
    BY <1>5 DEF Accepts, UpgradeEventAllowed, UpgradeModelAllowed, UpgradeContractAllowed, Grants
  <2>2. Registered(w, WORLD)
    BY <1>5, <2>1, WorldFirst, SelectorsAre
  <2>3. Effect(w, a, c) = [w EXCEPT !.classes[c.r] = c.x] /\ MatchEvent(m, a, c) = [m EXCEPT !.classes[c.r] = c.x]
    BY <1>5 DEF Effect, MatchEvent, Registrations, Upgrades, ClassEvents, Grants
  <2> QED
    BY <1>5, <2>2, <2>3, UpgradeApplied, SelectorsAre
<1>6. CASE c.fn = "init_contract" /\ c.r \in Contracts
  <2>1. Effect(w, a, c) = InitEffect(w, c.r) /\ MatchEvent(m, a, c) = InitEffect(m, c.r)
    BY <1>6 DEF Effect, MatchEvent, Registrations, Upgrades, ClassEvents, Grants
  <2> QED
    BY <1>6, <2>1, ContractInitialized
<1>7. CASE c.fn \in Grants /\ c.r \in Selectors /\ c.x \in Addresses
  <2>1. Registered(w, c.r)
    BY <1>7 DEF Accepts, GrantAllowed, Grants
  <2>2. Effect(w, a, c) = GrantEffect(w, c) /\ MatchEvent(m, a, c) = GrantEffect(m, c)
    BY <1>7 DEF Effect, MatchEvent, Registrations, Upgrades, ClassEvents, Grants
  <2> QED
    BY <1>7, <2>1, <2>2, RightChanged
<1> QED
  BY <1>1, <1>2, <1>3, <1>4, <1>5, <1>6, <1>7, CallIs DEF ResourceFns

-----------------------------------------------------------------------------
(* One transaction *)

\* A state that a transaction may be in between two of its calls.
Good(s) ==
    /\ s = [world |-> s.world, declared |-> s.declared, remote |-> s.remote, ok |-> s.ok]
    /\ ChainInv(s.world, s.remote)

\* The next call of a transaction.
LEMMA CallApplied ==
    ASSUME NEW s, Good(s), NEW a \in Accounts, NEW c \in Calls
    PROVE  Good(Apply(s, a, c))
<1>1. PICK n : n = Apply(s, a, c)
  OBVIOUS
<1>2. PICK sw, sd, sr, so : sw = s.world /\ sd = s.declared /\ sr = s.remote /\ so = s.ok
  OBVIOUS
<1>3. s = [world |-> sw, declared |-> sd, remote |-> sr, ok |-> so] /\ ChainInv(sw, sr)
  BY <1>2 DEF Good
<1>4. CASE ~s.ok
  BY <1>4 DEF Apply
<1>5. CASE s.ok /\ c.fn = "declare"
  <2>1. PICK d, o : d = sd \cup {<<c.r, c.x>>} /\ o = (<<c.r, c.x>> \notin sd)
    OBVIOUS
  <2>2. n = [world |-> sw, declared |-> d, remote |-> sr, ok |-> o]
    BY <1>1, <1>2, <1>3, <1>5, <2>1 DEF Apply
  <2>3. n.world = sw /\ n.declared = d /\ n.remote = sr /\ n.ok = o
    BY ONLY <2>2
  <2> QED
    BY <1>1, <1>3, <2>2, <2>3 DEF Good
<1>6. CASE s.ok /\ c.fn # "declare" /\ Accepts(sw, sd, a, c)
  <2>1. PICK w, m : w = Effect(sw, a, c) /\ m = MatchEvent(sr, a, c)
    OBVIOUS
  <2>2. n = [world |-> w, declared |-> sd, remote |-> m, ok |-> so]
    BY <1>1, <1>2, <1>3, <1>6, <2>1 DEF Apply
  <2>3. n.world = w /\ n.declared = sd /\ n.remote = m /\ n.ok = so
    BY ONLY <2>2
  <2>4. ChainInv(w, m)
    BY <1>3, <1>6, <2>1, AcceptedCall
  <2> QED
    BY <1>1, <2>2, <2>3, <2>4 DEF Good
<1>7. CASE s.ok /\ c.fn # "declare" /\ ~Accepts(sw, sd, a, c)
  <2>1. n = [world |-> sw, declared |-> sd, remote |-> sr, ok |-> FALSE]
    BY <1>1, <1>2, <1>3, <1>7 DEF Apply
  <2>2. n.world = sw /\ n.declared = sd /\ n.remote = sr /\ n.ok = FALSE
    BY ONLY <2>1
  <2> QED
    BY <1>1, <1>3, <2>1, <2>2 DEF Good
<1> QED
  BY <1>4, <1>5, <1>6, <1>7

\* A nonempty set of naturals has a least element.
LEMMA LeastElement ==
    ASSUME NEW T \in SUBSET Nat, T # {}
    PROVE  \E x \in T : \A y \in T : x <= y
<1> DEFINE R == OpToRel(<,Nat)
<1>1. IsWellFoundedOn(R, Nat)
  BY NatLessThanWellFounded
<1>2. \A x, y \in Nat : x < y => <<x, y>> \in R
  BY DEF OpToRel
<1> HIDE DEF R
<1>3. PICK x \in T : \A y \in T : ~(<<y, x>> \in R)
  BY <1>1, WFMin
<1>4. ASSUME NEW y \in T PROVE x <= y
  <2>1. x \in Nat /\ y \in Nat
    OBVIOUS
  <2>2. ~(y < x)
    BY <1>2, <1>3, <2>1
  <2> QED
    BY <2>1, <2>2
<1> QED
  BY <1>3, <1>4

\* Induction on the naturals, for a set.
LEMMA SetInduction ==
    ASSUME NEW S, 0 \in S, \A n \in Nat : n \in S => n + 1 \in S
    PROVE  Nat \subseteq S
<1> DEFINE T == Nat \ S
<1> SUFFICES ASSUME T # {} PROVE FALSE
  OBVIOUS
<1>1. PICK x \in T : \A y \in T : x <= y
  BY LeastElement
<1>2. x # 0 /\ x - 1 \in Nat /\ x - 1 \in S
  BY <1>1
<1> QED
  BY <1>1, <1>2

\* g[n] is what the first n calls of the transaction may lead to, for n up to k.
Executes(g, k, start, a, tx) ==
    g = [n \in 0..k |-> IF n = 0 THEN {start} ELSE {Apply(s, a, tx[n]) : s \in g[n - 1]}]

\* The recursive definition in Outcomes has a solution.
LEMMA ExecutesExists ==
    ASSUME NEW start, NEW a, NEW tx, NEW k \in Nat
    PROVE  \E g : Executes(g, k, start, a, tx)
<1> DEFINE After(n, X) == {Apply(s, a, tx[n]) : s \in X}
           T == {n \in Nat : \E g : g = [i \in 0..n |-> IF i = 0 THEN {start} ELSE After(i, g[i - 1])]}
<1>1. SUFFICES k \in T
  BY DEF Executes
<1> HIDE DEF After
<1>2. 0 \in T
  <2>1. PICK g : g = [i \in 0..0 |-> {start}]
    OBVIOUS
  <2>2. g = [i \in 0..0 |-> IF i = 0 THEN {start} ELSE After(i, g[i - 1])]
    BY ONLY <2>1
  <2> QED
    BY <2>2
<1>3. ASSUME NEW n \in Nat, n \in T PROVE n + 1 \in T
  <2>1. PICK g : g = [i \in 0..n |-> IF i = 0 THEN {start} ELSE After(i, g[i - 1])]
    BY <1>3
  <2>2. PICK h : h = [i \in 0..(n + 1) |-> IF i <= n THEN g[i] ELSE After(i, g[n])]
    OBVIOUS
  <2>3. ASSUME NEW i \in 0..(n + 1) PROVE h[i] = IF i = 0 THEN {start} ELSE After(i, h[i - 1])
    <3>1. CASE i = 0
      BY <2>1, <2>2, <3>1
    <3>2. CASE i \in 1..n
      <4>1. i - 1 \in 0..n /\ i \in 0..n /\ i # 0
        BY <3>2
      <4>2. h[i] = g[i] /\ h[i - 1] = g[i - 1]
        BY <2>2, <4>1
      <4> QED
        BY <2>1, <4>1, <4>2
    <3>3. CASE i = n + 1
      <4>1. i - 1 = n /\ i # 0 /\ ~(i <= n) /\ n \in 0..(n + 1)
        BY <3>3
      <4>2. h[n] = g[n] /\ h[i] = After(i, g[n])
        BY <2>2, <4>1
      <4> QED
        BY <4>1, <4>2
    <3> QED
      BY <3>1, <3>2, <3>3
  <2>4. h = [i \in 0..(n + 1) |-> h[i]]
    BY <2>2
  <2>5. h = [i \in 0..(n + 1) |-> IF i = 0 THEN {start} ELSE After(i, h[i - 1])]
    BY <2>3, <2>4
  <2> QED
    BY <2>5
<1>4. \A n \in Nat : n \in T => n + 1 \in T
  BY <1>3
<1> HIDE DEF T
<1> QED
  BY <1>2, <1>4, SetInduction

\* Whatever a transaction does, it leaves the world and its picture in agreement.
LEMMA OutcomesGood ==
    ASSUME NEW a \in Accounts, NEW tx \in Seq(Calls), Good(Now)
    PROVE  \A s \in Outcomes(a, tx) : Good(s)
<1>1. PICK start, f : start = Now /\ f = CHOOSE g : Executes(g, Len(tx), start, a, tx)
  OBVIOUS
<1>2. Outcomes(a, tx) = f[Len(tx)]
  BY <1>1 DEF Outcomes, Executes
<1>3. Executes(f, Len(tx), start, a, tx)
  <2>1. Len(tx) \in Nat
    OBVIOUS
  <2> QED
    BY <1>1, <2>1, ExecutesExists
<1> DEFINE T == {n \in Nat : n <= Len(tx) => \A s \in f[n] : Good(s)}
<1>4. 0 \in T
  BY <1>1, <1>3 DEF Executes
<1>5. ASSUME NEW n \in Nat, n \in T PROVE n + 1 \in T
  <2> SUFFICES ASSUME n + 1 <= Len(tx), NEW s \in f[n + 1] PROVE Good(s)
    OBVIOUS
  <2>1. n + 1 \in 0..Len(tx) /\ n + 1 # 0 /\ (n + 1) - 1 = n /\ n <= Len(tx)
    OBVIOUS
  <2>2. f[n + 1] = {Apply(r, a, tx[n + 1]) : r \in f[n]}
    BY <1>3, <2>1 DEF Executes
  <2>3. PICK r \in f[n] : s = Apply(r, a, tx[n + 1])
    BY <2>2
  <2>4. Good(r) /\ tx[n + 1] \in Calls
    BY <1>5, <2>1
  <2> QED
    BY <2>3, <2>4, CallApplied
<1>6. \A n \in Nat : n \in T => n + 1 \in T
  BY <1>5
<1>7. Len(tx) \in T
  <2>1. Nat \subseteq T
    <3> HIDE DEF T
    <3> QED
      BY <1>4, <1>6, SetInduction
  <2> QED
    BY <2>1
<1> QED
  BY <1>2, <1>7

-----------------------------------------------------------------------------
(* The calls of a multicall in their order *)

\* The rank of a call is a number.
LEMMA RankType == ASSUME NEW c PROVE Rank(c) \in Nat
<1>1. OrderInits \in Seq(Resources)
  BY MigrationAssumption
<1>2. PICK os : os = OrderInits
  OBVIOUS
<1>3. Len(os) \in Nat /\ DOMAIN os = 1..Len(os)
  BY <1>1, <1>2
<1>4. CASE c.fn = "register_namespace"
  BY <1>4 DEF Rank
<1>5. CASE c.fn = "init_contract" /\ Contains(OrderInits, c.r)
  <2>1. \E j \in DOMAIN os : os[j] = c.r
    BY <1>2, <1>3, <1>5 DEF Contains
  <2>2. Rank(c) = CHOOSE j \in DOMAIN os : os[j] = c.r
    BY <1>2, <1>5 DEF Rank
  <2>3. Rank(c) \in DOMAIN os
    BY <2>1, <2>2
  <2> QED
    BY <1>3, <2>3
<1>6. CASE c.fn # "register_namespace" /\ ~(c.fn = "init_contract" /\ Contains(OrderInits, c.r))
  BY <1>2, <1>3, <1>6 DEF Rank
<1> QED
  BY <1>4, <1>5, <1>6

\* Some call of a nonempty set comes first.
LEMMA SomeFirst ==
    ASSUME NEW todo, todo # {}
    PROVE  First(todo) # {} /\ First(todo) \subseteq todo
<1> DEFINE T == {Rank(c) : c \in todo}
<1>1. T \in SUBSET Nat /\ T # {}
  BY RankType
<1>2. PICK x \in T : \A y \in T : x <= y
  BY <1>1, LeastElement
<1>3. PICK c \in todo : x = Rank(c)
  OBVIOUS
<1>4. c \in First(todo)
  BY <1>2, <1>3 DEF First
<1> QED
  BY <1>4 DEF First

\* g[n] has the first n calls in their order, for n up to k.
Orders(g, k, todo) ==
    g = [n \in 0..k |->
            IF n = 0 THEN {<<>>}
            ELSE {Append(tx, CHOOSE c \in First(todo \ ToSet(tx)) : TRUE) : tx \in g[n - 1]}]

\* The recursive definition in InOrder has a solution.
LEMMA OrdersExists ==
    ASSUME NEW todo, NEW k \in Nat
    PROVE  \E g : Orders(g, k, todo)
<1> DEFINE After(X) == {Append(tx, CHOOSE c \in First(todo \ ToSet(tx)) : TRUE) : tx \in X}
           T == {n \in Nat : \E g : g = [i \in 0..n |-> IF i = 0 THEN {<<>>} ELSE After(g[i - 1])]}
<1>1. SUFFICES k \in T
  BY DEF Orders
<1> HIDE DEF After
<1>2. 0 \in T
  <2>1. PICK g : g = [i \in 0..0 |-> {<<>>}]
    OBVIOUS
  <2>2. g = [i \in 0..0 |-> IF i = 0 THEN {<<>>} ELSE After(g[i - 1])]
    BY ONLY <2>1
  <2> QED
    BY <2>2
<1>3. ASSUME NEW n \in Nat, n \in T PROVE n + 1 \in T
  <2>1. PICK g : g = [i \in 0..n |-> IF i = 0 THEN {<<>>} ELSE After(g[i - 1])]
    BY <1>3
  <2>2. PICK h : h = [i \in 0..(n + 1) |-> IF i <= n THEN g[i] ELSE After(g[n])]
    OBVIOUS
  <2>3. ASSUME NEW i \in 0..(n + 1) PROVE h[i] = IF i = 0 THEN {<<>>} ELSE After(h[i - 1])
    <3>1. CASE i = 0
      BY <2>1, <2>2, <3>1
    <3>2. CASE i \in 1..n
      <4>1. i - 1 \in 0..n /\ i \in 0..n /\ i # 0
        BY <3>2
      <4>2. h[i] = g[i] /\ h[i - 1] = g[i - 1]
        BY <2>2, <4>1
      <4> QED
        BY <2>1, <4>1, <4>2
    <3>3. CASE i = n + 1
      <4>1. i - 1 = n /\ i # 0 /\ ~(i <= n) /\ n \in 0..(n + 1)
        BY <3>3
      <4>2. h[n] = g[n] /\ h[i] = After(g[n])
        BY <2>2, <4>1
      <4> QED
        BY <4>1, <4>2
    <3> QED
      BY <3>1, <3>2, <3>3
  <2>4. h = [i \in 0..(n + 1) |-> h[i]]
    BY <2>2
  <2>5. h = [i \in 0..(n + 1) |-> IF i = 0 THEN {<<>>} ELSE After(h[i - 1])]
    BY <2>3, <2>4
  <2> QED
    BY <2>5
<1>4. \A n \in Nat : n \in T => n + 1 \in T
  BY <1>3
<1> HIDE DEF T
<1> QED
  BY <1>2, <1>4, SetInduction

\* A sequence shorter than a finite set leaves some of it out.
LEMMA SomeLeft ==
    ASSUME NEW S, IsFiniteSet(S), NEW tx \in Seq(S), Len(tx) < Cardinality(S)
    PROVE  S \ ToSet(tx) # {}
<1>1. SUFFICES ASSUME S \subseteq ToSet(tx) PROVE FALSE
  OBVIOUS
<1>2. Len(tx) \in Nat /\ tx \in [1..Len(tx) -> S] /\ Cardinality(S) \in Nat
  BY FS_CardinalityType
<1>3. \A x \in S : \E j \in 1..Len(tx) : tx[j] = x
  BY <1>1, <1>2 DEF ToSet
<1>4. ExistsSurjection(1..Len(tx), S)
  BY <1>2, <1>3 DEF ExistsSurjection, Surjection
<1>5. Cardinality(S) <= Len(tx)
  BY <1>2, <1>4, FS_SurjCardinalityBound
<1> QED
  BY <1>2, <1>5

\* A multicall has the calls that are left, and one at least.
LEMMA InOrderType ==
    ASSUME NEW todo, IsFiniteSet(todo), todo # {}
    PROVE  \A tx \in InOrder(todo) : tx \in Seq(todo) /\ tx # <<>>
<1>1. PICK k : k = Cardinality(todo)
  OBVIOUS
<1>2. k \in Nat /\ k # 0
  BY <1>1, FS_CardinalityType, FS_EmptySet
<1>3. PICK f : f = CHOOSE g : Orders(g, k, todo)
  OBVIOUS
<1>4. InOrder(todo) = f[k]
  BY <1>1, <1>3 DEF InOrder, Orders
<1>5. Orders(f, k, todo)
  BY <1>2, <1>3, OrdersExists
<1> DEFINE T == {n \in Nat : n <= k => \A tx \in f[n] : tx \in Seq(todo) /\ Len(tx) = n}
<1>6. 0 \in T
  <2>1. f[0] = {<<>>}
    BY <1>2, <1>5 DEF Orders
  <2>2. \A tx \in f[0] : tx \in Seq(todo) /\ Len(tx) = 0
    BY <2>1
  <2> QED
    BY <2>2
<1>7. ASSUME NEW n \in Nat, n \in T PROVE n + 1 \in T
  <2> SUFFICES ASSUME n + 1 <= k, NEW tx \in f[n + 1] PROVE tx \in Seq(todo) /\ Len(tx) = n + 1
    OBVIOUS
  <2>1. n + 1 \in 0..k /\ n + 1 # 0 /\ (n + 1) - 1 = n /\ n <= k /\ n < k
    BY <1>2
  <2>2. f[n + 1] = {Append(r, CHOOSE c \in First(todo \ ToSet(r)) : TRUE) : r \in f[n]}
    BY <1>5, <2>1 DEF Orders
  <2>3. PICK r \in f[n] : tx = Append(r, CHOOSE c \in First(todo \ ToSet(r)) : TRUE)
    BY <2>2
  <2>4. r \in Seq(todo) /\ Len(r) = n
    BY <1>7, <2>1
  <2>5. todo \ ToSet(r) # {}
    BY <1>1, <2>1, <2>4, SomeLeft
  <2>6. PICK d : d = CHOOSE c \in First(todo \ ToSet(r)) : TRUE
    OBVIOUS
  <2>7. d \in First(todo \ ToSet(r)) /\ First(todo \ ToSet(r)) \subseteq todo \ ToSet(r)
    BY <2>5, <2>6, SomeFirst
  <2>8. d \in todo /\ tx = Append(r, d)
    BY <2>3, <2>6, <2>7
  <2> QED
    BY <2>4, <2>8
<1>8. \A n \in Nat : n \in T => n + 1 \in T
  BY <1>7
<1>9. k \in T
  <2>1. Nat \subseteq T
    <3> HIDE DEF T
    <3> QED
      BY <1>6, <1>8, SetInduction
  <2> QED
    BY <1>2, <2>1
<1>10. \A tx \in f[k] : tx \in Seq(todo) /\ Len(tx) = k
  BY <1>2, <1>9
<1> QED
  BY <1>2, <1>4, <1>10

-----------------------------------------------------------------------------
(* The calls that a diff asks for *)

Fns == ResourceFns \cup {"deploy_world", "upgrade_world", "register_namespace", "init_contract"} \cup Grants
Args == {0, 1} \cup {Local.classes[s] : s \in Selectors} \cup Contracts

\* There are finitely many selectors and arguments.
LEMMA FiniteNames == IsFiniteSet(Selectors) /\ IsFiniteSet(Args)
<1>1. IsFiniteSet(Namespaces) /\ IsFiniteSet(Resources)
  BY MigrationAssumption
<1>2. IsFiniteSet({WORLD}) /\ IsFiniteSet({0}) /\ IsFiniteSet({1})
  BY FS_Singleton
<1>3. IsFiniteSet({WORLD} \cup Namespaces)
  BY <1>1, <1>2, FS_Union
<1>4. IsFiniteSet(Selectors)
  BY <1>1, <1>3, FS_Union DEF Selectors
<1>5. IsFiniteSet({0} \cup {1})
  BY <1>2, FS_Union
<1>6. IsFiniteSet({0, 1})
  <2>1. {0, 1} = {0} \cup {1}
    OBVIOUS
  <2> QED
    BY <1>5, <2>1
<1>7. PICK V, f : V = {Local.classes[s] : s \in Selectors} /\ f = [s \in Selectors |-> Local.classes[s]]
  OBVIOUS
<1>8. f \in Surjection(Selectors, V)
  BY <1>7 DEF Surjection
<1>9. IsFiniteSet(V)
  BY <1>4, <1>8, FS_Surjection
<1>10. IsFiniteSet({0, 1} \cup V)
  BY <1>6, <1>9, FS_Union
<1>11. Contracts \in SUBSET Resources
  BY DEF Contracts
<1>12. IsFiniteSet(Contracts)
  BY <1>1, <1>11, FS_Subset
<1>13. IsFiniteSet(({0, 1} \cup V) \cup Contracts)
  BY <1>10, <1>12, FS_Union
<1>14. Args = ({0, 1} \cup V) \cup Contracts
  BY <1>7 DEF Args
<1> QED
  BY <1>4, <1>13, <1>14

\* And so there are finitely many calls on them.
LEMMA FiniteCalls == IsFiniteSet([fn : Fns, r : Selectors, x : Args])
<1>1. IsFiniteSet(Fns)
  <2>1. PICK g : g = [j \in 1..15 |->
            CASE j = 1 -> "register_event" [] j = 2 -> "register_model" [] j = 3 -> "register_contract"
              [] j = 4 -> "register_library" [] j = 5 -> "upgrade_event" [] j = 6 -> "upgrade_model"
              [] j = 7 -> "upgrade_contract" [] j = 8 -> "deploy_world" [] j = 9 -> "upgrade_world"
              [] j = 10 -> "register_namespace" [] j = 11 -> "init_contract" [] j = 12 -> "grant_owner"
              [] j = 13 -> "grant_writer" [] j = 14 -> "revoke_owner" [] OTHER -> "revoke_writer"]
    OBVIOUS
  <2>2. DOMAIN g = 1..15 /\ g[1] = "register_event" /\ g[2] = "register_model" /\ g[3] = "register_contract"
    BY ONLY <2>1
  <2>3. g[4] = "register_library" /\ g[5] = "upgrade_event" /\ g[6] = "upgrade_model"
    BY ONLY <2>1
  <2>4. g[7] = "upgrade_contract" /\ g[8] = "deploy_world" /\ g[9] = "upgrade_world"
    BY ONLY <2>1
  <2>5. g[10] = "register_namespace" /\ g[11] = "init_contract" /\ g[12] = "grant_owner"
    BY ONLY <2>1
  <2>6. g[13] = "grant_writer" /\ g[14] = "revoke_owner" /\ g[15] = "revoke_writer"
    BY ONLY <2>1
  <2>7. \A j \in 1..15 : g[j] \in Fns
    BY ONLY <2>1 DEF Fns, ResourceFns, Grants
  <2>8. \A fn \in Fns : \E j \in 1..15 : g[j] = fn
    BY <2>2, <2>3, <2>4, <2>5, <2>6 DEF Fns, ResourceFns, Grants
  <2>9. g \in [1..15 -> Fns]
    BY ONLY <2>1, <2>7
  <2>10. g \in Surjection(1..15, Fns)
    BY <2>8, <2>9 DEF Surjection
  <2>11. IsFiniteSet(1..15)
    <3>1. 1 \in Int /\ 15 \in Int
      OBVIOUS
    <3> QED
      BY <3>1, FS_Interval
  <2> QED
    BY <2>10, <2>11, FS_Surjection
<1>2. IsFiniteSet(Fns \X Selectors)
  BY <1>1, FiniteNames, FS_Product
<1>3. PICK P : P = (Fns \X Selectors) \X Args
  OBVIOUS
<1>4. IsFiniteSet(P)
  BY <1>2, <1>3, FiniteNames, FS_Product
<1>5. PICK R : R = [fn : Fns, r : Selectors, x : Args]
  OBVIOUS
<1>6. PICK f : f = [c \in R |-> <<<<c.fn, c.r>>, c.x>>]
  OBVIOUS
<1>7. f \in [R -> P]
  BY <1>3, <1>5, <1>6
<1>8. ASSUME NEW c \in R, NEW d \in R, f[c] = f[d] PROVE c = d
  <2>1. c = [fn |-> c.fn, r |-> c.r, x |-> c.x] /\ d = [fn |-> d.fn, r |-> d.r, x |-> d.x]
    BY <1>5
  <2>2. c.fn = d.fn /\ c.r = d.r /\ c.x = d.x
    BY <1>6, <1>8
  <2> QED
    BY ONLY <2>1, <2>2
<1>9. f \in Injection(R, P)
  BY <1>7, <1>8 DEF Injection, IsInjective
<1>10. IsFiniteSet(R)
  BY <1>4, <1>9, FS_Injection
<1> QED
  BY <1>5, <1>10

\* What the project has.
LEMMA LocalIs ==
    /\ Local.classes \in [Selectors -> Nat] /\ Local.classes[WORLD] > 0
    /\ Local.writers \subseteq Selectors \X Contracts /\ Local.owners \subseteq Selectors \X Contracts
BY MigrationAssumption

\* A call is its three parts.
LEMMA CallParts ==
    ASSUME NEW fn, NEW r, NEW x
    PROVE  /\ Call(fn, r, x).fn = fn /\ Call(fn, r, x).r = r /\ Call(fn, r, x).x = x
           /\ \A F, S, X : fn \in F /\ r \in S /\ x \in X => Call(fn, r, x) \in [fn : F, r : S, x : X]
BY DEF Call

\* The calls of the diff are calls, and finitely many.
LEMMA DiffCalls ==
    ASSUME NEW phase, NEW seen \in Worlds
    PROVE  CallsOf(phase, seen) \subseteq Calls /\ IsFiniteSet(CallsOf(phase, seen))
<1> DEFINE All == [fn : Fns, r : Selectors, x : Args] \cap Calls
<1>1. ASSUME NEW r \in Resources, Local.classes[r] > 0, NEW fn \in ResourceFns
      PROVE  Call(fn, r, Local.classes[r]) \in All
  <2>1. Local.classes[r] \in Nat \ {0} /\ Local.classes[r] \in Args /\ r \in Selectors /\ fn \in Fns
    BY <1>1, LocalIs, SelectorsAre DEF Args, Fns
  <2>2. Call(fn, r, Local.classes[r]) \in [fn : ResourceFns, r : Resources, x : Nat \ {0}]
    BY <2>1, CallParts
  <2>3. Call(fn, r, Local.classes[r]) \in [fn : Fns, r : Selectors, x : Args]
    BY <2>1, CallParts
  <2> QED
    BY <2>2, <2>3 DEF Calls
<1>2. ASSUME NEW fn \in {"deploy_world", "upgrade_world"}
      PROVE  Call(fn, WORLD, Local.classes[WORLD]) \in All
  <2>1. Local.classes[WORLD] \in Nat \ {0} /\ Local.classes[WORLD] \in Args /\ WORLD \in Selectors /\ fn \in Fns
    BY <1>2, LocalIs, SelectorsAre DEF Args, Fns
  <2>2. Call(fn, WORLD, Local.classes[WORLD]) \in [fn : {"deploy_world", "upgrade_world"}, r : {WORLD}, x : Nat \ {0}]
    BY <2>1, CallParts
  <2>3. Call(fn, WORLD, Local.classes[WORLD]) \in [fn : Fns, r : Selectors, x : Args]
    BY <2>1, CallParts
  <2> QED
    BY <2>2, <2>3 DEF Calls
<1>3. ASSUME NEW n \in Namespaces PROVE Call("register_namespace", n, 1) \in All
  <2>1. 1 \in Nat \ {0} /\ 1 \in Args /\ n \in Selectors /\ "register_namespace" \in Fns
    BY SelectorsAre DEF Args, Fns
  <2>2. Call("register_namespace", n, 1) \in [fn : {"register_namespace"}, r : Namespaces, x : Nat \ {0}]
    BY <2>1, CallParts
  <2>3. Call("register_namespace", n, 1) \in [fn : Fns, r : Selectors, x : Args]
    BY <2>1, CallParts
  <2> QED
    BY <2>2, <2>3 DEF Calls
<1>4. ASSUME NEW fn \in Grants, NEW p \in Selectors \X Contracts PROVE Call(fn, p[1], p[2]) \in All
  <2>1. p[1] \in Selectors /\ p[2] \in Addresses /\ p[2] \in Args /\ fn \in Fns
    BY SelectorsAre DEF Args, Fns
  <2>2. Call(fn, p[1], p[2]) \in [fn : Grants, r : Selectors, x : Addresses]
    BY <2>1, CallParts
  <2>3. Call(fn, p[1], p[2]) \in [fn : Fns, r : Selectors, x : Args]
    BY <2>1, CallParts
  <2> QED
    BY <2>2, <2>3 DEF Calls
<1>5. ASSUME NEW c \in Contracts PROVE Call("init_contract", c, 0) \in All
  <2>1. 0 \in Args /\ c \in Selectors /\ "init_contract" \in Fns
    BY SelectorsAre DEF Args, Fns
  <2>2. Call("init_contract", c, 0) \in [fn : {"init_contract"}, r : Contracts, x : {0}]
    BY <2>1, CallParts
  <2>3. Call("init_contract", c, 0) \in [fn : Fns, r : Selectors, x : Args]
    BY <2>1, CallParts
  <2> QED
    BY <2>2, <2>3 DEF Calls
<1> HIDE DEF All
<1>6. EnsureWorldCalls(seen) \subseteq All
  BY <1>2 DEF EnsureWorldCalls
<1>7. ResourceCalls(seen) \subseteq All
  <2>1. NamespaceCalls(seen) \subseteq All
    BY <1>3 DEF NamespaceCalls, LocalNames
  <2>2. ASSUME NEW kind, NEW register \in ResourceFns, NEW upgrade \in ResourceFns
        PROVE  SyncCalls(seen, kind, register, upgrade) \subseteq All
    <3>1. \A r \in LocalOf(kind) : r \in Resources /\ Local.classes[r] > 0
      BY DEF LocalOf, LocalNames
    <3> QED
      BY <1>1, <2>2, <3>1 DEF SyncCalls
  <2>3. LibraryCalls(seen) \subseteq All
    <3>1. \A r \in LocalOf("Library") : r \in Resources /\ Local.classes[r] > 0
      BY DEF LocalOf, LocalNames
    <3>2. "register_library" \in ResourceFns
      BY DEF ResourceFns
    <3> QED
      BY <1>1, <3>1, <3>2 DEF LibraryCalls
  <2>4. ContractCalls(seen) \subseteq All /\ ModelCalls(seen) \subseteq All /\ EventCalls(seen) \subseteq All
    BY <2>2 DEF ContractCalls, ModelCalls, EventCalls, ResourceFns
  <2> QED
    BY <2>1, <2>3, <2>4 DEF ResourceCalls
<1>8. PermissionCalls(seen) \subseteq All
  BY <1>4, LocalIs DEF PermissionCalls, Grants
<1>9. InitCalls(seen) \subseteq All
  <2>1. \A c \in LocalOf("Contract") : c \in Contracts
    BY DEF LocalOf, LocalNames, Contracts
  <2> QED
    BY <1>5, <2>1 DEF InitCalls
<1>10. CallsOf(phase, seen) \subseteq All
  BY <1>6, <1>7, <1>8, <1>9 DEF CallsOf
<1>11. CallsOf(phase, seen) \in SUBSET [fn : Fns, r : Selectors, x : Args] /\ CallsOf(phase, seen) \subseteq Calls
  BY <1>10 DEF All
<1> QED
  BY <1>11, FiniteCalls, FS_Subset

\* The classes that the diff declares.
LEMMA DiffDeclares ==
    ASSUME NEW phase, NEW seen \in Worlds
    PROVE  Declares(phase, seen) \subseteq Selectors \X Nat
<1>1. \A r \in Selectors : Local.classes[r] \in Nat
  BY LocalIs
<1>2. \A r \in LocalNames(Resources) : r \in Selectors
  BY SelectorsAre DEF LocalNames
<1>3. CASE phase = "world"
  BY <1>1, <1>3, SelectorsAre DEF Declares
<1>4. CASE phase = "resources"
  BY <1>1, <1>2, <1>4 DEF Declares
<1>5. CASE phase # "world" /\ phase # "resources"
  BY <1>5 DEF Declares
<1> QED
  BY <1>3, <1>4, <1>5

-----------------------------------------------------------------------------
(* A run *)

\* There is always a picture of the world that is empty.
LEMMA EmptyWorld == NoWorld \in Worlds
<1>1. [s \in Selectors |-> 0] \in [Selectors -> Nat]
  OBVIOUS
<1> QED
  BY <1>1 DEF NoWorld, Worlds

\* The parts of a run.
LEMMA RunIs ==
    ASSUME NEW m
    PROVE  m \in Runs <=>
              /\ m = [phase |-> m.phase, seen |-> m.seen, declares |-> m.declares, todo |-> m.todo,
                      tx |-> m.tx, status |-> m.status, final |-> m.final, waiting |-> m.waiting,
                      misled |-> m.misled, sequential |-> m.sequential]
              /\ m.phase \in Active \cup {"idle", "done", "failed"} /\ m.seen \in Worlds
              /\ m.declares \in SUBSET (Selectors \X Nat) /\ m.todo \in {S \in SUBSET Calls : IsFiniteSet(S)}
              /\ m.tx \in Seq(Calls) /\ m.status \in {"none", "sent", "ok", "reverted"}
              /\ m.final \in BOOLEAN /\ m.waiting \in BOOLEAN /\ m.misled \in BOOLEAN /\ m.sequential \in BOOLEAN
BY DEF Runs

\* A run goes on to another phase.
LEMMA PhaseEntered ==
    ASSUME NEW m \in Runs, NEW p \in Active \cup {"idle", "done", "failed"}, NEW seen \in Worlds,
           NEW declares \in SUBSET (Selectors \X Nat), NEW todo \in {S \in SUBSET Calls : IsFiniteSet(S)},
           ~m.waiting
    PROVE  Run([m EXCEPT !.phase = p, !.seen = seen, !.declares = declares, !.todo = todo])
<1>1. PICK n : n = [m EXCEPT !.phase = p, !.seen = seen, !.declares = declares, !.todo = todo]
  OBVIOUS
<1>2. n \in Runs
  BY <1>1 DEF Runs
<1>3. n.waiting = m.waiting
  BY <1>1 DEF Runs
<1> QED
  BY <1>1, <1>2, <1>3 DEF Run

\* The phases of a run.
LEMMA PhaseNames ==
    /\ \A j \in 1..4 : Phases[j] \in Active
    /\ \A j \in 1..5 : Phases[j] \in Active \cup {"idle", "done", "failed"}
    /\ \A p \in Active : \E j \in 1..4 : Phases[j] = p
BY DEF Phases, Active

\* A run enters the next phase that has something to do.
LEMMA EnterType ==
    ASSUME NEW m \in Runs, ~m.waiting, NEW i \in 1..5
    PROVE  Run(Enter(i, m))
<1> DEFINE works(k) == \/ Declares(Phases[k], m.seen) \ declared # {}
                       \/ CallsOf(Phases[k], m.seen) # {}
           T == {k \in i..4 : works(k)} \cup {5}
<1>1. PICK j : j = Min(T)
  OBVIOUS
<1>2. j \in 1..5
  <2>1. T \in SUBSET Nat /\ T # {} /\ T \subseteq 1..5
    <3> HIDE DEF works
    <3> QED
      OBVIOUS
  <2>2. \E x \in T : \A y \in T : x <= y
    <3> HIDE DEF T
    <3> QED
      BY <2>1, LeastElement
  <2>3. j \in T
    <3> HIDE DEF T
    <3> QED
      BY <1>1, <2>2 DEF Min
  <2> QED
    BY <2>1, <2>3
<1>3. PICK seen, declares, todo :
          /\ seen = IF j = 5 THEN NoWorld ELSE m.seen
          /\ declares = Declares(Phases[j], m.seen) \ declared
          /\ todo = CallsOf(Phases[j], m.seen)
  OBVIOUS
<1>4. Enter(i, m) = [m EXCEPT !.phase = Phases[j], !.seen = seen, !.declares = declares, !.todo = todo]
  BY <1>1, <1>3 DEF Enter
<1>5. m.seen \in Worlds
  BY RunIs
<1>6. seen \in Worlds
  BY <1>3, <1>5, EmptyWorld
<1>7. declares \in SUBSET (Selectors \X Nat)
  BY <1>3, <1>5, DiffDeclares
<1>8. todo \in {S \in SUBSET Calls : IsFiniteSet(S)}
  BY <1>3, <1>5, DiffCalls
<1>9. PICK p \in Active \cup {"idle", "done", "failed"} : p = Phases[j]
  BY <1>2, PhaseNames
<1>10. Run([m EXCEPT !.phase = p, !.seen = seen, !.declares = declares, !.todo = todo])
  BY ONLY m \in Runs, ~m.waiting, <1>6, <1>7, <1>8, <1>9, PhaseEntered
<1> QED
  BY ONLY <1>4, <1>9, <1>10

\* A run goes on in its phase or enters the next.
LEMMA GoOnType ==
    ASSUME NEW m \in Runs, ~m.waiting, m.phase \in Active
    PROVE  Run(GoOn(m))
<1>1. PICK j : j = CHOOSE k \in 1..4 : Phases[k] = m.phase
  OBVIOUS
<1>2. j \in 1..4
  BY <1>1, PhaseNames
<1>3. 1 + j \in 1..5
  BY <1>2
<1>4. Run(Enter(1 + j, m))
  BY <1>3, EnterType
<1>5. Run(m)
  BY DEF Run
<1> QED
  BY <1>1, <1>4, <1>5 DEF GoOn

\* The run of one account changes.
LEMMA RunsKept ==
    ASSUME NEW f, f = [b \in Accounts |-> f[b]], \A b \in Accounts : Run(f[b]), NEW a \in Accounts,
           NEW n, Run(n), NEW g, g = [f EXCEPT ![a] = n]
    PROVE  g = [b \in Accounts |-> g[b]] /\ \A b \in Accounts : Run(g[b])
<1>1. g = [b \in Accounts |-> IF b = a THEN n ELSE f[b]]
  OBVIOUS
<1>2. \A b \in Accounts : g[b] = IF b = a THEN n ELSE f[b]
  BY ONLY <1>1
<1>3. g = [b \in Accounts |-> g[b]]
  BY ONLY <1>1, <1>2
<1> QED
  BY ONLY <1>2, <1>3, Run(n), \A b \in Accounts : Run(f[b])

\* The transactions that a run may send have calls, and one at least.
LEMMA NextTxsType ==
    ASSUME MigInv, NEW a \in Accounts, NEW tx \in NextTxs(a)
    PROVE  tx \in Seq(Calls) /\ tx # <<>>
<1>1. PICK m : m = mig[a]
  OBVIOUS
<1>2. m.declares \subseteq Selectors \X Nat /\ m.todo \subseteq Calls /\ IsFiniteSet(m.todo)
  BY <1>1, RunIs DEF MigInv, Run
<1>3. CASE m.declares \ declared # {}
  <2>1. PICK d \in m.declares : tx = <<Call("declare", d[1], d[2])>>
    BY <1>1, <1>3 DEF NextTxs
  <2>2. d[1] \in Selectors /\ d[2] \in Nat /\ "declare" \in {"declare"}
    BY <1>2
  <2>3. Call("declare", d[1], d[2]) \in [fn : {"declare"}, r : Selectors, x : Nat]
    BY ONLY <2>2 DEF Call
  <2>4. Call("declare", d[1], d[2]) \in Calls
    BY <2>3 DEF Calls
  <2> QED
    BY <2>1, <2>4
<1>4. CASE ~(m.declares \ declared # {}) /\ ~m.sequential /\ m.todo # {}
  <2>1. tx \in InOrder(m.todo)
    BY <1>1, <1>4 DEF NextTxs
  <2>2. tx \in Seq(m.todo) /\ tx # <<>>
    BY <1>2, <1>4, <2>1, InOrderType
  <2> QED
    BY <1>2, <2>2
<1>5. CASE ~(m.declares \ declared # {}) /\ ~(~m.sequential /\ m.todo # {})
  <2>1. PICK c \in First(m.todo) : tx = <<c>>
    BY <1>1, <1>5 DEF NextTxs
  <2>2. c \in Calls
    BY <1>2, <2>1 DEF First
  <2> QED
    BY <2>1, <2>2
<1> QED
  BY <1>3, <1>4, <1>5

-----------------------------------------------------------------------------
(* The steps *)

\* A step of a run leaves the chain alone.
LEMMA RunStep ==
    ASSUME MigInv, NEW a \in Accounts, NEW n, Run(n), mig' = [mig EXCEPT ![a] = n],
           UNCHANGED <<chain, mined>>
    PROVE  MigInv'
<1>1. PICK f, g : f = mig /\ g = mig'
  OBVIOUS
<1>2. f = [b \in Accounts |-> f[b]] /\ (\A b \in Accounts : Run(f[b])) /\ g = [f EXCEPT ![a] = n]
  BY <1>1 DEF MigInv
<1>3. g = [b \in Accounts |-> g[b]] /\ \A b \in Accounts : Run(g[b])
  BY ONLY <1>2, a \in Accounts, Run(n), RunsKept
<1>4. mig' = [b \in Accounts |-> mig'[b]] /\ \A b \in Accounts : Run(mig'[b])
  BY ONLY <1>1, <1>3
<1>5. ChainInv(world', remote') /\ mined' \in Worlds
  BY DEF MigInv, chain
<1> QED
  BY <1>4, <1>5 DEF MigInv

\* What the runs are.
LEMMA RunsAre ==
    ASSUME MigInv, NEW a \in Accounts
    PROVE  Run(mig[a]) /\ mig[a] \in Runs /\ mig = [b \in Accounts |-> mig[b]]
BY DEF MigInv, Run

\* The whole of Fail.
LEMMA FailIs ==
    ASSUME MigInv, NEW a \in Accounts
    PROVE  /\ Fail(a) = [mig EXCEPT ![a] = Fail(a)[a]]
           /\ Fail(a)[a] = [mig[a] EXCEPT !.phase = "failed", !.seen = NoWorld, !.declares = {}, !.todo = {},
                                          !.waiting = FALSE]
BY RunsAre DEF Fail

\* A failed run keeps its transaction, if any.
LEMMA FailKeeps ==
    ASSUME MigInv, NEW a \in Accounts
    PROVE  Run(Fail(a)[a])
<1>1. PICK m, n : m = mig[a] /\ n = Fail(a)[a]
  OBVIOUS
<1>2. m \in Runs
  BY <1>1, RunsAre
<1>3. n = [m EXCEPT !.phase = "failed", !.seen = NoWorld, !.declares = {}, !.todo = {}, !.waiting = FALSE]
  BY <1>1, FailIs
<1>4. NoWorld \in Worlds /\ {} \in {S \in SUBSET Calls : IsFiniteSet(S)}
  BY EmptyWorld, FS_EmptySet
<1>5. n \in Runs
  BY ONLY <1>2, <1>3, <1>4 DEF Runs
<1>6. ~n.waiting
  BY ONLY <1>2, <1>3 DEF Runs
<1> QED
  BY <1>1, <1>5, <1>6 DEF Run

\* A run reads its diff, or panics on a world without mined events.
LEMMA ReadDiffKeeps ==
    ASSUME MigInv, NEW a \in Accounts, ReadDiff(a)
    PROVE  MigInv'
<1>0. UNCHANGED <<chain, mined>>
  BY DEF ReadDiff
<1>1. CASE mig' = Fail(a)
  <2>1. mig' = [mig EXCEPT ![a] = Fail(a)[a]]
    BY <1>1, FailIs
  <2> QED
    BY <1>0, <2>1, FailKeeps, RunStep
<1>2. CASE mig' # Fail(a)
  <2>1. PICK m, n : m = mig[a] /\ n = [m EXCEPT !.seen = mined, !.misled = FALSE]
    OBVIOUS
  <2>2. mig' = [mig EXCEPT ![a] = Enter(1, n)] /\ m.phase \in {"idle", "done", "failed"}
    BY <1>2, <2>1 DEF ReadDiff
  <2>3. mined \in Worlds /\ m \in Runs /\ Run(m)
    BY <2>1, RunsAre DEF MigInv
  <2>4. ~m.waiting
    BY <2>2, <2>3 DEF Run, Active, Phases
  <2>5. n \in Runs /\ n.waiting = m.waiting
    BY <2>1, <2>3 DEF Runs
  <2>6. Run(Enter(1, n))
    BY <2>4, <2>5, EnterType
  <2> QED
    BY <1>0, <2>2, <2>6, RunStep
<1> QED
  BY <1>1, <1>2

\* A run sends its next transaction and waits for it.
LEMMA SendKeeps ==
    ASSUME MigInv, NEW a \in Accounts, Send(a)
    PROVE  MigInv'
<1>1. PICK tx \in NextTxs(a) :
          mig' = [mig EXCEPT ![a].tx = tx, ![a].status = "sent", ![a].final = FALSE, ![a].waiting = TRUE]
  BY DEF Send
<1>2. tx \in Seq(Calls) /\ tx # <<>>
  BY <1>1, NextTxsType
<1>3. PICK m, n : m = mig[a] /\ n = [m EXCEPT !.tx = tx, !.status = "sent", !.final = FALSE, !.waiting = TRUE]
  OBVIOUS
<1>4. mig' = [mig EXCEPT ![a] = n]
  BY <1>1, <1>3, RunsAre
<1>5. m \in Runs /\ m.phase \in Active
  BY <1>3, RunsAre DEF Send, Ready
<1>6. n \in Runs /\ n.phase = m.phase /\ n.tx = tx
  BY ONLY <1>2, <1>3, <1>5 DEF Runs
<1>7. Run(n)
  BY <1>2, <1>5, <1>6 DEF Run
<1>8. UNCHANGED <<chain, mined>>
  BY DEF Send
<1> QED
  BY <1>4, <1>7, <1>8, RunStep

\* A transaction is refused before it is sent.
LEMMA SendRefusedKeeps ==
    ASSUME MigInv, NEW a \in Accounts, SendRefused(a)
    PROVE  MigInv'
<1>1. mig' = [mig EXCEPT ![a] = Fail(a)[a]] /\ UNCHANGED <<chain, mined>>
  BY FailIs DEF SendRefused
<1> QED
  BY <1>1, FailKeeps, RunStep

\* What is left of a phase.
LEMMA ConsumedType ==
    ASSUME NEW m \in Runs
    PROVE  Consumed(m) \in Runs /\ Consumed(m).phase = m.phase
<1>1. CASE m.tx[1].fn = "declare"
  <2>1. PICK d : d = m.declares \ {<<m.tx[1].r, m.tx[1].x>>}
    OBVIOUS
  <2>2. Consumed(m) = [m EXCEPT !.declares = d]
    BY <1>1, <2>1 DEF Consumed
  <2>3. d \in SUBSET (Selectors \X Nat)
    BY <2>1 DEF Runs
  <2> QED
    BY ONLY <2>2, <2>3, m \in Runs DEF Runs
<1>2. CASE m.tx[1].fn # "declare"
  <2>1. PICK t : t = m.todo \ ToSet(m.tx)
    OBVIOUS
  <2>2. Consumed(m) = [m EXCEPT !.todo = t]
    BY <1>2, <2>1 DEF Consumed
  <2>3. m.todo \subseteq Calls /\ IsFiniteSet(m.todo)
    BY DEF Runs
  <2>4. t \in SUBSET m.todo
    BY <2>1
  <2>5. t \in {S \in SUBSET Calls : IsFiniteSet(S)}
    BY <2>3, <2>4, FS_Subset
  <2> QED
    BY ONLY <2>2, <2>5, m \in Runs DEF Runs
<1> QED
  BY <1>1, <1>2

\* The waiter is content with the receipt.
LEMMA WaitOkKeeps ==
    ASSUME MigInv, NEW a \in Accounts, WaitOk(a)
    PROVE  MigInv'
<1>1. PICK m, c, lie : m = mig[a] /\ c = Consumed(m) /\ lie = (c.misled \/ m.status = "reverted")
  OBVIOUS
<1>2. PICK n : n = [c EXCEPT !.waiting = FALSE, !.tx = <<>>, !.status = "none", !.final = FALSE, !.misled = lie]
  OBVIOUS
<1>3. mig' = [mig EXCEPT ![a] = GoOn(n)] /\ m.waiting /\ UNCHANGED <<chain, mined>>
  BY <1>1, <1>2 DEF WaitOk
<1>4. m \in Runs /\ m.phase \in Active
  BY <1>1, <1>3, RunsAre DEF Run
<1>5. c \in Runs /\ c.phase = m.phase
  BY <1>1, <1>4, ConsumedType
<1>6. lie \in BOOLEAN /\ <<>> \in Seq(Calls)
  BY <1>1
<1>7. n \in Runs /\ n.phase = c.phase /\ ~n.waiting
  BY ONLY <1>2, <1>5, <1>6 DEF Runs
<1>8. Run(GoOn(n))
  BY <1>4, <1>5, <1>7, GoOnType
<1> QED
  BY <1>3, <1>8, RunStep

\* The waiter reports that the transaction was reverted.
LEMMA WaitErrKeeps ==
    ASSUME MigInv, NEW a \in Accounts, WaitErr(a)
    PROVE  MigInv'
<1>1. PICK m, f : m = mig[a] /\ f = Fail(a)
  OBVIOUS
<1>2. PICK n : n = [f[a] EXCEPT !.tx = <<>>, !.status = "none", !.final = FALSE]
  OBVIOUS
<1>3. f = [mig EXCEPT ![a] = f[a]] /\ mig = [b \in Accounts |-> mig[b]]
  BY <1>1, FailIs, RunsAre
<1>4. mig' = [f EXCEPT ![a].tx = <<>>, ![a].status = "none", ![a].final = FALSE] /\ UNCHANGED <<chain, mined>>
  BY <1>1 DEF WaitErr
<1>5. mig' = [mig EXCEPT ![a] = n]
  BY ONLY <1>2, <1>3, <1>4, a \in Accounts
<1>6. Run(f[a])
  BY <1>1, FailKeeps
<1>7. f[a] \in Runs /\ ~f[a].waiting
  BY <1>1, <1>6, FailIs, RunsAre DEF Run, Runs
<1>8. n \in Runs /\ ~n.waiting
  <2>1. <<>> \in Seq(Calls)
    OBVIOUS
  <2> QED
    BY ONLY <1>2, <1>7, <2>1 DEF Runs
<1>9. Run(n)
  BY <1>8 DEF Run
<1> QED
  BY <1>4, <1>5, <1>9, RunStep

\* A run stops where it is; its transaction may still be executed.
LEMMA InterruptedKeeps ==
    ASSUME MigInv, NEW a \in Accounts, Interrupted(a)
    PROVE  MigInv'
<1>1. PICK f, tx, st : /\ f = Fail(a)
                       /\ tx = IF mig[a].status = "sent" THEN f[a].tx ELSE <<>>
                       /\ st = IF mig[a].status = "sent" THEN f[a].status ELSE "none"
  OBVIOUS
<1>2. PICK n : n = [f[a] EXCEPT !.tx = tx, !.status = st, !.final = FALSE]
  OBVIOUS
<1>3. f = [mig EXCEPT ![a] = f[a]] /\ mig = [b \in Accounts |-> mig[b]]
  BY <1>1, FailIs, RunsAre
<1>4. mig' = [f EXCEPT ![a].tx = tx, ![a].status = st, ![a].final = FALSE] /\ UNCHANGED <<chain, mined>>
  BY <1>1 DEF Interrupted
<1>5. mig' = [mig EXCEPT ![a] = n]
  BY ONLY <1>2, <1>3, <1>4, a \in Accounts
<1>6. Run(f[a])
  BY <1>1, FailKeeps
<1>7. f[a] \in Runs /\ ~f[a].waiting
  BY <1>1, <1>6, FailIs, RunsAre DEF Run, Runs
<1>8. tx \in Seq(Calls) /\ st \in {"none", "sent", "ok", "reverted"}
  BY <1>1, <1>7 DEF Runs
<1>9. n \in Runs /\ ~n.waiting
  BY ONLY <1>2, <1>7, <1>8 DEF Runs
<1>10. Run(n)
  BY <1>9 DEF Run
<1> QED
  BY <1>4, <1>5, <1>10, RunStep

\* The chain is in agreement before a transaction.
LEMMA NowGood == ASSUME MigInv PROVE Good(Now)
<1>1. Now.world = world /\ Now.remote = remote /\ Now.declared = declared /\ Now.ok = TRUE
  BY DEF Now
<1>2. Now = [world |-> Now.world, declared |-> Now.declared, remote |-> Now.remote, ok |-> Now.ok]
  BY <1>1 DEF Now
<1> QED
  BY <1>1, <1>2 DEF Good, MigInv

\* The sequencer executes a transaction of a run.
LEMMA ExecuteKeeps ==
    ASSUME MigInv, NEW a \in Accounts, Execute(a)
    PROVE  MigInv'
<1>1. PICK s \in Outcomes(a, mig[a].tx) :
          /\ IF s.ok THEN Take(s) ELSE UNCHANGED chain
          /\ mig' = [mig EXCEPT ![a].status = IF s.ok THEN "ok" ELSE "reverted", ![a].final = FALSE]
  BY DEF Execute
<1>2. mig[a].tx \in Seq(Calls)
  BY RunsAre DEF Runs
<1>3. Good(s)
  BY <1>1, <1>2, NowGood, OutcomesGood
<1>4. ChainInv(world', remote') /\ mined' \in Worlds
  <2>1. mined' = mined
    BY DEF Execute
  <2>2. ChainInv(world', remote')
    BY <1>1, <1>3 DEF Take, Good, chain, MigInv
  <2> QED
    BY <2>1, <2>2 DEF MigInv
<1>5. PICK f, g, st : f = mig /\ g = mig' /\ st = IF s.ok THEN "ok" ELSE "reverted"
  OBVIOUS
<1>6. PICK n : n = [f[a] EXCEPT !.status = st, !.final = FALSE]
  OBVIOUS
<1>7. f = [b \in Accounts |-> f[b]] /\ (\A b \in Accounts : Run(f[b]))
  BY <1>5 DEF MigInv
<1>8. g = [f EXCEPT ![a] = n]
  <2>1. g = [f EXCEPT ![a].status = st, ![a].final = FALSE]
    BY <1>1, <1>5
  <2> QED
    BY ONLY <1>6, <1>7, <2>1, a \in Accounts
<1>9. Run(n)
  <2>1. f[a] \in Runs /\ (f[a].waiting => f[a].phase \in Active /\ f[a].tx # <<>>)
    BY <1>7 DEF Run
  <2>2. st \in {"none", "sent", "ok", "reverted"}
    BY <1>5
  <2>3. n \in Runs /\ n.waiting = f[a].waiting /\ n.phase = f[a].phase /\ n.tx = f[a].tx
    BY ONLY <1>6, <2>1, <2>2 DEF Runs
  <2> QED
    BY <2>1, <2>3 DEF Run
<1>10. g = [b \in Accounts |-> g[b]] /\ \A b \in Accounts : Run(g[b])
  BY ONLY <1>7, <1>8, <1>9, a \in Accounts, RunsKept
<1> QED
  BY <1>4, <1>5, <1>10 DEF MigInv

\* A block is mined.
LEMMA MineBlockKeeps ==
    ASSUME MigInv, MineBlock
    PROVE  MigInv'
<1>1. PICK f, g : f = mig /\ g = mig'
  OBVIOUS
<1>2. g = [b \in Accounts |-> [f[b] EXCEPT !.final = f[b].status = "reverted"]]
  BY <1>1 DEF MineBlock
<1>3. ASSUME NEW b \in Accounts PROVE Run(g[b])
  <2>1. PICK m, n, fin : m = f[b] /\ n = g[b] /\ fin = (m.status = "reverted")
    OBVIOUS
  <2>2. n = [m EXCEPT !.final = fin]
    BY <1>2, <2>1
  <2>3. m \in Runs /\ (m.waiting => m.phase \in Active /\ m.tx # <<>>)
    BY <1>1, <2>1 DEF MigInv, Run
  <2>4. fin \in BOOLEAN
    BY <2>1
  <2>5. n \in Runs /\ n.waiting = m.waiting /\ n.phase = m.phase /\ n.tx = m.tx
    BY ONLY <2>2, <2>3, <2>4 DEF Runs
  <2> QED
    BY <2>1, <2>3, <2>5 DEF Run
<1>4. g = [b \in Accounts |-> g[b]]
  BY <1>2
<1>5. ChainInv(world', remote') /\ mined' \in Worlds
  BY DEF MineBlock, chain, MigInv, ChainInv
<1> QED
  BY <1>1, <1>3, <1>4, <1>5 DEF MigInv

\* A call of sozo auth.
LEMMA AuthorizeKeeps ==
    ASSUME MigInv, NEW a \in Accounts, Authorize(a)
    PROVE  MigInv'
<1>0. PICK c \in AuthCalls : \E s \in Outcomes(a, <<c>>) : Take(s)
  BY DEF Authorize
<1>1. PICK s \in Outcomes(a, <<c>>) : Take(s)
  BY <1>0
<1>2. c \in Calls
  BY <1>0, MigrationAssumption DEF Calls
<1>3. <<c>> \in Seq(Calls)
  BY ONLY <1>2
<1>4. Good(s)
  BY <1>1, <1>3, NowGood, OutcomesGood
<1>5. ChainInv(world', remote')
  BY <1>1, <1>4 DEF Take, Good
<1>6. mined' = mined /\ mig' = mig
  BY DEF Authorize
<1> QED
  BY <1>5, <1>6 DEF MigInv

-----------------------------------------------------------------------------
(* The theorems *)

\* The invariant holds of the chain that an earlier migration left, and of runs not started.
LEMMA InitMigInv == Init => MigInv
<1> SUFFICES ASSUME Init PROVE MigInv
  OBVIOUS
<1>1. PICK s \in Starts :
          /\ world = s.world /\ remote = s.remote /\ mined = s.remote
          /\ mig = [a \in Accounts |-> [NewRun EXCEPT !.sequential = a \in s.sequential]]
  BY DEF Init
<1>2. ChainInv(world, remote) /\ mined \in Worlds
  BY <1>1, MigrationAssumption DEF ChainInv
<1>3. ASSUME NEW a \in Accounts PROVE Run(mig[a])
  <2>1. PICK m, sq : m = mig[a] /\ sq = (a \in s.sequential)
    OBVIOUS
  <2>2. m = [NewRun EXCEPT !.sequential = sq] /\ sq \in BOOLEAN
    BY <1>1, <2>1
  <2>3. NoWorld \in Worlds /\ {} \in {S \in SUBSET Calls : IsFiniteSet(S)} /\ <<>> \in Seq(Calls)
    BY EmptyWorld, FS_EmptySet
  <2>4. NewRun \in Runs /\ ~NewRun.waiting
    BY <2>3 DEF NewRun, Runs
  <2>5. m \in Runs /\ ~m.waiting
    BY ONLY <2>2, <2>4 DEF Runs
  <2> QED
    BY <2>1, <2>5 DEF Run
<1>4. mig = [a \in Accounts |-> mig[a]]
  BY <1>1
<1> QED
  BY <1>2, <1>3, <1>4 DEF MigInv

\* Every step keeps the invariant.
LEMMA NextMigInv == MigInv /\ [Next]_vars => MigInv'
<1> SUFFICES ASSUME MigInv, [Next]_vars PROVE MigInv'
  OBVIOUS
<1>1. CASE MineBlock
  BY <1>1, MineBlockKeeps
<1>2. ASSUME NEW a \in Accounts, ReadDiff(a) \/ Interrupted(a) \/ Execute(a) \/ Authorize(a) PROVE MigInv'
  BY <1>2, ReadDiffKeeps, InterruptedKeeps, ExecuteKeeps, AuthorizeKeeps
<1>3. ASSUME NEW a \in Accounts, Step(a) PROVE MigInv'
  BY <1>3, SendKeeps, SendRefusedKeeps, WaitOkKeeps, WaitErrKeeps DEF Step
<1>4. CASE UNCHANGED vars
  BY <1>4 DEF vars, MigInv
<1> QED
  BY <1>1, <1>2, <1>3, <1>4 DEF Next

\* The invariant holds in every reachable state.
THEOREM ChainStaysInAgreement == Spec => []MigInv
BY InitMigInv, NextMigInv, PTL DEF Spec

\* Whatever runs interleave, and wherever they stop, match_event rebuilds the classes, the
\* initialised contracts, the writers and the owners of the world from its events, and the
\* contracts that own something; it misses only accounts that own what they registered.
THEOREM RemoteStaysRebuilt == Spec => []RemoteMatches
<1>1. MigInv => RemoteMatches
  BY DEF MigInv, ChainInv, RemoteMatches
<1> QED
  BY <1>1, ChainStaysInAgreement, PTL

\* No right is ever on a selector at which nothing is registered, whichever registration was
\* reverted before the grants were sent; nothing is registered before the world; and the
\* variables keep their types.
THEOREM RightsStayOnRegistered == Spec => []RightsOnRegistered
<1>1. MigInv => RightsOnRegistered
  <2> SUFFICES ASSUME MigInv PROVE RightsOnRegistered
    OBVIOUS
  <2>1. world \in Worlds /\ remote \in Worlds /\ mined \in Worlds /\ RightsRooted(world)
    BY DEF MigInv, ChainInv
  <2>2. ASSUME NEW a \in Accounts
        PROVE  /\ mig[a].seen \in Worlds /\ mig[a].phase \in Active \cup {"idle", "done", "failed"}
               /\ mig[a].status \in {"none", "sent", "ok", "reverted"}
               /\ mig[a].waiting => mig[a].phase \in Active /\ mig[a].tx # <<>>
    BY RunsAre DEF Run, Runs
  <2> QED
    BY <2>1, <2>2 DEF RightsOnRegistered, TypeInv
<1> QED
  BY <1>1, ChainStaysInAgreement, PTL

-----------------------------------------------------------------------------
(* What a run may rely on *)

ClassFns == Registrations \cup Upgrades

\* A call that takes nothing away that the project has.
Harmless(c) ==
    /\ c.fn \in ClassFns => c.r \in LocalNames(Selectors) /\ c.x = Local.classes[c.r]
    /\ c.fn = "revoke_writer" => <<c.r, c.x>> \notin Local.writers
    /\ c.fn = "revoke_owner" => <<c.r, c.x>> \notin Local.owners

\* A call that brings the world closer to the project.
IsLocal(c) ==
    /\ Harmless(c)
    /\ c.fn = "grant_writer" => <<c.r, c.x>> \in Local.writers
    /\ c.fn = "grant_owner" => <<c.r, c.x>> \in Local.owners

\* What the call was for is there.
Done(c, w) ==
    /\ c.fn \in ClassFns => w.classes[c.r] = c.x
    /\ c.fn = "grant_writer" => <<c.r, c.x>> \in w.writers
    /\ c.fn = "grant_owner" => <<c.r, c.x>> \in w.owners
    /\ c.fn = "init_contract" => c.r \in w.initialized

\* What u has of the project, v has too.
Ahead(u, v) ==
    /\ \A s \in LocalNames(Selectors) : u.classes[s] = Local.classes[s] => v.classes[s] = Local.classes[s]
    /\ u.writers \cap Local.writers \subseteq v.writers
    /\ u.owners \cap Local.owners \subseteq v.owners
    /\ u.initialized \subseteq v.initialized

\* Every call that the diff of the run asks for has done its work, is still to be sent in
\* the i-th phase or belongs to a later one.
Covered(m, i, w) ==
    \A k \in 1..4 : \A c \in CallsOf(Phases[k], m.seen) : Done(c, w) \/ c \in m.todo \/ k > i

SyncedIn(w) ==
    /\ \A s \in LocalNames(Selectors) : w.classes[s] = Local.classes[s]
    /\ Local.writers \subseteq w.writers /\ Local.owners \subseteq w.owners
    /\ LocalNames(Contracts) \subseteq w.initialized

OnTrack(m, w) ==
    /\ \A c \in m.todo : IsLocal(c)
    /\ \A i \in DOMAIN m.tx : IsLocal(m.tx[i])
    /\ m.status = "ok" => \A i \in DOMAIN m.tx : Done(m.tx[i], w)
    /\ m.phase \in Active => Ahead(m.seen, w) /\ PlainNamespaces(m.seen.classes)
    /\ ~m.misled => \A i \in 1..4 : m.phase = Phases[i] => Covered(m, i, w)
    /\ m.phase = "done" /\ ~m.misled => SyncedIn(w)

TrackInv ==
    /\ PlainNamespaces(world.classes) /\ PlainNamespaces(mined.classes) /\ Ahead(mined, world)
    /\ \A a \in Accounts : OnTrack(mig[a], world)

\* Nothing that the project has is revoked by hand.
KeepsLocal == \A c \in AuthCalls : Harmless(c)

\* The parts of Local.
LEMMA LocalPlain == \A n \in Namespaces : Local.classes[n] \in Nat /\ Local.classes[n] <= 1
BY MigrationAssumption, LocalIs, SelectorsAre DEF PlainNamespaces

\* Ahead is a preorder.
LEMMA AheadSelf == ASSUME NEW w PROVE Ahead(w, w)
BY DEF Ahead

\* What was there first is there last.
LEMMA AheadTrans == ASSUME NEW u, NEW v, NEW w, Ahead(u, v), Ahead(v, w) PROVE Ahead(u, w)
<1>1. u.writers \cap Local.writers \subseteq w.writers /\ u.owners \cap Local.owners \subseteq w.owners
  BY DEF Ahead
<1>2. u.initialized \subseteq w.initialized
  BY DEF Ahead
<1>3. \A s \in LocalNames(Selectors) : u.classes[s] = Local.classes[s] => w.classes[s] = Local.classes[s]
  BY DEF Ahead
<1> QED
  BY <1>1, <1>2, <1>3 DEF Ahead

\* The work of a call is not undone.
LEMMA DoneStays ==
    ASSUME NEW c, IsLocal(c), NEW u, NEW v, Ahead(u, v), Done(c, u)
    PROVE  Done(c, v)
<1>1. c.fn \in ClassFns => v.classes[c.r] = c.x
  BY DEF IsLocal, Harmless, Ahead, Done
<1>2. c.fn = "grant_writer" => <<c.r, c.x>> \in v.writers
  BY DEF IsLocal, Ahead, Done
<1>3. c.fn = "grant_owner" => <<c.r, c.x>> \in v.owners
  BY DEF IsLocal, Ahead, Done
<1>4. c.fn = "init_contract" => c.r \in v.initialized
  BY DEF Ahead, Done
<1> QED
  BY <1>1, <1>2, <1>3, <1>4 DEF Done

\* A world that matches the project goes on to match it.
LEMMA SyncedStays ==
    ASSUME NEW u, NEW v, Ahead(u, v), SyncedIn(u)
    PROVE  SyncedIn(v)
<1>1. \A s \in LocalNames(Selectors) : v.classes[s] = Local.classes[s]
  BY DEF Ahead, SyncedIn
<1>2. Local.writers \subseteq v.writers
  BY DEF Ahead, SyncedIn
<1>3. Local.owners \subseteq v.owners
  BY DEF Ahead, SyncedIn
<1>4. LocalNames(Contracts) \subseteq v.initialized
  BY DEF Ahead, SyncedIn
<1> QED
  BY <1>1, <1>2, <1>3, <1>4 DEF SyncedIn

\* A picture of the world is not ahead of it.
LEMMA PictureBehind ==
    ASSUME NEW w, NEW m, ChainInv(w, m)
    PROVE  Ahead(m, w) /\ m.classes = w.classes
<1>1. m.classes = w.classes /\ m.writers = w.writers /\ m.initialized = w.initialized /\ m.owners \subseteq w.owners
  BY DEF ChainInv, Rebuilt
<1> QED
  BY <1>1 DEF Ahead

\* A class of the project is written.
LEMMA ClassForwards ==
    ASSUME NEW w \in Worlds, NEW r \in LocalNames(Selectors), NEW n,
           \A s \in Selectors : n.classes[s] = IF s = r THEN Local.classes[r] ELSE w.classes[s],
           w.owners \subseteq n.owners, n.writers = w.writers, n.initialized = w.initialized
    PROVE  /\ Ahead(w, n) /\ n.classes[r] = Local.classes[r]
           /\ PlainNamespaces(w.classes) => PlainNamespaces(n.classes)
<1>1. w.classes \in [Selectors -> Nat] /\ r \in Selectors
  BY WorldIs DEF LocalNames
<1>2. n.classes[r] = Local.classes[r] /\ \A s \in Selectors : s # r => n.classes[s] = w.classes[s]
  BY <1>1
<1>3. \A s \in LocalNames(Selectors) : w.classes[s] = Local.classes[s] => n.classes[s] = Local.classes[s]
  BY <1>2 DEF LocalNames
<1>4. Ahead(w, n)
  BY <1>3 DEF Ahead
<1>5. PlainNamespaces(w.classes) => PlainNamespaces(n.classes)
  <2>1. \A p \in Namespaces : p \in Selectors
    BY SelectorsAre
  <2> QED
    BY <1>2, <2>1, LocalPlain DEF PlainNamespaces
<1> QED
  BY <1>2, <1>4, <1>5

\* Another right, or another initialised contract.
LEMMA RestForwards ==
    ASSUME NEW w, NEW n, n.classes = w.classes, w.owners \cap Local.owners \subseteq n.owners,
           w.writers \cap Local.writers \subseteq n.writers, w.initialized \subseteq n.initialized
    PROVE  Ahead(w, n) /\ (PlainNamespaces(w.classes) => PlainNamespaces(n.classes))
BY DEF Ahead

\* A harmless call does what it is for, and undoes nothing.
LEMMA CallForwards ==
    ASSUME NEW w \in Worlds, NEW a \in Accounts, NEW c \in Calls, c.fn # "declare", Harmless(c)
    PROVE  /\ Ahead(w, Effect(w, a, c)) /\ Done(c, Effect(w, a, c))
           /\ PlainNamespaces(w.classes) => PlainNamespaces(Effect(w, a, c).classes)
<1>1. PICK n : n = Effect(w, a, c)
  OBVIOUS
<1>2. w = [classes |-> w.classes, owners |-> w.owners, writers |-> w.writers, initialized |-> w.initialized]
  BY WorldIs
<1>3. CASE c.fn \in ClassFns
  <2>1. c.r \in LocalNames(Selectors) /\ c.x = Local.classes[c.r] /\ c.r \in Selectors
    BY <1>3 DEF Harmless, LocalNames
  <2>2. /\ n.classes = [w.classes EXCEPT ![c.r] = c.x] /\ w.owners \subseteq n.owners
        /\ n.writers = w.writers /\ n.initialized = w.initialized
    <3>1. CASE c.fn \in Registrations
      <4>1. n = RegisterEffect(w, a, c)
        BY <1>1, <3>1 DEF Effect, Registrations, Upgrades, Grants
      <4> QED
        BY <1>2, <4>1 DEF RegisterEffect
    <3>2. CASE c.fn \in Upgrades
      <4>1. n = [w EXCEPT !.classes[c.r] = c.x]
        BY <1>1, <3>2 DEF Effect, Registrations, Upgrades, Grants
      <4> QED
        BY <1>2, <4>1
    <3> QED
      BY <1>3, <3>1, <3>2 DEF ClassFns
  <2>3. PICK r \in LocalNames(Selectors) : r = c.r /\ c.x = Local.classes[r]
    BY <2>1
  <2>4. \A s \in Selectors : n.classes[s] = IF s = r THEN Local.classes[r] ELSE w.classes[s]
    <3>1. w.classes \in [Selectors -> Nat]
      BY WorldIs
    <3> QED
      BY ONLY <2>2, <2>3, <3>1
  <2>5. /\ Ahead(w, n) /\ n.classes[r] = Local.classes[r]
        /\ PlainNamespaces(w.classes) => PlainNamespaces(n.classes)
    BY ONLY w \in Worlds, <2>2, <2>3, <2>4, ClassForwards
  <2>6. Done(c, n)
    BY <1>3, <2>3, <2>5 DEF Done, ClassFns, Registrations, Upgrades
  <2> QED
    BY <1>1, <2>5, <2>6
<1>4. CASE c.fn \in Grants \cup {"init_contract"}
  <2>1. PICK p : p = <<c.r, c.x>>
    OBVIOUS
  <2>2. PICK owners, writers, initialized :
            /\ owners = IF c.fn = "grant_owner" THEN w.owners \cup {p}
                        ELSE IF c.fn = "revoke_owner" THEN w.owners \ {p} ELSE w.owners
            /\ writers = IF c.fn = "grant_writer" THEN w.writers \cup {p}
                         ELSE IF c.fn = "revoke_writer" THEN w.writers \ {p} ELSE w.writers
            /\ initialized = IF c.fn = "init_contract" THEN w.initialized \cup {c.r} ELSE w.initialized
    OBVIOUS
  <2>3. n.classes = w.classes /\ n.owners = owners /\ n.writers = writers /\ n.initialized = initialized
    <3>1. CASE c.fn = "init_contract"
      <4>1. n = InitEffect(w, c.r)
        BY <1>1, <3>1 DEF Effect, Registrations, Upgrades, Grants
      <4> QED
        BY <1>2, <2>2, <3>1, <4>1 DEF InitEffect
    <3>2. CASE c.fn \in Grants
      <4>1. n = GrantEffect(w, c)
        BY <1>1, <3>2 DEF Effect, Registrations, Upgrades, Grants
      <4>2. CASE c.fn = "grant_owner"
        BY <1>2, <2>1, <2>2, <4>1, <4>2 DEF GrantEffect
      <4>3. CASE c.fn = "revoke_owner"
        BY <1>2, <2>1, <2>2, <4>1, <4>3 DEF GrantEffect
      <4>4. CASE c.fn = "grant_writer"
        BY <1>2, <2>1, <2>2, <4>1, <4>4 DEF GrantEffect
      <4>5. CASE c.fn = "revoke_writer"
        BY <1>2, <2>1, <2>2, <4>1, <4>5 DEF GrantEffect
      <4> QED
        BY <3>2, <4>2, <4>3, <4>4, <4>5 DEF Grants
    <3> QED
      BY <1>4, <3>1, <3>2
  <2>4. w.owners \cap Local.owners \subseteq owners /\ w.writers \cap Local.writers \subseteq writers
    BY <2>1, <2>2 DEF Harmless
  <2>5. w.initialized \subseteq initialized
    BY <2>2
  <2>6. Ahead(w, n) /\ (PlainNamespaces(w.classes) => PlainNamespaces(n.classes))
    BY ONLY <2>3, <2>4, <2>5, RestForwards
  <2>7. Done(c, n)
    BY <1>4, <2>1, <2>2, <2>3 DEF Done, ClassFns, Registrations, Upgrades, Grants
  <2> QED
    BY <1>1, <2>6, <2>7
<1> QED
  BY <1>3, <1>4, CallIs DEF ClassFns, ResourceFns, Registrations, Upgrades

\* A transaction up to its n-th call: if none of them failed, all have done their work.
Forwards(s, n, w, tx) ==
    s.ok => /\ Ahead(w, s.world) /\ PlainNamespaces(s.world.classes)
            /\ (\A i \in DOMAIN tx : IsLocal(tx[i])) => \A i \in 1..n : Done(tx[i], s.world)

\* The next call of such a transaction.
LEMMA CallGoesForward ==
    ASSUME NEW s, Good(s), NEW a \in Accounts, NEW w, NEW tx \in Seq(Calls), NEW n \in Nat, n + 1 <= Len(tx),
           Forwards(s, n, w, tx), Harmless(tx[n + 1])
    PROVE  Forwards(Apply(s, a, tx[n + 1]), n + 1, w, tx)
<1>1. PICK c, t : c = tx[n + 1] /\ t = Apply(s, a, c)
  OBVIOUS
<1>2. n + 1 \in DOMAIN tx /\ DOMAIN tx = 1..Len(tx) /\ c \in Calls
  BY <1>1
<1>3. SUFFICES ASSUME t.ok PROVE /\ Ahead(w, t.world) /\ PlainNamespaces(t.world.classes)
                                 /\ (\A i \in DOMAIN tx : IsLocal(tx[i])) => \A i \in 1..(n + 1) : Done(tx[i], t.world)
  BY <1>1 DEF Forwards
<1>4. s = [world |-> s.world, declared |-> s.declared, remote |-> s.remote, ok |-> s.ok] /\ s.world \in Worlds
  BY DEF Good, ChainInv
<1>5. s.ok
  BY <1>1, <1>3 DEF Apply
<1>6. /\ Ahead(w, s.world) /\ PlainNamespaces(s.world.classes)
      /\ (\A i \in DOMAIN tx : IsLocal(tx[i])) => \A i \in 1..n : Done(tx[i], s.world)
  BY <1>5 DEF Forwards
<1>7. Ahead(s.world, t.world) /\ Done(c, t.world) /\ PlainNamespaces(t.world.classes)
  <2>1. CASE c.fn = "declare"
    <3>1. t.world = s.world
      BY <1>1, <1>4, <1>5, <2>1 DEF Apply
    <3>2. Done(c, t.world)
      BY <2>1 DEF Done, ClassFns, Registrations, Upgrades
    <3> QED
      BY <1>6, <3>1, <3>2, AheadSelf
  <2>2. CASE c.fn # "declare"
    <3>1. t.world = Effect(s.world, a, c)
      BY <1>1, <1>3, <1>4, <1>5, <2>2 DEF Apply
    <3> QED
      BY <1>1, <1>2, <1>4, <1>6, <2>2, <3>1, CallForwards
  <2> QED
    BY <2>1, <2>2
<1>8. Ahead(w, t.world)
  BY <1>6, <1>7, AheadTrans
<1>9. ASSUME \A i \in DOMAIN tx : IsLocal(tx[i]), NEW i \in 1..(n + 1) PROVE Done(tx[i], t.world)
  <2>1. CASE i = n + 1
    BY <1>1, <1>7, <2>1
  <2>2. CASE i # n + 1
    <3>1. i \in 1..n /\ i \in DOMAIN tx
      BY <1>2, <2>2
    <3>2. Done(tx[i], s.world) /\ IsLocal(tx[i])
      BY <1>6, <1>9, <3>1
    <3> QED
      BY <1>7, <3>2, DoneStays
  <2> QED
    BY <2>1, <2>2
<1> QED
  BY <1>7, <1>8, <1>9

\* A transaction of harmless calls.
LEMMA TxGoesForward ==
    ASSUME NEW a \in Accounts, NEW tx \in Seq(Calls), Good(Now), PlainNamespaces(world.classes),
           \A i \in DOMAIN tx : Harmless(tx[i])
    PROVE  \A s \in Outcomes(a, tx) : Good(s) /\ Forwards(s, Len(tx), world, tx)
<1>1. PICK start, f : start = Now /\ f = CHOOSE g : Executes(g, Len(tx), start, a, tx)
  OBVIOUS
<1>2. Outcomes(a, tx) = f[Len(tx)]
  BY <1>1 DEF Outcomes, Executes
<1>3. Executes(f, Len(tx), start, a, tx)
  <2>1. Len(tx) \in Nat
    OBVIOUS
  <2> QED
    BY <1>1, <2>1, ExecutesExists
<1>4. PICK w : w = world
  OBVIOUS
<1> DEFINE T == {n \in Nat : n <= Len(tx) => \A s \in f[n] : Good(s) /\ Forwards(s, n, w, tx)}
<1>5. 0 \in T
  <2>1. f[0] = {start}
    BY <1>3 DEF Executes
  <2>2. start.world = w /\ Good(start)
    BY <1>1, <1>4 DEF Now
  <2>3. Forwards(start, 0, w, tx)
    BY <1>4, <2>2, AheadSelf DEF Forwards
  <2> QED
    BY <2>1, <2>2, <2>3
<1>6. ASSUME NEW n \in Nat, n \in T PROVE n + 1 \in T
  <2> SUFFICES ASSUME n + 1 <= Len(tx), NEW s \in f[n + 1] PROVE Good(s) /\ Forwards(s, n + 1, w, tx)
    OBVIOUS
  <2>1. n + 1 \in 0..Len(tx) /\ n + 1 # 0 /\ (n + 1) - 1 = n /\ n <= Len(tx) /\ n + 1 \in DOMAIN tx
    OBVIOUS
  <2>2. f[n + 1] = {Apply(r, a, tx[n + 1]) : r \in f[n]}
    BY <1>3, <2>1 DEF Executes
  <2>3. PICK r \in f[n] : s = Apply(r, a, tx[n + 1])
    BY <2>2
  <2>4. Good(r) /\ Forwards(r, n, w, tx) /\ tx[n + 1] \in Calls /\ Harmless(tx[n + 1])
    BY <1>6, <2>1
  <2> QED
    BY <2>3, <2>4, CallApplied, CallGoesForward
<1>7. \A n \in Nat : n \in T => n + 1 \in T
  BY <1>6
<1>8. Len(tx) \in T
  <2>1. Nat \subseteq T
    <3> HIDE DEF T
    <3> QED
      BY <1>5, <1>7, SetInduction
  <2> QED
    BY <2>1
<1> QED
  BY <1>2, <1>4, <1>8

\* What a diff asks for is of the project.
LEMMA DiffLocal ==
    ASSUME NEW phase, NEW seen \in Worlds, NEW c \in CallsOf(phase, seen)
    PROVE  IsLocal(c)
<1>1. ASSUME NEW fn \in ResourceFns, NEW r \in Resources, Local.classes[r] > 0, c = Call(fn, r, Local.classes[r])
      PROVE  IsLocal(c)
  <2>1. c.fn = fn /\ c.r = r /\ c.x = Local.classes[r] /\ r \in Selectors
    BY <1>1, SelectorsAre DEF Call
  <2> QED
    BY <1>1, <2>1 DEF IsLocal, Harmless, LocalNames, ResourceFns
<1>2. ASSUME NEW r \in Selectors, Local.classes[r] > 0, c = Call("deploy_world", r, Local.classes[r])
             \/ c = Call("upgrade_world", r, Local.classes[r])
      PROVE  IsLocal(c)
  BY <1>2 DEF IsLocal, Harmless, LocalNames, Call
<1>3. CASE c \in EnsureWorldCalls(seen)
  BY <1>2, <1>3, LocalIs, SelectorsAre DEF EnsureWorldCalls
<1>4. CASE c \in NamespaceCalls(seen)
  <2>1. PICK n \in Namespaces : Local.classes[n] > 0 /\ c = Call("register_namespace", n, 1)
    BY <1>4 DEF NamespaceCalls, LocalNames
  <2>2. Local.classes[n] = 1 /\ n \in Selectors
    BY <2>1, LocalPlain, SelectorsAre
  <2>3. c.fn = "register_namespace" /\ c.r = n /\ c.x = 1
    BY <2>1 DEF Call
  <2> QED
    BY <2>1, <2>2, <2>3 DEF IsLocal, Harmless, LocalNames
<1>5. ASSUME NEW kind, NEW register \in ResourceFns, NEW upgrade \in ResourceFns,
             c \in SyncCalls(seen, kind, register, upgrade)
      PROVE  IsLocal(c)
  <2>1. \A r \in LocalOf(kind) : r \in Resources /\ Local.classes[r] > 0
    BY DEF LocalOf, LocalNames
  <2> QED
    BY <1>1, <1>5, <2>1 DEF SyncCalls
<1>6. CASE c \in ContractCalls(seen) \cup ModelCalls(seen) \cup EventCalls(seen)
  BY <1>5, <1>6 DEF ContractCalls, ModelCalls, EventCalls, ResourceFns
<1>7. CASE c \in LibraryCalls(seen)
  <2>1. \A r \in LocalOf("Library") : r \in Resources /\ Local.classes[r] > 0
    BY DEF LocalOf, LocalNames
  <2>2. "register_library" \in ResourceFns
    BY DEF ResourceFns
  <2> QED
    BY <1>1, <1>7, <2>1, <2>2 DEF LibraryCalls
<1>8. CASE c \in PermissionCalls(seen)
  <2>1. CASE c.fn = "grant_writer"
    <3>1. PICK p \in Local.writers : c = Call("grant_writer", p[1], p[2])
      BY <1>8, <2>1 DEF PermissionCalls, Call
    <3>2. p = <<p[1], p[2]>>
      BY LocalIs
    <3>3. <<c.r, c.x>> \in Local.writers
      BY <3>1, <3>2 DEF Call
    <3> QED
      BY <2>1, <3>3 DEF IsLocal, Harmless, ClassFns, Registrations, Upgrades
  <2>2. CASE c.fn # "grant_writer"
    <3>1. PICK p \in Local.owners : c = Call("grant_owner", p[1], p[2])
      BY <1>8, <2>2 DEF PermissionCalls, Call
    <3>2. p = <<p[1], p[2]>>
      BY LocalIs
    <3>3. <<c.r, c.x>> \in Local.owners /\ c.fn = "grant_owner"
      BY <3>1, <3>2 DEF Call
    <3> QED
      BY <3>3 DEF IsLocal, Harmless, ClassFns, Registrations, Upgrades
  <2> QED
    BY <2>1, <2>2
<1>9. CASE c \in InitCalls(seen)
  BY <1>9 DEF InitCalls, Call, IsLocal, Harmless, ClassFns, Registrations, Upgrades
<1>10. CASE c \in ResourceCalls(seen)
  BY <1>4, <1>6, <1>7, <1>10 DEF ResourceCalls
<1> QED
  BY <1>3, <1>8, <1>9, <1>10 DEF CallsOf

\* When all that the diff asked for is done, the world matches the project.
LEMMA AllDone ==
    ASSUME NEW seen \in Worlds, NEW w, PlainNamespaces(seen.classes), Ahead(seen, w),
           \A k \in 1..4 : \A c \in CallsOf(Phases[k], seen) : Done(c, w)
    PROVE  SyncedIn(w)
<1>1. /\ \A c \in EnsureWorldCalls(seen) : Done(c, w)
      /\ \A c \in ResourceCalls(seen) : Done(c, w)
      /\ \A c \in PermissionCalls(seen) : Done(c, w)
      /\ \A c \in InitCalls(seen) : Done(c, w)
  <2>1. Phases[1] = "world" /\ Phases[2] = "resources" /\ Phases[3] = "permissions" /\ Phases[4] = "init"
    BY DEF Phases
  <2>2. /\ CallsOf(Phases[1], seen) = EnsureWorldCalls(seen) /\ CallsOf(Phases[2], seen) = ResourceCalls(seen)
        /\ CallsOf(Phases[3], seen) = PermissionCalls(seen) /\ CallsOf(Phases[4], seen) = InitCalls(seen)
    BY ONLY <2>1 DEF CallsOf
  <2> QED
    BY <2>2
<1>2. ASSUME NEW s \in LocalNames(Selectors) PROVE w.classes[s] = Local.classes[s]
  <2>0. s \in Selectors /\ Local.classes[s] > 0 /\ seen.classes \in [Selectors -> Nat]
    BY WorldIs DEF LocalNames
  <2>1. CASE seen.classes[s] = Local.classes[s]
    BY <2>1 DEF Ahead
  <2>2. CASE s = WORLD /\ seen.classes[s] # Local.classes[s]
    <3>1. PICK fn \in {"deploy_world", "upgrade_world"} : Call(fn, WORLD, Local.classes[WORLD]) \in EnsureWorldCalls(seen)
      BY <2>2 DEF EnsureWorldCalls, WorldSynced
    <3>2. Done(Call(fn, WORLD, Local.classes[WORLD]), w)
      BY <1>1, <3>1
    <3> QED
      BY <2>2, <3>1, <3>2 DEF Done, Call, ClassFns, Registrations, Upgrades
  <2>3. CASE s \in Namespaces /\ seen.classes[s] # Local.classes[s]
    <3>1. Local.classes[s] = 1 /\ seen.classes[s] = 0
      BY <2>0, <2>3, LocalPlain DEF PlainNamespaces
    <3>2. Call("register_namespace", s, 1) \in NamespaceCalls(seen)
      BY <2>0, <2>3, <3>1 DEF NamespaceCalls, LocalNames, Created
    <3>3. Done(Call("register_namespace", s, 1), w)
      BY <1>1, <3>2 DEF ResourceCalls
    <3> QED
      BY <3>1, <3>3 DEF Done, Call, ClassFns, Registrations
  <2>4. CASE s \in Resources /\ seen.classes[s] # Local.classes[s]
    <3>1. Created(seen, s) \/ Updated(seen, s)
      BY <2>4 DEF Updated
    <3>2. ASSUME NEW fn \in ClassFns, Call(fn, s, Local.classes[s]) \in ResourceCalls(seen)
          PROVE  w.classes[s] = Local.classes[s]
      <4>1. Done(Call(fn, s, Local.classes[s]), w)
        BY <1>1, <3>2
      <4> QED
        BY <3>2, <4>1 DEF Done, Call
    <3>3. s \in LocalOf(Kind[s]) /\ Kind[s] \in {"Contract", "Model", "Event", "Library"}
      BY <2>0, <2>4, WorldAssumption DEF LocalOf, LocalNames
    <3>4. CASE Kind[s] = "Library"
      <4>1. Created(seen, s)
        BY <2>4, <3>4 DEF Created
      <4>2. Call("register_library", s, Local.classes[s]) \in LibraryCalls(seen)
        BY <3>3, <3>4, <4>1 DEF LibraryCalls
      <4> QED
        BY <3>2, <4>2 DEF ResourceCalls, ClassFns, Registrations
    <3>5. ASSUME NEW kind, NEW register, NEW upgrade, Kind[s] = kind
          PROVE  \E fn \in {register, upgrade} : Call(fn, s, Local.classes[s]) \in SyncCalls(seen, kind, register, upgrade)
      BY <3>1, <3>3, <3>5 DEF SyncCalls
    <3>6. CASE Kind[s] = "Contract"
      <4>1. PICK fn \in {"register_contract", "upgrade_contract"} : Call(fn, s, Local.classes[s]) \in ContractCalls(seen)
        BY <3>5, <3>6 DEF ContractCalls
      <4> QED
        BY <3>2, <4>1 DEF ResourceCalls, ClassFns, Registrations, Upgrades
    <3>7. CASE Kind[s] = "Model"
      <4>1. PICK fn \in {"register_model", "upgrade_model"} : Call(fn, s, Local.classes[s]) \in ModelCalls(seen)
        BY <3>5, <3>7 DEF ModelCalls
      <4> QED
        BY <3>2, <4>1 DEF ResourceCalls, ClassFns, Registrations, Upgrades
    <3>8. CASE Kind[s] = "Event"
      <4>1. PICK fn \in {"register_event", "upgrade_event"} : Call(fn, s, Local.classes[s]) \in EventCalls(seen)
        BY <3>5, <3>8 DEF EventCalls
      <4> QED
        BY <3>2, <4>1 DEF ResourceCalls, ClassFns, Registrations, Upgrades
    <3> QED
      BY <3>3, <3>4, <3>6, <3>7, <3>8
  <2> QED
    BY <2>0, <2>1, <2>2, <2>3, <2>4 DEF Selectors
<1>3. Local.writers \subseteq w.writers
  <2> SUFFICES ASSUME NEW p \in Local.writers PROVE p \in w.writers
    OBVIOUS
  <2>1. p = <<p[1], p[2]>>
    BY LocalIs
  <2>2. CASE p \in seen.writers
    BY <2>2 DEF Ahead
  <2>3. CASE p \notin seen.writers
    <3>1. Call("grant_writer", p[1], p[2]) \in PermissionCalls(seen)
      BY <2>3 DEF PermissionCalls
    <3>2. Done(Call("grant_writer", p[1], p[2]), w)
      BY <1>1, <3>1
    <3> QED
      BY <2>1, <3>2 DEF Done, Call
  <2> QED
    BY <2>2, <2>3
<1>4. Local.owners \subseteq w.owners
  <2> SUFFICES ASSUME NEW p \in Local.owners PROVE p \in w.owners
    OBVIOUS
  <2>1. p = <<p[1], p[2]>>
    BY LocalIs
  <2>2. CASE p \in seen.owners
    BY <2>2 DEF Ahead
  <2>3. CASE p \notin seen.owners
    <3>1. Call("grant_owner", p[1], p[2]) \in PermissionCalls(seen)
      BY <2>3 DEF PermissionCalls
    <3>2. Done(Call("grant_owner", p[1], p[2]), w)
      BY <1>1, <3>1
    <3> QED
      BY <2>1, <3>2 DEF Done, Call
  <2> QED
    BY <2>2, <2>3
<1>5. LocalNames(Contracts) \subseteq w.initialized
  <2> SUFFICES ASSUME NEW r \in LocalNames(Contracts) PROVE r \in w.initialized
    OBVIOUS
  <2>1. r \in LocalOf("Contract")
    BY DEF LocalNames, LocalOf, Contracts
  <2>2. CASE r \in seen.initialized
    BY <2>2 DEF Ahead
  <2>3. CASE r \notin seen.initialized
    <3>1. Call("init_contract", r, 0) \in InitCalls(seen)
      BY <2>1, <2>3 DEF InitCalls
    <3>2. Done(Call("init_contract", r, 0), w)
      BY <1>1, <3>1
    <3> QED
      BY <3>2 DEF Done, Call
  <2> QED
    BY <2>2, <2>3
<1> QED
  BY <1>2, <1>3, <1>4, <1>5 DEF SyncedIn

\* A run stays on track when the world goes forward.
LEMMA OnTrackStays ==
    ASSUME NEW m \in Runs, NEW u, NEW w, Ahead(u, w), OnTrack(m, u)
    PROVE  OnTrack(m, w)
<1>1. m.seen \in Worlds
  BY RunIs
<1>2. m.status = "ok" => \A i \in DOMAIN m.tx : Done(m.tx[i], w)
  BY DoneStays DEF OnTrack
<1>3. m.phase \in Active => Ahead(m.seen, w)
  BY AheadTrans DEF OnTrack
<1>4. ASSUME ~m.misled, NEW i \in 1..4, m.phase = Phases[i] PROVE Covered(m, i, w)
  <2>1. Covered(m, i, u)
    BY <1>4 DEF OnTrack
  <2>2. ASSUME NEW k \in 1..4, NEW c \in CallsOf(Phases[k], m.seen), Done(c, u) PROVE Done(c, w)
    BY <1>1, <2>2, DiffLocal, DoneStays
  <2> QED
    BY <2>1, <2>2 DEF Covered
<1>5. m.phase = "done" /\ ~m.misled => SyncedIn(w)
  BY SyncedStays DEF OnTrack
<1> QED
  BY <1>2, <1>3, <1>4, <1>5 DEF OnTrack

\* The phases are different.
LEMMA PhasesDiffer ==
    /\ \A i, j \in 1..5 : Phases[i] = Phases[j] => i = j
    /\ Phases[5] = "done" /\ \A i \in 1..5 : Phases[i] \in Active <=> i # 5
    /\ \A i \in 1..5 : Phases[i] = "done" <=> i = 5
BY DEF Phases, Active

\* What a run is after Enter, for a reader: the j-th phase, the first from the i-th on with
\* anything to call.
LEMMA EnterIs ==
    ASSUME NEW m \in Runs, NEW i \in 1..5, NEW n, n = Enter(i, m)
    PROVE  \E j \in i..5 :
              /\ n.phase = Phases[j] /\ n.seen = (IF j = 5 THEN NoWorld ELSE m.seen)
              /\ n.todo = CallsOf(Phases[j], m.seen) /\ n.tx = m.tx /\ n.status = m.status /\ n.misled = m.misled
              /\ \A k \in i..4 : k < j => CallsOf(Phases[k], m.seen) = {}
<1> DEFINE works(k) == \/ Declares(Phases[k], m.seen) \ declared # {}
                       \/ CallsOf(Phases[k], m.seen) # {}
           T == {k \in i..4 : works(k)} \cup {5}
<1>1. PICK j : j = Min(T)
  OBVIOUS
<1>2. j \in i..5 /\ \A k \in i..4 : k < j => ~works(k)
  <2>1. T \in SUBSET Nat /\ T # {} /\ T \subseteq i..5
    <3> HIDE DEF works
    <3> QED
      OBVIOUS
  <2>2. \E x \in T : \A y \in T : x <= y
    <3> HIDE DEF T
    <3> QED
      BY <2>1, LeastElement
  <2>3. j \in T /\ \A y \in T : j <= y
    <3> HIDE DEF T
    <3> QED
      BY <1>1, <2>2 DEF Min
  <2>4. ASSUME NEW k \in i..4, k < j, works(k) PROVE FALSE
    <3>1. k \in T
      BY <2>4
    <3> HIDE DEF T, works
    <3>2. j <= k /\ j \in Int
      BY <2>1, <2>3, <3>1
    <3> QED
      BY <2>4, <3>2
  <2> HIDE DEF T, works
  <2> QED
    BY <2>1, <2>3, <2>4
<1>3. PICK seen, declares, todo, p :
          /\ seen = IF j = 5 THEN NoWorld ELSE m.seen
          /\ declares = Declares(Phases[j], m.seen) \ declared
          /\ todo = CallsOf(Phases[j], m.seen)
          /\ p = Phases[j]
  OBVIOUS
<1>4. n = [m EXCEPT !.phase = p, !.seen = seen, !.declares = declares, !.todo = todo]
  BY <1>1, <1>3 DEF Enter
<1>5. /\ n.phase = p /\ n.seen = seen /\ n.todo = todo
      /\ n.tx = m.tx /\ n.status = m.status /\ n.misled = m.misled
  BY ONLY <1>4, m \in Runs DEF Runs
<1>6. \A k \in i..4 : k < j => CallsOf(Phases[k], m.seen) = {}
  BY <1>2
<1> HIDE DEF T, works
<1> QED
  BY <1>2, <1>3, <1>5, <1>6

\* A run enters a phase when what the earlier ones asked for is done.
LEMMA EnterOnTrack ==
    ASSUME NEW m \in Runs, NEW i \in 1..5, NEW w, Ahead(m.seen, w), PlainNamespaces(m.seen.classes),
           \A k \in 1..4 : k < i /\ ~m.misled => \A c \in CallsOf(Phases[k], m.seen) : Done(c, w),
           \A k \in DOMAIN m.tx : IsLocal(m.tx[k]),
           m.status = "ok" => \A k \in DOMAIN m.tx : Done(m.tx[k], w)
    PROVE  OnTrack(Enter(i, m), w)
<1>1. PICK n : n = Enter(i, m)
  OBVIOUS
<1>2. PICK j \in i..5 :
          /\ n.phase = Phases[j] /\ n.seen = (IF j = 5 THEN NoWorld ELSE m.seen)
          /\ n.todo = CallsOf(Phases[j], m.seen) /\ n.tx = m.tx /\ n.status = m.status /\ n.misled = m.misled
          /\ \A k \in i..4 : k < j => CallsOf(Phases[k], m.seen) = {}
  BY <1>1, EnterIs
<1>3. m.seen \in Worlds /\ j \in 1..5
  BY RunIs
<1>4. \A c \in n.todo : IsLocal(c)
  BY <1>2, <1>3, DiffLocal
<1>5. \A k \in 1..4 : k < j /\ ~m.misled => \A c \in CallsOf(Phases[k], m.seen) : Done(c, w)
  <2> SUFFICES ASSUME NEW k \in 1..4, k < j, ~m.misled, NEW c \in CallsOf(Phases[k], m.seen) PROVE Done(c, w)
    OBVIOUS
  <2>1. CASE k < i
    BY <2>1
  <2>2. CASE ~(k < i)
    <3>1. k \in i..4
      BY <2>2
    <3> QED
      BY <1>2, <3>1
  <2> QED
    BY <2>1, <2>2
<1>6. CASE j = 5
  <2>1. n.phase = "done" /\ ~(n.phase \in Active) /\ \A k \in 1..4 : n.phase # Phases[k]
    BY <1>2, <1>6, PhasesDiffer
  <2>2. ~m.misled => SyncedIn(w)
    <3>1. \A k \in 1..4 : k < j
      BY <1>6
    <3> QED
      BY <1>3, <1>5, <3>1, AllDone
  <2> QED
    BY <1>1, <1>2, <1>4, <2>1, <2>2 DEF OnTrack
<1>7. CASE j # 5
  <2>1. n.seen = m.seen /\ n.phase # "done" /\ j \in 1..4
    BY <1>2, <1>3, <1>7, PhasesDiffer
  <2>2. ASSUME ~m.misled, NEW k \in 1..4, n.phase = Phases[k] PROVE Covered(n, k, w)
    <3>1. k = j
      <4>1. Phases[k] = Phases[j] /\ k \in 1..5
        BY <1>2, <2>2
      <4> QED
        BY ONLY <1>3, <4>1, PhasesDiffer
    <3>2. ASSUME NEW l \in 1..4, NEW c \in CallsOf(Phases[l], n.seen) PROVE Done(c, w) \/ c \in n.todo \/ l > k
      <4>1. CASE l < j
        BY <1>5, <2>1, <2>2, <4>1
      <4>2. CASE l = j
        BY <1>2, <2>1, <4>2
      <4>3. CASE l > j
        BY <3>1, <4>3
      <4> QED
        BY <1>3, <4>1, <4>2, <4>3
    <3> QED
      BY <3>2 DEF Covered
  <2> QED
    BY <1>1, <1>2, <1>4, <2>1, <2>2 DEF OnTrack
<1> QED
  BY <1>6, <1>7

\* The run of one account changes and the chain does not.
LEMMA TrackStep ==
    ASSUME MigInv, TrackInv, NEW a \in Accounts, NEW n, OnTrack(n, world), mig' = [mig EXCEPT ![a] = n],
           UNCHANGED <<chain, mined>>
    PROVE  TrackInv'
<1>1. world' = world /\ mined' = mined
  BY DEF chain
<1>2. ASSUME NEW b \in Accounts PROVE mig'[b] = IF b = a THEN n ELSE mig[b]
  BY RunsAre
<1>3. ASSUME NEW b \in Accounts PROVE OnTrack(mig'[b], world')
  BY <1>1, <1>2 DEF TrackInv
<1> QED
  BY <1>1, <1>3 DEF TrackInv

\* A run that failed is on track.
LEMMA FailedOnTrack ==
    ASSUME NEW f, NEW w, OnTrack(f, w), NEW n, n.phase = "failed", n.todo = {}, n.tx = f.tx, n.status = f.status
    PROVE  OnTrack(n, w)
<1>1. n.phase \notin Active /\ n.phase # "done" /\ \A i \in 1..4 : n.phase # Phases[i]
  BY DEF Active, Phases
<1> QED
  BY <1>1 DEF OnTrack

\* The same of a run whose transaction is forgotten.
LEMMA FailedForgetful ==
    ASSUME NEW w, NEW n, n.phase = "failed", n.todo = {}, n.tx = <<>>
    PROVE  OnTrack(n, w)
<1>1. n.phase \notin Active /\ n.phase # "done" /\ \A i \in 1..4 : n.phase # Phases[i]
  BY DEF Active, Phases
<1>2. DOMAIN n.tx = {}
  OBVIOUS
<1> QED
  BY <1>1, <1>2 DEF OnTrack

\* A run reads its diff.
LEMMA ReadDiffTracks ==
    ASSUME MigInv, TrackInv, NEW a \in Accounts, ReadDiff(a)
    PROVE  TrackInv'
<1>0. UNCHANGED <<chain, mined>>
  BY DEF ReadDiff
<1>1. PICK m, w, b : m = mig[a] /\ w = world /\ b = mined
  OBVIOUS
<1>2. OnTrack(m, w) /\ Ahead(b, w) /\ PlainNamespaces(b.classes) /\ m \in Runs /\ b \in Worlds
  BY <1>1, RunsAre DEF TrackInv, MigInv
<1>3. CASE mig' = Fail(a)
  <2>1. PICK n : n = Fail(a)[a]
    OBVIOUS
  <2>2. mig' = [mig EXCEPT ![a] = n]
    BY <1>3, <2>1, FailIs
  <2>3. n = [m EXCEPT !.phase = "failed", !.seen = NoWorld, !.declares = {}, !.todo = {}, !.waiting = FALSE]
    BY <1>1, <2>1, FailIs
  <2>4. n.phase = "failed" /\ n.todo = {} /\ n.tx = m.tx /\ n.status = m.status
    BY ONLY <1>2, <2>3 DEF Runs
  <2>5. OnTrack(n, w)
    BY ONLY <1>2, <2>4, FailedOnTrack
  <2> QED
    BY <1>0, <1>1, <2>2, <2>5, TrackStep
<1>4. CASE mig' # Fail(a)
  <2>1. PICK o : o = [m EXCEPT !.seen = b, !.misled = FALSE]
    OBVIOUS
  <2>2. mig' = [mig EXCEPT ![a] = Enter(1, o)]
    BY <1>1, <1>4, <2>1 DEF ReadDiff
  <2>3. o \in Runs /\ o.seen = b /\ o.tx = m.tx /\ o.status = m.status
    BY ONLY <1>2, <2>1 DEF Runs
  <2>4. Ahead(o.seen, w) /\ PlainNamespaces(o.seen.classes)
    BY ONLY <1>2, <2>3
  <2>5. /\ \A k \in DOMAIN o.tx : IsLocal(o.tx[k])
        /\ o.status = "ok" => \A k \in DOMAIN o.tx : Done(o.tx[k], w)
    BY <1>2, <2>3 DEF OnTrack
  <2>6. /\ 1 \in 1..5
        /\ \A k \in 1..4 : k < 1 /\ ~o.misled => \A c \in CallsOf(Phases[k], o.seen) : Done(c, w)
    OBVIOUS
  <2>7. OnTrack(Enter(1, o), w)
    BY <2>3, <2>4, <2>5, <2>6, EnterOnTrack
  <2> QED
    BY <1>0, <1>1, <2>2, <2>7, TrackStep
<1> QED
  BY <1>3, <1>4

\* The transactions of a run are of the project.
LEMMA NextTxsLocal ==
    ASSUME MigInv, NEW a \in Accounts, \A c \in mig[a].todo : IsLocal(c), NEW tx \in NextTxs(a)
    PROVE  \A i \in DOMAIN tx : IsLocal(tx[i])
<1>1. PICK m : m = mig[a]
  OBVIOUS
<1>2. m.declares \subseteq Selectors \X Nat /\ m.todo \subseteq Calls /\ IsFiniteSet(m.todo)
  BY <1>1, RunIs DEF MigInv, Run
<1>3. CASE m.declares \ declared # {}
  <2>1. PICK d \in m.declares : tx = <<Call("declare", d[1], d[2])>>
    BY <1>1, <1>3 DEF NextTxs
  <2>2. Call("declare", d[1], d[2]).fn = "declare"
    BY DEF Call
  <2>3. IsLocal(Call("declare", d[1], d[2]))
    BY <2>2 DEF IsLocal, Harmless, ClassFns, Registrations, Upgrades
  <2> QED
    BY <2>1, <2>3
<1>4. CASE ~(m.declares \ declared # {}) /\ ~m.sequential /\ m.todo # {}
  <2>1. tx \in InOrder(m.todo)
    BY <1>1, <1>4 DEF NextTxs
  <2>2. tx \in Seq(m.todo)
    BY <1>2, <1>4, <2>1, InOrderType
  <2>3. \A i \in DOMAIN tx : tx[i] \in m.todo
    BY <2>2
  <2> QED
    BY <1>1, <2>3
<1>5. CASE ~(m.declares \ declared # {}) /\ ~(~m.sequential /\ m.todo # {})
  <2>1. PICK c \in First(m.todo) : tx = <<c>>
    BY <1>1, <1>5 DEF NextTxs
  <2>2. IsLocal(c)
    BY <1>1, <2>1 DEF First
  <2> QED
    BY <2>1, <2>2
<1> QED
  BY <1>3, <1>4, <1>5

\* A run sends a transaction.
LEMMA SendTracks ==
    ASSUME MigInv, TrackInv, NEW a \in Accounts, Send(a)
    PROVE  TrackInv'
<1>1. PICK tx \in NextTxs(a) :
          mig' = [mig EXCEPT ![a].tx = tx, ![a].status = "sent", ![a].final = FALSE, ![a].waiting = TRUE]
  BY DEF Send
<1>2. PICK m, w, n : /\ m = mig[a] /\ w = world
                     /\ n = [mig[a] EXCEPT !.tx = tx, !.status = "sent", !.final = FALSE, !.waiting = TRUE]
  OBVIOUS
<1>3. mig' = [mig EXCEPT ![a] = n]
  BY <1>1, <1>2, RunsAre
<1>4. m \in Runs /\ OnTrack(m, w)
  BY <1>2, RunsAre DEF TrackInv
<1>5. /\ n.tx = tx /\ n.status = "sent" /\ n.phase = m.phase /\ n.seen = m.seen /\ n.todo = m.todo
      /\ n.misled = m.misled
  BY <1>2, <1>4 DEF Runs
<1>6. \A i \in DOMAIN tx : IsLocal(tx[i])
  <2>1. \A c \in mig[a].todo : IsLocal(c)
    BY <1>2, <1>4 DEF OnTrack
  <2> QED
    BY <1>1, <2>1, NextTxsLocal
<1>7. OnTrack(n, w)
  BY ONLY <1>4, <1>5, <1>6 DEF OnTrack, Covered
<1>8. UNCHANGED <<chain, mined>>
  BY DEF Send
<1> QED
  BY <1>2, <1>3, <1>7, <1>8, TrackStep

\* A run gives up before it sends.
LEMMA SendRefusedTracks ==
    ASSUME MigInv, TrackInv, NEW a \in Accounts, SendRefused(a)
    PROVE  TrackInv'
<1>1. PICK m, w, n : m = mig[a] /\ w = world /\ n = Fail(a)[a]
  OBVIOUS
<1>2. mig' = [mig EXCEPT ![a] = n] /\ UNCHANGED <<chain, mined>>
  BY <1>1, FailIs DEF SendRefused
<1>3. m \in Runs /\ OnTrack(m, w)
  BY <1>1, RunsAre DEF TrackInv
<1>4. n = [m EXCEPT !.phase = "failed", !.seen = NoWorld, !.declares = {}, !.todo = {}, !.waiting = FALSE]
  BY <1>1, FailIs
<1>5. n.phase = "failed" /\ n.todo = {} /\ n.tx = m.tx /\ n.status = m.status
  BY ONLY <1>3, <1>4 DEF Runs
<1>6. OnTrack(n, w)
  BY ONLY <1>3, <1>5, FailedOnTrack
<1> QED
  BY <1>1, <1>2, <1>6, TrackStep

\* What Consumed leaves of a run.
LEMMA ConsumedIs ==
    ASSUME NEW m \in Runs, NEW c, c = Consumed(m)
    PROVE  /\ c \in Runs /\ c.phase = m.phase /\ c.seen = m.seen /\ c.misled = m.misled
           /\ c.todo \subseteq m.todo /\ m.todo \ c.todo \subseteq ToSet(m.tx)
<1>1. c \in Runs
  BY ConsumedType
<1>2. CASE m.tx[1].fn = "declare"
  <2>1. PICK d : d = m.declares \ {<<m.tx[1].r, m.tx[1].x>>}
    OBVIOUS
  <2>2. c = [m EXCEPT !.declares = d]
    BY <1>2, <2>1 DEF Consumed
  <2>3. c.phase = m.phase /\ c.seen = m.seen /\ c.misled = m.misled /\ c.todo = m.todo
    BY ONLY <2>2, m \in Runs DEF Runs
  <2> QED
    BY <1>1, <2>3
<1>3. CASE m.tx[1].fn # "declare"
  <2>1. PICK t : t = m.todo \ ToSet(m.tx)
    OBVIOUS
  <2>2. c = [m EXCEPT !.todo = t]
    BY <1>3, <2>1 DEF Consumed
  <2>3. c.phase = m.phase /\ c.seen = m.seen /\ c.misled = m.misled /\ c.todo = t
    BY ONLY <2>2, m \in Runs DEF Runs
  <2> QED
    BY <1>1, <2>1, <2>3
<1> QED
  BY <1>2, <1>3

\* A run goes on after a transaction that it waited for.
LEMMA WaitOkTracks ==
    ASSUME MigInv, TrackInv, NEW a \in Accounts, WaitOk(a)
    PROVE  TrackInv'
<1>1. PICK m, w, c, lie : /\ m = mig[a] /\ w = world /\ c = Consumed(mig[a])
                          /\ lie = (c.misled \/ mig[a].status = "reverted")
  OBVIOUS
<1>2. PICK n : n = [c EXCEPT !.waiting = FALSE, !.tx = <<>>, !.status = "none", !.final = FALSE, !.misled = lie]
  OBVIOUS
<1>3. mig' = [mig EXCEPT ![a] = GoOn(n)] /\ m.waiting /\ ReceiptOk(m) /\ UNCHANGED <<chain, mined>>
  BY <1>1, <1>2 DEF WaitOk
<1>4. m \in Runs /\ OnTrack(m, w) /\ m.phase \in Active
  BY <1>1, <1>3, RunsAre DEF TrackInv, Run
<1>5. /\ c \in Runs /\ c.phase = m.phase /\ c.seen = m.seen /\ c.misled = m.misled
      /\ c.todo \subseteq m.todo /\ m.todo \ c.todo \subseteq ToSet(m.tx)
  BY <1>1, <1>4, ConsumedIs
<1>6. lie \in BOOLEAN /\ <<>> \in Seq(Calls)
  BY <1>1
<1>7. /\ n \in Runs /\ n.phase = c.phase /\ n.seen = c.seen /\ n.todo = c.todo /\ n.tx = <<>> /\ n.status = "none"
      /\ n.misled = lie
  BY ONLY <1>2, <1>5, <1>6 DEF Runs
<1>8. PICK i \in 1..4 : m.phase = Phases[i]
  BY <1>4, PhaseNames
<1>9. Ahead(n.seen, w) /\ PlainNamespaces(n.seen.classes) /\ \A d \in n.todo : IsLocal(d)
  BY <1>4, <1>5, <1>7 DEF OnTrack
<1>10. ASSUME ~n.misled PROVE Covered(n, i, w)
  <2>1. ~m.misled /\ m.status # "reverted"
    BY <1>1, <1>5, <1>7, <1>10
  <2>2. m.status = "ok"
    BY <1>3, <2>1 DEF ReceiptOk
  <2>3. \A k \in DOMAIN m.tx : Done(m.tx[k], w)
    BY <1>4, <2>2 DEF OnTrack
  <2>4. \A d \in m.todo \ c.todo : Done(d, w)
    BY <1>5, <2>3 DEF ToSet
  <2>5. Covered(m, i, w)
    BY <1>4, <1>8, <2>1 DEF OnTrack
  <2> QED
    BY <1>5, <1>7, <2>4, <2>5 DEF Covered
<1>11. DOMAIN n.tx = {} /\ n.status # "ok"
  BY <1>7
<1>12. CASE Finished(n)
  <2>1. GoOn(n) = Enter(1 + i, n) /\ 1 + i \in 1..5
    <3>1. i = CHOOSE k \in 1..4 : Phases[k] = n.phase
      <4>1. \A k \in 1..4 : Phases[k] = n.phase <=> k = i
        BY <1>5, <1>7, <1>8, PhasesDiffer
      <4> QED
        BY <4>1
    <3>2. GoOn(n) = Enter(1 + i, n)
      BY <1>12, <3>1 DEF GoOn
    <3>3. 1 + i \in 1..5
      OBVIOUS
    <3> QED
      BY <3>2, <3>3
  <2>2. \A k \in 1..4 : k < 1 + i /\ ~n.misled => \A d \in CallsOf(Phases[k], n.seen) : Done(d, w)
    BY <1>10, <1>12 DEF Covered, Finished
  <2>3. OnTrack(Enter(1 + i, n), w)
    BY <1>7, <1>9, <1>11, <2>1, <2>2, EnterOnTrack
  <2> QED
    BY <1>1, <1>3, <2>1, <2>3, TrackStep
<1>13. CASE ~Finished(n)
  <2>1. GoOn(n) = n
    BY <1>13 DEF GoOn
  <2>2. n.phase # "done" /\ n.phase \in Active /\ \A k \in 1..4 : n.phase = Phases[k] => k = i
    <3>1. n.phase = Phases[i] /\ n.phase \in Active
      BY <1>4, <1>5, <1>7, <1>8
    <3> QED
      BY ONLY <3>1, PhasesDiffer
  <2>3. OnTrack(n, w)
    BY ONLY <1>9, <1>10, <1>11, <2>2 DEF OnTrack
  <2> QED
    BY <1>1, <1>3, <2>1, <2>3, TrackStep
<1> QED
  BY <1>12, <1>13

\* A run ends on a receipt that it does not accept.
LEMMA WaitErrTracks ==
    ASSUME MigInv, TrackInv, NEW a \in Accounts, WaitErr(a)
    PROVE  TrackInv'
<1>1. PICK w, f : w = world /\ f = Fail(a)
  OBVIOUS
<1>2. PICK n : n = [f[a] EXCEPT !.tx = <<>>, !.status = "none", !.final = FALSE]
  OBVIOUS
<1>3. f = [mig EXCEPT ![a] = f[a]] /\ mig = [b \in Accounts |-> mig[b]]
  BY <1>1, FailIs, RunsAre
<1>4. mig' = [f EXCEPT ![a].tx = <<>>, ![a].status = "none", ![a].final = FALSE] /\ UNCHANGED <<chain, mined>>
  BY <1>1 DEF WaitErr
<1>5. mig' = [mig EXCEPT ![a] = n]
  BY ONLY <1>2, <1>3, <1>4, a \in Accounts
<1>6. f[a] \in Runs /\ f[a].phase = "failed" /\ f[a].todo = {}
  BY <1>1, FailKeeps, FailIs, RunsAre DEF Run, Runs
<1>7. n.phase = "failed" /\ n.todo = {} /\ n.tx = <<>>
  BY ONLY <1>2, <1>6 DEF Runs
<1>8. OnTrack(n, w)
  BY ONLY <1>7, FailedForgetful
<1> QED
  BY <1>1, <1>4, <1>5, <1>8, TrackStep

\* A run stops where it is.
LEMMA InterruptedTracks ==
    ASSUME MigInv, TrackInv, NEW a \in Accounts, Interrupted(a)
    PROVE  TrackInv'
<1>1. PICK m, w, f, tx, st : /\ m = mig[a] /\ w = world /\ f = Fail(a)
                             /\ tx = IF mig[a].status = "sent" THEN f[a].tx ELSE <<>>
                             /\ st = IF mig[a].status = "sent" THEN f[a].status ELSE "none"
  OBVIOUS
<1>2. PICK n : n = [f[a] EXCEPT !.tx = tx, !.status = st, !.final = FALSE]
  OBVIOUS
<1>3. f = [mig EXCEPT ![a] = f[a]] /\ mig = [b \in Accounts |-> mig[b]]
  BY <1>1, FailIs, RunsAre
<1>4. mig' = [f EXCEPT ![a].tx = tx, ![a].status = st, ![a].final = FALSE] /\ UNCHANGED <<chain, mined>>
  BY <1>1 DEF Interrupted
<1>5. mig' = [mig EXCEPT ![a] = n]
  BY ONLY <1>2, <1>3, <1>4, a \in Accounts
<1>6. m \in Runs /\ OnTrack(m, w)
  BY <1>1, RunsAre DEF TrackInv
<1>7. f[a] = [m EXCEPT !.phase = "failed", !.seen = NoWorld, !.declares = {}, !.todo = {}, !.waiting = FALSE]
  BY <1>1, FailIs
<1>8. f[a].phase = "failed" /\ f[a].todo = {} /\ f[a].tx = m.tx /\ f[a].status = m.status
  BY ONLY <1>6, <1>7 DEF Runs
<1>9. f[a] \in Runs
  BY <1>1, FailKeeps DEF Run
<1>10. n.phase = "failed" /\ n.todo = {} /\ n.tx = tx /\ n.status = st
  BY ONLY <1>2, <1>8, <1>9 DEF Runs
<1>11. OnTrack(n, w)
  <2>1. CASE m.status = "sent"
    <3>1. n.tx = m.tx /\ n.status = m.status
      BY <1>1, <1>8, <1>10, <2>1
    <3> QED
      BY ONLY <1>6, <1>10, <3>1, FailedOnTrack
  <2>2. CASE m.status # "sent"
    <3>1. n.tx = <<>>
      BY <1>1, <1>10, <2>2
    <3> QED
      BY ONLY <1>10, <3>1, FailedForgetful
  <2> QED
    BY <2>1, <2>2
<1> QED
  BY <1>1, <1>4, <1>5, <1>11, TrackStep

\* A transaction of a run is executed.
LEMMA ExecuteTracks ==
    ASSUME MigInv, TrackInv, NEW a \in Accounts, Execute(a)
    PROVE  TrackInv'
<1>1. PICK s \in Outcomes(a, mig[a].tx) :
          /\ IF s.ok THEN Take(s) ELSE UNCHANGED chain
          /\ mig' = [mig EXCEPT ![a].status = IF s.ok THEN "ok" ELSE "reverted", ![a].final = FALSE]
  BY DEF Execute
<1>2. PICK m, u, w, st, n : /\ m = mig[a] /\ u = world /\ w = world'
                            /\ st = (IF s.ok THEN "ok" ELSE "reverted")
                            /\ n = [mig[a] EXCEPT !.status = st, !.final = FALSE]
  OBVIOUS
<1>3. m \in Runs /\ OnTrack(m, u) /\ m.tx \in Seq(Calls)
  BY <1>2, RunsAre DEF TrackInv, Runs
<1>4. \A i \in DOMAIN m.tx : IsLocal(m.tx[i]) /\ Harmless(m.tx[i])
  BY <1>3 DEF OnTrack, IsLocal
<1>5. Forwards(s, Len(m.tx), u, m.tx)
  BY <1>1, <1>2, <1>3, <1>4, NowGood, TxGoesForward DEF TrackInv
<1>6. Ahead(u, w) /\ PlainNamespaces(w.classes)
  <2>1. CASE s.ok
    BY <1>1, <1>2, <1>5, <2>1 DEF Forwards, Take
  <2>2. CASE ~s.ok
    <3>1. w = u /\ PlainNamespaces(u.classes)
      BY <1>1, <1>2, <2>2 DEF chain, TrackInv
    <3> QED
      BY <3>1, AheadSelf
  <2> QED
    BY <2>1, <2>2
<1>7. /\ n.phase = m.phase /\ n.seen = m.seen /\ n.todo = m.todo /\ n.tx = m.tx /\ n.misled = m.misled
      /\ n.status = st
  BY <1>2, <1>3 DEF Runs
<1>8. OnTrack(n, w)
  <2>1. OnTrack(m, w)
    BY <1>3, <1>6, OnTrackStays
  <2>2. n.status = "ok" => \A i \in DOMAIN m.tx : Done(m.tx[i], w)
    <3>1. SUFFICES ASSUME s.ok PROVE \A i \in DOMAIN m.tx : Done(m.tx[i], w)
      BY <1>2, <1>7
    <3>2. w = s.world /\ DOMAIN m.tx = 1..Len(m.tx)
      BY <1>1, <1>2, <1>3, <3>1 DEF Take
    <3> QED
      BY <1>4, <1>5, <3>1, <3>2 DEF Forwards
  <2> QED
    BY ONLY <1>7, <2>1, <2>2 DEF OnTrack, Covered
<1>9. ASSUME NEW b \in Accounts PROVE OnTrack(mig'[b], w)
  <2>1. CASE b = a
    <3>1. mig'[b] = n
      BY <1>1, <1>2, <2>1, RunsAre
    <3> QED
      BY <1>8, <3>1
  <2>2. CASE b # a
    <3>1. mig'[b] = mig[b] /\ mig[b] \in Runs /\ OnTrack(mig[b], u)
      BY <1>1, <1>2, <2>2, RunsAre DEF TrackInv
    <3> QED
      BY <1>6, <3>1, OnTrackStays
  <2> QED
    BY <2>1, <2>2
<1>10. mined' = mined /\ Ahead(mined, u) /\ PlainNamespaces(mined.classes)
  BY <1>2 DEF Execute, TrackInv
<1>11. Ahead(mined, w)
  BY <1>6, <1>10, AheadTrans
<1> QED
  BY <1>2, <1>6, <1>9, <1>10, <1>11 DEF TrackInv

\* A block is mined: what the next diff reads is not ahead of the world.
LEMMA MineBlockTracks ==
    ASSUME MigInv, TrackInv, MineBlock
    PROVE  TrackInv'
<1>1. world' = world /\ mined' = remote
  BY DEF MineBlock, chain
<1>2. Ahead(remote, world) /\ remote.classes = world.classes
  BY PictureBehind DEF MigInv
<1>3. ASSUME NEW b \in Accounts PROVE OnTrack(mig'[b], world)
  <2>1. PICK m, w, n, fin : m = mig[b] /\ w = world /\ n = mig'[b] /\ fin = (mig[b].status = "reverted")
    OBVIOUS
  <2>2. n = [m EXCEPT !.final = fin]
    BY <2>1 DEF MineBlock
  <2>3. m \in Runs /\ OnTrack(m, w)
    BY <2>1, RunsAre DEF TrackInv
  <2>4. /\ n.phase = m.phase /\ n.seen = m.seen /\ n.todo = m.todo /\ n.tx = m.tx /\ n.misled = m.misled
        /\ n.status = m.status
    BY ONLY <2>2, <2>3 DEF Runs
  <2>5. OnTrack(n, w)
    BY ONLY <2>3, <2>4 DEF OnTrack, Covered
  <2> QED
    BY <2>1, <2>5
<1>4. PlainNamespaces(world.classes)
  BY DEF TrackInv
<1>5. /\ PlainNamespaces(world'.classes) /\ PlainNamespaces(mined'.classes) /\ Ahead(mined', world')
      /\ \A b \in Accounts : OnTrack(mig'[b], world')
  BY <1>1, <1>2, <1>3, <1>4
<1> QED
  BY <1>5 DEF TrackInv

\* A call by hand that takes nothing away.
LEMMA AuthorizeTracks ==
    ASSUME KeepsLocal, MigInv, TrackInv, NEW a \in Accounts, Authorize(a)
    PROVE  TrackInv'
<1>1. PICK c \in AuthCalls : \E s \in Outcomes(a, <<c>>) : s.ok /\ Take(s)
  BY DEF Authorize
<1>2. c \in Calls /\ Harmless(c)
  BY <1>1, MigrationAssumption DEF Calls, KeepsLocal
<1>3. PICK tx : tx = <<c>>
  OBVIOUS
<1>4. tx \in Seq(Calls) /\ \A i \in DOMAIN tx : Harmless(tx[i])
  BY ONLY <1>2, <1>3
<1>5. PICK s \in Outcomes(a, tx) : s.ok /\ Take(s)
  BY <1>1, <1>3
<1>6. Forwards(s, Len(tx), world, tx)
  BY <1>4, <1>5, NowGood, TxGoesForward DEF TrackInv
<1>7. PICK u, w : u = world /\ w = world'
  OBVIOUS
<1>8. Ahead(u, w) /\ PlainNamespaces(w.classes)
  BY <1>5, <1>6, <1>7 DEF Forwards, Take
<1>9. mined' = mined /\ mig' = mig
  BY DEF Authorize
<1>10. ASSUME NEW b \in Accounts PROVE OnTrack(mig[b], w)
  <2>1. mig[b] \in Runs /\ OnTrack(mig[b], u)
    BY <1>7, RunsAre DEF TrackInv
  <2> QED
    BY <1>8, <2>1, OnTrackStays
<1>11. Ahead(mined, w) /\ PlainNamespaces(mined.classes)
  BY <1>7, <1>8, AheadTrans DEF TrackInv
<1> QED
  BY <1>7, <1>8, <1>9, <1>10, <1>11 DEF TrackInv

\* The runs are on track before they start.
LEMMA InitTrackInv == Init => TrackInv
<1> SUFFICES ASSUME Init PROVE TrackInv
  OBVIOUS
<1>1. PICK s \in Starts :
          /\ world = s.world /\ remote = s.remote /\ mined = s.remote
          /\ mig = [a \in Accounts |-> [NewRun EXCEPT !.sequential = a \in s.sequential]]
  BY DEF Init
<1>2. ChainInv(s.world, s.remote) /\ PlainNamespaces(s.world.classes)
  BY <1>1, MigrationAssumption DEF ChainInv
<1>3. Ahead(s.remote, s.world) /\ s.remote.classes = s.world.classes
  BY <1>2, PictureBehind
<1>4. ASSUME NEW a \in Accounts PROVE OnTrack(mig[a], world)
  <2>1. PICK n, w : n = mig[a] /\ w = world
    OBVIOUS
  <2>2. n = [NewRun EXCEPT !.sequential = a \in s.sequential]
    BY <1>1, <2>1
  <2>3. n.phase = "idle" /\ n.todo = {} /\ n.tx = <<>> /\ n.status = "none"
    BY <2>2 DEF NewRun
  <2>4. n.phase \notin Active /\ n.phase # "done" /\ \A i \in 1..4 : n.phase # Phases[i]
    BY <2>3 DEF Active, Phases
  <2>5. DOMAIN n.tx = {}
    BY <2>3
  <2>6. OnTrack(n, w)
    BY ONLY <2>3, <2>4, <2>5 DEF OnTrack
  <2> QED
    BY <2>1, <2>6
<1> QED
  BY <1>1, <1>2, <1>3, <1>4 DEF TrackInv

\* A run that ends well, none of its transactions having been reverted, leaves the world as the
\* project describes it, whatever its diff had missed of the pending block and whatever the other
\* runs did meanwhile, as long as nobody revokes a right of the project by hand.
THEOREM SuccessIsSynced ==
    ASSUME KeepsLocal
    PROVE  Spec => []SuccessMeansSynced
<1>1. MigInv /\ TrackInv /\ [Next]_vars => TrackInv'
  <2> SUFFICES ASSUME MigInv, TrackInv, [Next]_vars PROVE TrackInv'
    OBVIOUS
  <2>1. CASE MineBlock
    BY <2>1, MineBlockTracks
  <2>2. ASSUME NEW a \in Accounts, ReadDiff(a) \/ Interrupted(a) \/ Execute(a) \/ Authorize(a) PROVE TrackInv'
    BY <2>2, ReadDiffTracks, InterruptedTracks, ExecuteTracks, AuthorizeTracks
  <2>3. ASSUME NEW a \in Accounts, Step(a) PROVE TrackInv'
    BY <2>3, SendTracks, SendRefusedTracks, WaitOkTracks, WaitErrTracks DEF Step
  <2>4. CASE UNCHANGED vars
    BY <2>4 DEF vars, TrackInv
  <2> QED
    BY <2>1, <2>2, <2>3, <2>4 DEF Next
<1>2. TrackInv => SuccessMeansSynced
  BY DEF TrackInv, OnTrack, SuccessMeansSynced, SyncedIn, Synced
<1> QED
  BY <1>1, <1>2, InitTrackInv, ChainStaysInAgreement, PTL DEF Spec

=============================================================================
