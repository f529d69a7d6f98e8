------------------------------ MODULE Migration ------------------------------
(***************************************************************************)
(* `sozo migrate` run from several accounts against one chain              *)
(* (crates/sozo/ops/src/migrate/mod.rs, crates/dojo/world/src/diff,        *)
(* crates/dojo/utils/src/tx).  A run reads the events of the mined blocks  *)
(* once, compares them with the local project and then sends, phase by     *)
(* phase, the transactions that are missing, waiting for each.  Runs of    *)
(* two accounts interleave, transactions fail or are waited for in vain,   *)
(* and a run is started again, from a new diff.                            *)
(***************************************************************************)
EXTENDS World, Sequences, SequencesExt, FiniteSetsExt

CONSTANTS
    Local,         \* the local project: [classes, writers, owners]
    OrderInits,    \* order_inits of the profile: a sequence of contracts
    Keepers,       \* the accounts that run the migration again; the others run it once
    AuthCalls,     \* the calls of `sozo auth` that accounts may make meanwhile
    Starts,        \* the states of the chain to start from: [world, declared, remote,
                   \* sequential], the last the accounts whose profile has disable_multicall
    MaxDisturbances   \* bound: failed requests, timeouts and calls of `sozo auth`

\* What the storage of the world, or the picture of it, may be.
Worlds ==
    [classes : [Selectors -> Nat], owners : SUBSET (Selectors \X Addresses),
     writers : SUBSET (Selectors \X Addresses), initialized : SUBSET Contracts]

\* The picture m has everything of the world w but some accounts that own a resource.
Rebuilt(w, m) ==
    /\ m.classes = w.classes
    /\ m.initialized = w.initialized
    /\ m.writers = w.writers
    /\ m.owners \subseteq w.owners
    /\ \A o \in w.owners \ m.owners : o[1] # WORLD /\ o[2] \in Accounts

\* Rights are on what is registered, and nothing is registered before the world is.
RightsRooted(w) ==
    /\ \A o \in w.owners \cup w.writers : Registered(w, o[1])
    /\ \A s \in Selectors : Registered(w, s) => Registered(w, WORLD)

\* A namespace has no class: it is registered, or not.
PlainNamespaces(classes) == \A n \in Namespaces : classes[n] <= 1

\* A project has a world class; the calls of `sozo auth` grant and revoke; and the chain
\* starts with no world or with what an earlier migration left.
ASSUME MigrationAssumption ==
    /\ IsFiniteSet(Namespaces) /\ IsFiniteSet(Resources)
    /\ Local.classes \in [Selectors -> Nat] /\ Local.classes[WORLD] > 0
    /\ PlainNamespaces(Local.classes)
    /\ Local.writers \cup Local.owners \subseteq Selectors \X Contracts
    /\ OrderInits \in Seq(Resources)
    /\ Keepers \subseteq Accounts
    /\ AuthCalls \subseteq [fn : Grants, r : Selectors, x : Addresses]
    /\ \A s \in Starts :
          /\ s.world \in Worlds /\ s.remote \in Worlds /\ PlainNamespaces(s.world.classes)
          /\ Rebuilt(s.world, s.remote) /\ RightsRooted(s.world)
    /\ MaxDisturbances \in Nat

VARIABLES
    world,      \* the storage of the world contract, the pending block included
    declared,   \* the classes declared on the chain, as <<selector, version>>
    remote,     \* match_event folded over every event of the world
    mined,      \* the same over the events of the mined blocks
    mig,        \* the run of each account
    disturbances

chain == <<world, declared, remote>>
vars == <<world, declared, remote, mined, mig, disturbances>>

Phases == <<"world", "resources", "permissions", "init", "done">>
Active == {Phases[i] : i \in 1..4}

NewRun == [phase |-> "idle", seen |-> NoWorld, declares |-> {}, todo |-> {},
           tx |-> <<>>, status |-> "none", final |-> FALSE, waiting |-> FALSE,
           misled |-> FALSE, sequential |-> FALSE]

Init ==
    /\ \E s \in Starts :
          /\ world = s.world /\ declared = s.declared
          /\ remote = s.remote /\ mined = s.remote
          /\ mig = [a \in Accounts |-> [NewRun EXCEPT !.sequential = a \in s.sequential]]
    /\ disturbances = 0

-----------------------------------------------------------------------------
(* The diff, and the transactions of each phase *)

\* The members of S that the project has.
LocalNames(S) == {r \in S : Local.classes[r] > 0}

\* ResourceDiff::Created: nothing at that selector, or a library of another class.
Created(seen, r) ==
    \/ seen.classes[r] = 0
    \/ r \in Resources /\ Kind[r] = "Library" /\ seen.classes[r] # Local.classes[r]

Updated(seen, r) == ~Created(seen, r) /\ seen.classes[r] # Local.classes[r]

\* WorldStatus::Synced
WorldSynced(seen) == seen.classes[WORLD] = Local.classes[WORLD]

\* The names of a kind that the project has.
LocalOf(kind) == LocalNames({r \in Resources : Kind[r] = kind})

\* The classes that a phase declares before its calls; each has a call, so that
\* a phase ends with a transaction that was waited for.
Declares(phase, seen) ==
    CASE phase = "world" ->
            IF WorldSynced(seen) THEN {} ELSE {<<WORLD, Local.classes[WORLD]>>}
      [] phase = "resources" ->
            {<<r, Local.classes[r]>> : r \in {r \in LocalNames(Resources) :
                                                Created(seen, r) \/ Updated(seen, r)}}
      [] OTHER -> {}

EnsureWorldCalls(seen) ==
    IF WorldSynced(seen) THEN {}
    ELSE {Call(IF seen.classes[WORLD] = 0 THEN "deploy_world" ELSE "upgrade_world",
               WORLD, Local.classes[WORLD])}

NamespaceCalls(seen) ==
    {Call("register_namespace", n, 1) : n \in {n \in LocalNames(Namespaces) : Created(seen, n)}}

\* A resource of the diff is registered, upgraded, or left alone.
SyncCalls(seen, kind, register, upgrade) ==
    {Call(register, r, Local.classes[r]) : r \in {r \in LocalOf(kind) : Created(seen, r)}}
    \cup {Call(upgrade, r, Local.classes[r]) : r \in {r \in LocalOf(kind) : Updated(seen, r)}}

ContractCalls(seen) == SyncCalls(seen, "Contract", "register_contract", "upgrade_contract")
ModelCalls(seen) == SyncCalls(seen, "Model", "register_model", "upgrade_model")
EventCalls(seen) == SyncCalls(seen, "Event", "register_event", "upgrade_event")

\* A library is never upgraded: another class of it is Created.
LibraryCalls(seen) ==
    {Call("register_library", r, Local.classes[r]) :
        r \in {r \in LocalOf("Library") : Created(seen, r)}}

ResourceCalls(seen) ==
    NamespaceCalls(seen) \cup ContractCalls(seen) \cup LibraryCalls(seen)
    \cup ModelCalls(seen) \cup EventCalls(seen)

PermissionCalls(seen) ==
    {Call("grant_writer", p[1], p[2]) : p \in Local.writers \ seen.writers}
    \cup {Call("grant_owner", p[1], p[2]) : p \in Local.owners \ seen.owners}

InitCalls(seen) ==
    {Call("init_contract", c, 0) :
        c \in {c \in LocalOf("Contract") : Created(seen, c) \/ c \notin seen.initialized}}

\* The calls that the diff asks for in a phase.
CallsOf(phase, seen) ==
    CASE phase = "world" -> EnsureWorldCalls(seen)
      [] phase = "resources" -> ResourceCalls(seen)
      [] phase = "permissions" -> PermissionCalls(seen)
      [] phase = "init" -> InitCalls(seen)
      [] OTHER -> {}

(* Plausible bug: the configured order of the initialisations is reversed. *)
RankReversed(c) ==
    CASE c.fn = "register_namespace" -> 0
      [] c.fn = "init_contract" /\ Contains(OrderInits, c.r) ->
            Len(OrderInits) + 1 - (CHOOSE i \in DOMAIN OrderInits : OrderInits[i] = c.r)
      [] OTHER -> Len(OrderInits) + 1

\* Namespaces are registered first; inits follow the configured order, then the rest.
Rank(c) ==
    CASE c.fn = "register_namespace" -> 0
      [] c.fn = "init_contract" /\ Contains(OrderInits, c.r) ->
            CHOOSE i \in DOMAIN OrderInits : OrderInits[i] = c.r
      [] OTHER -> Len(OrderInits) + 1

First(todo) == {c \in todo : \A d \in todo : Rank(c) <= Rank(d)}

\* The calls of a multicall, those of one rank in some order: the only member of the set.
InOrder(todo) ==
    LET order[n \in 0..Cardinality(todo)] ==
            IF n = 0 THEN {<<>>}
            ELSE {Append(tx, CHOOSE c \in First(todo \ ToSet(tx)) : TRUE) : tx \in order[n - 1]}
    IN  order[Cardinality(todo)]

\* The run goes on to the next phase that has anything to do: a phase without
\* transactions does nothing.
Enter(i, m) ==
    LET works(k) == \/ Declares(Phases[k], m.seen) \ declared # {}
                    \/ CallsOf(Phases[k], m.seen) # {}
        j == Min({k \in i..4 : works(k)} \cup {5})
    IN [m EXCEPT !.phase = Phases[j],
                 !.seen = IF j = 5 THEN NoWorld ELSE @,
                 !.declares = Declares(Phases[j], m.seen) \ declared,
                 !.todo = CallsOf(Phases[j], m.seen)]

Finished(m) == m.declares \ declared = {} /\ m.todo = {}
GoOn(m) ==
    IF Finished(m) THEN Enter(1 + (CHOOSE i \in 1..4 : Phases[i] = m.phase), m) ELSE m

-----------------------------------------------------------------------------
(* The chain *)

Now == [world |-> world, declared |-> declared, remote |-> remote,
        ok |-> TRUE]

\* One call of a transaction of account a; declarations are external.
Apply(s, a, c) ==
    CASE ~s.ok -> s
      [] s.ok /\ c.fn = "declare" ->
            [s EXCEPT !.declared = @ \cup {<<c.r, c.x>>}, !.ok = <<c.r, c.x>> \notin s.declared]
      [] OTHER ->
            IF Accepts(s.world, s.declared, a, c)
            THEN [s EXCEPT !.world = Effect(s.world, a, c),
                           !.remote = MatchEvent(s.remote, a, c)]
            ELSE [s EXCEPT !.ok = FALSE]

\* A transaction executes all its calls or none: the states it may lead to.
Outcomes(a, tx) ==
    LET after[n \in 0..Len(tx)] ==
            IF n = 0 THEN {Now} ELSE {Apply(s, a, tx[n]) : s \in after[n - 1]}
    IN  after[Len(tx)]

Take(s) ==
    world' = s.world /\ declared' = s.declared /\ remote' = s.remote

Execute(a) ==
    /\ mig[a].status = "sent"
    /\ \E s \in Outcomes(a, mig[a].tx) :
          /\ IF s.ok THEN Take(s) ELSE UNCHANGED chain
          /\ mig' = [mig EXCEPT ![a].status = IF s.ok THEN "ok" ELSE "reverted",
                                ![a].final = FALSE]
    /\ UNCHANGED <<mined, disturbances>>

MineBlock ==
    /\ mined # remote \/ \E a \in Accounts : mig[a].status = "reverted" /\ ~mig[a].final
    /\ mined' = remote
    /\ mig' = [a \in Accounts |-> [mig[a] EXCEPT !.final = mig[a].status = "reverted"]]
    /\ UNCHANGED <<chain, disturbances>>

\* Another transaction of an account that may: sozo auth grant and revoke.
Authorize(a) ==
    /\ disturbances < MaxDisturbances
    /\ disturbances' = disturbances + 1
    /\ \E c \in AuthCalls : \E s \in Outcomes(a, <<c>>) : s.ok /\ Take(s)
    /\ UNCHANGED <<mined, mig>>

-----------------------------------------------------------------------------
(* A run of sozo migrate *)

Fail(a) == [mig EXCEPT ![a].phase = "failed", ![a].seen = NoWorld, ![a].declares = {},
                       ![a].todo = {}, ![a].waiting = FALSE]

\* WorldDiff::new_from_chain: the deployment is looked up in the pending block,
\* the events are those of the mined ones (current_class_hash panics without any).
ReadDiff(a) ==
    /\ mig[a].phase \in {"idle"} \cup (IF a \in Keepers THEN {"done", "failed"} ELSE {})
    /\ IF Registered(world, WORLD) /\ ~Registered(mined, WORLD)
       THEN mig' = Fail(a)
       ELSE mig' = [mig EXCEPT ![a] =
                       Enter(1, [mig[a] EXCEPT !.seen = mined, !.misled = FALSE])]
    /\ UNCHANGED <<chain, mined, disturbances>>

Ready(a) == mig[a].phase \in Active /\ ~mig[a].waiting

\* The transactions that the run may send next; Declarer::declare sends none for
\* a class that is there already.
NextTxs(a) ==
    LET m == mig[a]
    IN IF m.declares \ declared # {}
       THEN {<<Call("declare", d[1], d[2])>> : d \in m.declares \ declared}
       ELSE IF ~m.sequential /\ m.todo # {} THEN InOrder(m.todo)
       ELSE {<<c>> : c \in First(m.todo)}

\* send_with_cfg.  An account has one transaction in the pool at a time.
Send(a) ==
    /\ Ready(a) /\ mig[a].status # "sent"
    /\ \E tx \in NextTxs(a) :
          /\ ~(tx[1].fn = "deploy_world" /\ Registered(world, WORLD))
          /\ mig' = [mig EXCEPT ![a].tx = tx, ![a].status = "sent", ![a].final = FALSE,
                                ![a].waiting = TRUE]
    /\ UNCHANGED <<chain, mined, disturbances>>

\* The fee estimation simulates the transaction and fails with it, the nonce is
\* taken by a transaction of an earlier run, or the world is there already
\* (deploy_via_udc answers Noop, which ensure_world calls unreachable).
SendRefused(a) ==
    /\ Ready(a)
    /\ \E tx \in NextTxs(a) : mig[a].status = "sent" \/ \E s \in Outcomes(a, tx) : ~s.ok
    /\ mig' = Fail(a)
    /\ UNCHANGED <<chain, mined, disturbances>>

(* evaluate_receipt_from_params with the defaults of TransactionWaiter::new: *)
(* a pending receipt must have succeeded, one in a block is taken as it is.  *)
(* A declaration that fails is rejected and has no receipt.                  *)
ReceiptOk(m) ==
    \/ m.status = "ok"
    \/ m.status = "reverted" /\ m.final /\ m.tx[1].fn # "declare"

ReceiptErr(m) == m.status = "reverted" /\ (~m.final \/ m.tx[1].fn = "declare")

(* Plausible bug: the rest of the phase is dropped with the first transaction. *)
ConsumedAll(m) == [m EXCEPT !.declares = {}, !.todo = {}]

\* What is left of the phase after the transaction.
Consumed(m) ==
    IF m.tx[1].fn = "declare"
    THEN [m EXCEPT !.declares = @ \ {<<m.tx[1].r, m.tx[1].x>>}]
    ELSE [m EXCEPT !.todo = @ \ ToSet(m.tx)]

WaitOk(a) ==
    /\ mig[a].waiting /\ ReceiptOk(mig[a])
    /\ \E m \in {[Consumed(mig[a]) EXCEPT !.waiting = FALSE, !.tx = <<>>, !.status = "none",
                                          !.final = FALSE,
                                          !.misled = @ \/ mig[a].status = "reverted"]} :
          mig' = [mig EXCEPT ![a] = GoOn(m)]
    /\ UNCHANGED <<chain, mined, disturbances>>

WaitErr(a) ==
    /\ mig[a].waiting /\ ReceiptErr(mig[a])
    /\ mig' = [Fail(a) EXCEPT ![a].tx = <<>>, ![a].status = "none", ![a].final = FALSE]
    /\ UNCHANGED <<chain, mined, disturbances>>

\* A request fails, the waiter's 30 seconds are over, or the run is interrupted:
\* a transaction already sent may be executed all the same.  (The run of another
\* account needs no such step: it may stop anywhere.)
Interrupted(a) ==
    /\ a \in Keepers /\ mig[a].phase \in Active
    /\ disturbances < MaxDisturbances
    /\ disturbances' = disturbances + 1
    /\ mig' = [Fail(a) EXCEPT ![a].tx = IF mig[a].status = "sent" THEN @ ELSE <<>>,
                              ![a].status = IF mig[a].status = "sent" THEN @ ELSE "none",
                              ![a].final = FALSE]
    /\ UNCHANGED <<chain, mined>>

\* What a run does by itself once it is started.
Step(a) ==
    \/ Send(a) \/ SendRefused(a)
    \/ WaitOk(a) \/ WaitErr(a)

Next ==
    \/ MineBlock
    \/ \E a \in Accounts :
          \/ ReadDiff(a) \/ Step(a) \/ Interrupted(a) \/ Execute(a) \/ Authorize(a)

Spec == Init /\ [][Next]_vars

(* The chain executes what a keeper sends and mines it; a keeper's run goes *)
(* on, and is started again.  Any other account may stop where it is.       *)
FairSpec ==
    /\ Spec
    /\ WF_vars(MineBlock)
    /\ \A a \in Keepers : WF_vars(Execute(a)) /\ WF_vars(Step(a) \/ ReadDiff(a))

-----------------------------------------------------------------------------
(* Properties *)

(* The storage of the contract and the runs of sozo have their types, and a *)
(* run waits only while its transaction is known.                           *)
TypeInv ==
    /\ {world, remote, mined} \cup {mig[a].seen : a \in Accounts} \subseteq Worlds
    /\ \A a \in Accounts :
          /\ mig[a].phase \in Active \cup {"idle", "done", "failed"}
          /\ mig[a].status \in {"none", "sent", "ok", "reverted"}
          /\ mig[a].waiting => mig[a].phase \in Active /\ mig[a].tx # <<>>

(* match_event rebuilds the contract from its events: the classes, the    *)
(* initialised contracts, the writers and the owners of the world are the *)
(* same, and so are the contracts that own something.  Only accounts may  *)
(* own more than the events say: registering makes an owner without an    *)
(* event.                                                                 *)
RemoteMatches == Rebuilt(world, remote)

(* Nobody holds a right on a selector at which nothing is registered, so a  *)
(* right cannot lie in wait for a resource: sozo grants after registering,  *)
(* and goes on when a registration was reverted in a mined block. Nothing   *)
(* is registered before the world. The variables have their types.          *)
RightsOnRegistered ==
    /\ TypeInv
    /\ RightsRooted(world)

Synced ==
    /\ \A s \in LocalNames(Selectors) : world.classes[s] = Local.classes[s]
    /\ Local.writers \subseteq world.writers /\ Local.owners \subseteq world.owners
    /\ LocalNames(Contracts) \subseteq world.initialized

(* A run that ends well, none of its transactions having been reverted, has *)
(* left the world as the local project describes it: whatever its diff had  *)
(* missed of the pending block, whatever the other run did in between, and  *)
(* whichever earlier run stopped half-way.                                  *)
SuccessMeansSynced ==
    \A a \in Accounts : mig[a].phase = "done" /\ ~mig[a].misled => Synced

(* must_succeed of the TransactionWaiter (waiter.rs): the result of a      *)
(* transaction that was waited for with the defaults "must be SUCCEEDED".  *)
WaitedSucceeded == \A a \in Accounts : ~mig[a].misled

(* A migration that the owner of the world runs again and again gets there, *)
(* wherever the runs before it stopped and whatever another account's run   *)
(* has done: the world comes to match the local project and stays so.       *)
Converges ==
    \A a \in Keepers : <>[]IsOwner(world, WORLD, a) => <>[]Synced
=============================================================================
