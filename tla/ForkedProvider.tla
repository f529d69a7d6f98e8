--------------------------- MODULE ForkedProvider --------------------------
(***************************************************************************)
(* The provider of a katana that forks another network.  A read looks at   *)
(* the local layer (ForkedStateDb, or the snapshot of an earlier block),   *)
(* then at the cache shared by all of them (SharedStateProvider), and then *)
(* asks the backend thread, which sends one request per key to the remote  *)
(* node and answers everybody who waits for it.  Reader threads interleave *)
(* with each other, with the backend and with the blocks that the producer *)
(* inserts.  An Option is a set of at most one element.                    *)
(***************************************************************************)
EXTENDS Integers, Sequences

CONSTANTS
    Threads,      \* the threads that read
    Addresses,    \* contract addresses
    Hashes,       \* class hashes; compiled class hashes are other numbers
    Remote,       \* the state at the forked block: [nonce, class_hash, storage, compiled]
    Histories,    \* the sequences of state updates the local blocks may carry
    Reads,        \* the keys that are read
    MaxReads,     \* bound: how many reads are made
    MaxFailures,  \* bound: how many requests to the remote node fail
    Capacity,     \* of the channel to the backend: 100 and one for its sender
    HistoryLimit, MinHistoryLimit \* of HistoricalStates: 500 and 10

Kinds == {"nonce", "class_hash", "storage", "class", "compiled"}
Keys == [kind : Kinds \ {"class", "compiled"}, id : Addresses] \cup [kind : {"class", "compiled"}, id : Hashes]

\* Nonces and class hashes are numbers, 0 the default of both.
ASSUME ForkAssumption ==
    /\ Hashes \subseteq Nat \ {0}
    /\ DOMAIN Remote.nonce \subseteq Addresses
    /\ DOMAIN Remote.class_hash = DOMAIN Remote.nonce /\ DOMAIN Remote.storage = DOMAIN Remote.nonce
    /\ DOMAIN Remote.compiled \subseteq Hashes
    /\ HistoryLimit \in Nat /\ MinHistoryLimit \in 1..HistoryLimit /\ Capacity \in Nat \ {0}
    /\ Reads \subseteq Keys
    /\ MaxReads \in Nat /\ MaxFailures \in Nat

\* The state updates of the local blocks: the nonces they set and the classes they
\* deploy are not 0. A compiled class hash is not the hash of a class.
Updates == UNION {{h[i] : i \in DOMAIN h} : h \in Histories}
ASSUME UpdatesAssumption ==
    /\ \A h \in Histories : h \in Seq(Updates)
    /\ \A u \in Updates :
           /\ \A x \in DOMAIN u.nonce_updates : u.nonce_updates[x] # 0
           /\ \A x \in DOMAIN u.deployed_contracts : u.deployed_contracts[x] # 0
    /\ \A h \in DOMAIN Remote.compiled : Remote.compiled[h] \notin Hashes

VARIABLES
    history,    \* the updates of the local blocks to come
    local,      \* ForkedStateDb: [nonce, class_hash, storage, compiled]
    classes,    \* shared_contract_classes of ForkedStateDb and of its snapshots
    cache,      \* SharedStateProvider: the same and its own classes
    blocks,     \* the updates of the blocks inserted so far
    snapshots,  \* the snapshot of each of them
    present,    \* the blocks HistoricalStates still has
    limit,      \* in_memory_limit
    thread,     \* what each reader does
    reads,      \* how many reads were begun
    incoming,   \* the channel to the backend
    dedup,      \* request_dedup_map: key -> the threads that wait
    pending,    \* pending_requests: the keys whose request is in flight
    answers,    \* answers of the remote node not yet polled
    inbox,      \* the oneshot channels: thread -> responses
    woken,      \* the backend is to be polled
    failures

stateVars == <<history, local, classes, blocks, snapshots, present, limit>>
backendVars == <<incoming, dedup, pending, answers, woken, failures>>
vars == <<stateVars, backendVars, cache, thread, reads, inbox>>

Empty == [x \in {} |-> 0]
NewStateDb == [nonce |-> Empty, class_hash |-> Empty, storage |-> Empty, compiled |-> Empty]
Idle == [pc |-> "idle"]

Init ==
    /\ history \in Histories
    /\ local = NewStateDb /\ classes = {}
    /\ cache = [nonce |-> Empty, class_hash |-> Empty, storage |-> Empty, compiled |-> {}, classes |-> {}]
    /\ blocks = <<>> /\ snapshots = <<>> /\ present = <<>> /\ limit = HistoryLimit
    /\ thread = [t \in Threads |-> Idle] /\ reads = 0
    /\ incoming = <<>> /\ dedup = Empty /\ pending = {} /\ answers = Empty
    /\ inbox = [t \in Threads |-> {}]
    /\ woken = FALSE /\ failures = 0

Entry(f, x) == {f[y] : y \in DOMAIN f \cap {x}}
OrZero(option) == IF option = {} THEN 0 ELSE CHOOSE x \in option : TRUE
NonZero(option) == option \ {0}

\* The entries of g inserted in the map f.
Upsert(f, g) == [x \in DOMAIN f \cup DOMAIN g |-> IF x \in DOMAIN g THEN g[x] ELSE f[x]]

-----------------------------------------------------------------------------
(* insert_block_with_states_and_receipts, and HistoricalStates::insert *)

InsertUpdates(db, u) ==
    [nonce |-> Upsert(db.nonce, u.nonce_updates),
     class_hash |-> Upsert(db.class_hash, u.deployed_contracts),
     storage |-> Upsert(db.storage, u.storage_updates),
     compiled |-> Upsert(db.compiled, u.declared_classes)]

\* The oldest states are evicted until there is room for one more.
EnforceLimits(states, max) ==
    SubSeq(states, IF Len(states) >= max THEN Len(states) - max + 2 ELSE 1, Len(states))

\* The body of the block, which no read below looks at, is left out.
InsertBlock ==
    /\ history # <<>>
    /\ history' = Tail(history)
    /\ blocks' = Append(blocks, Head(history))
    /\ local' = InsertUpdates(local, Head(history))
    /\ classes' = classes \cup DOMAIN Head(history).declared_classes
    /\ snapshots' = Append(snapshots, local')
    /\ limit' = IF Len(present) >= limit /\ limit > MinHistoryLimit THEN limit - 1 ELSE limit
    /\ present' = Append(EnforceLimits(present, limit'), Len(blocks) + 1)
    /\ UNCHANGED <<backendVars, cache, thread, reads, inbox>>

-----------------------------------------------------------------------------
(* The layers a read goes through *)

\* ForkedStateDb: what the local layer db has for key.
LocalRead(db, key) ==
    CASE key.kind = "nonce" ->
            IF OrZero(Entry(db.nonce, key.id)) # 0 \/ OrZero(Entry(db.class_hash, key.id)) # 0
            THEN {OrZero(Entry(db.nonce, key.id))} ELSE {}
      [] key.kind = "class_hash" -> NonZero(Entry(db.class_hash, key.id))
      [] key.kind = "storage" -> Entry(db.storage, key.id)
      [] key.kind = "class" -> {key.id} \cap classes
      [] key.kind = "compiled" -> Entry(db.compiled, key.id)

\* ForkedSnapshot: a class counts only when the snapshot has its compiled hash.
SnapshotRead(number, key) ==
    IF key.kind = "class" /\ key.id \notin DOMAIN snapshots[number].compiled
    THEN {}
    ELSE LocalRead(snapshots[number], key)

\* Plausible bug: a nonce of 0 in the cache is taken for a fetched one.
CacheReadZero(key) ==
    CASE key.kind = "nonce" ->
            IF key.id \in DOMAIN cache.class_hash \cup DOMAIN cache.nonce
            THEN {OrZero(Entry(cache.nonce, key.id))} ELSE {}
      [] key.kind = "class_hash" -> NonZero(Entry(cache.class_hash, key.id))
      [] key.kind = "storage" -> Entry(cache.storage, key.id)
      [] key.kind = "class" -> {key.id} \cap cache.classes
      [] key.kind = "compiled" -> {key.id} \cap cache.compiled

\* SharedStateProvider: what the cache has for key.  Nonce and class hash share an
\* entry, in which 0 stands for not fetched.
CacheRead(key) ==
    CASE key.kind = "nonce" -> NonZero(Entry(cache.nonce, key.id))
      [] key.kind = "class_hash" -> NonZero(Entry(cache.class_hash, key.id))
      [] key.kind = "storage" -> Entry(cache.storage, key.id)
      [] key.kind = "class" -> {key.id} \cap cache.classes
      [] key.kind = "compiled" -> {key.id} \cap cache.compiled

Put(f, x, option) == Upsert(f, [y \in {x} |-> OrZero(option)])

\* What the cache becomes once value, an Option, was fetched for key.  Storage is
\* cached also when the contract does not exist, then as 0.  A compiled class hash
\* is entered under itself, not under the hash of its class.
CacheWith(key, value) ==
    CASE key.kind = "storage" -> [cache EXCEPT !.storage = Put(@, key.id, value)]
      [] key.kind # "storage" /\ value = {} -> cache
      [] key.kind = "nonce" /\ value # {} -> [cache EXCEPT !.nonce = Put(@, key.id, value)]
      [] key.kind = "class_hash" /\ value # {} -> [cache EXCEPT !.class_hash = Put(@, key.id, value)]
      [] key.kind = "class" /\ value # {} -> [cache EXCEPT !.classes = @ \cup value]
      [] key.kind = "compiled" /\ value # {} -> [cache EXCEPT !.compiled = @ \cup value]

-----------------------------------------------------------------------------
(* A reader *)

\* The views a reader may take: the latest state, or a block that is in the history.
Views == {0} \cup {present[i] : i \in DOMAIN present}

\* value, an Option, or an error is what the read returns.
Return(t, ok, value) ==
    thread' = [thread EXCEPT ![t] = [pc |-> "done", view |-> @.view, key |-> @.key,
                                     since |-> @.since, ok |-> ok, value |-> value]]

\* A read is given to a provider, which looks at its local layer; since is the number
\* of local blocks then.
ReadLocal(t) ==
    /\ thread[t] = Idle /\ reads < MaxReads
    /\ reads' = reads + 1
    /\ \E view \in Views, key \in Reads :
          LET hit == IF view = 0 THEN LocalRead(local, key) ELSE SnapshotRead(view, key)
          IN  thread' = [thread EXCEPT ![t] =
                  IF hit # {}
                  THEN [pc |-> "done", view |-> view, key |-> key, since |-> Len(blocks),
                        ok |-> TRUE, value |-> hit]
                  ELSE [pc |-> "cache", view |-> view, key |-> key, since |-> Len(blocks)]]
    /\ UNCHANGED <<stateVars, backendVars, cache, inbox>>

Go(t, pc) == thread' = [thread EXCEPT ![t].pc = pc]

ReadCache(t) ==
    /\ thread[t].pc = "cache"
    /\ IF CacheRead(thread[t].key) # {}
       THEN Return(t, TRUE, CacheRead(thread[t].key))
       ELSE Go(t, "send")
    /\ UNCHANGED <<stateVars, backendVars, cache, reads, inbox>>

\* The request behind a read: the compiled hash is computed from the class.
RequestKey(key) == IF key.kind = "compiled" THEN [key EXCEPT !.kind = "class"] ELSE key

RoomInChannel == Len(incoming) < Capacity

\* try_send: an error when the channel is full.
Send(t) ==
    /\ thread[t].pc = "send"
    /\ IF RoomInChannel
       THEN /\ incoming' = Append(incoming, [key |-> RequestKey(thread[t].key), sender |-> t])
            /\ woken' = TRUE
            /\ Go(t, "recv")
       ELSE /\ Return(t, FALSE, {})
            /\ UNCHANGED <<incoming, woken>>
    /\ UNCHANGED <<stateVars, cache, reads, dedup, pending, answers, failures, inbox>>

\* rx.recv() and handle_not_found_err; what was found goes to the cache next.
Receive(t) ==
    /\ thread[t].pc = "recv" /\ inbox[t] # {}
    /\ inbox' = [inbox EXCEPT ![t] = {}]
    /\ \E response \in inbox[t] :
          IF response.ok
          THEN thread' = [thread EXCEPT ![t] = [pc |-> "store", view |-> @.view, key |-> @.key,
                             since |-> @.since,
                             value |-> IF @.key.kind = "compiled"
                                       THEN {Remote.compiled[h] : h \in response.value}
                                       ELSE response.value]]
          ELSE Return(t, FALSE, {})
    /\ UNCHANGED <<stateVars, backendVars, cache, reads>>

Store(t) ==
    /\ thread[t].pc = "store"
    /\ cache' = CacheWith(thread[t].key, thread[t].value)
    /\ Return(t, TRUE, thread[t].value)
    /\ UNCHANGED <<stateVars, backendVars, reads, inbox>>

End(t) ==
    /\ thread[t].pc = "done"
    /\ thread' = [thread EXCEPT ![t] = Idle]
    /\ UNCHANGED <<stateVars, backendVars, cache, reads, inbox>>

-----------------------------------------------------------------------------
(* The backend thread *)

\* What the remote node answers: nothing for a contract or a class it does not have.
RemoteValue(key) ==
    CASE key.kind = "nonce" -> Entry(Remote.nonce, key.id)
      [] key.kind = "class_hash" -> Entry(Remote.class_hash, key.id)
      [] key.kind = "storage" -> Entry(Remote.storage, key.id)
      [] key.kind = "class" -> {key.id} \cap DOMAIN Remote.compiled

Unanswered == pending \ DOMAIN answers

Answer ==
    \E key \in Unanswered :
        /\ answers' = Upsert(answers, [k \in {key} |-> [ok |-> TRUE, value |-> RemoteValue(key)]])
        /\ woken' = TRUE
        /\ UNCHANGED <<stateVars, cache, thread, reads, incoming, dedup, pending, failures, inbox>>

Fail ==
    \E key \in Unanswered :
        /\ failures < MaxFailures
        /\ failures' = failures + 1
        /\ answers' = Upsert(answers, [k \in {key} |-> [ok |-> FALSE, value |-> {}]])
        /\ woken' = TRUE
        /\ UNCHANGED <<stateVars, cache, thread, reads, incoming, dedup, pending, inbox>>

Senders(key) == {incoming[i].sender : i \in {j \in DOMAIN incoming : incoming[j].key = key}}
Requested == {incoming[i].key : i \in DOMAIN incoming}

\* Plausible bug: an answered key stays in the map, so a later request for it starts nothing.
UnansweredDedupKept == dedup

\* Who is left in the map once the answers were sent: their keys are removed.
UnansweredDedup == [key \in DOMAIN dedup \ DOMAIN answers |-> dedup[key]]

\* Plausible bug: a request for a key that is in flight takes the place of who waits for it.
WaitersReplaced(map, key) ==
    IF key \in Requested THEN Senders(key) ELSE map[key]

\* dedup_request: a request joins the one in flight for its key, if there is one.
Waiters(map, key) == (UNION Entry(map, key)) \cup Senders(key)

\* One poll of the backend: the answers go to all who wait for them, then the
\* requests in the channel are taken, and those for a key that is not in the map
\* become requests to the remote node.
PollBackend ==
    /\ woken
    /\ woken' = FALSE
    /\ inbox' = [t \in Threads |->
            inbox[t] \cup {answers[key] : key \in {k \in DOMAIN answers : t \in dedup[k]}}]
    /\ answers' = Empty
    /\ dedup' = [key \in DOMAIN UnansweredDedup \cup Requested |-> Waiters(UnansweredDedup, key)]
    /\ pending' = (pending \ DOMAIN answers) \cup (Requested \ DOMAIN UnansweredDedup)
    /\ incoming' = <<>>
    /\ UNCHANGED <<stateVars, cache, thread, reads, failures>>

-----------------------------------------------------------------------------

Step(t) == ReadCache(t) \/ Send(t) \/ Receive(t) \/ Store(t) \/ End(t)

Next ==
    \/ InsertBlock
    \/ \E t \in Threads : ReadLocal(t) \/ Step(t)
    \/ Answer \/ Fail \/ PollBackend

Spec == Init /\ [][Next]_vars

\* A thread that reads keeps running, the backend is polled when it is woken and the
\* remote node answers or fails.
FairSpec ==
    /\ Spec
    /\ \A t \in Threads : WF_vars(Step(t))
    /\ WF_vars(Answer \/ Fail) /\ WF_vars(PollBackend)

-----------------------------------------------------------------------------
(* Properties *)

\* The history holds the latest blocks without a gap, and at least MinHistoryLimit of
\* them once there are as many (HistoricalStates::insert).
HistoryType ==
    /\ Len(present) <= limit
    /\ Len(present) >= (IF Len(blocks) < MinHistoryLimit THEN Len(blocks) ELSE MinHistoryLimit)
    /\ \A i \in DOMAIN present : present[i] = Len(blocks) - Len(present) + i

\* The variables keep the shapes of the structures they stand for.
TypeInv ==
    /\ HistoryType
    /\ Len(snapshots) = Len(blocks) /\ limit \in MinHistoryLimit..HistoryLimit
    /\ Len(incoming) <= Capacity
    /\ DOMAIN answers \subseteq pending /\ pending \subseteq DOMAIN dedup
    /\ \A key \in DOMAIN dedup : key \in Keys /\ dedup[key] \in SUBSET Threads

\* The value of key after the first n local blocks: what the last of them that names
\* it says, or else the forked state.
Last(n, Has(_)) == {i \in 1..n : Has(i) /\ \A j \in (i + 1)..n : ~Has(j)}
Expected(n, key) ==
    LET field == CASE key.kind = "nonce" -> "nonce_updates"
                   [] key.kind = "class_hash" -> "deployed_contracts"
                   [] key.kind = "storage" -> "storage_updates"
                   [] key.kind \in {"class", "compiled"} -> "declared_classes"
        named == Last(n, LAMBDA i : key.id \in DOMAIN blocks[i][field])
        found == CASE key.kind = "class" -> {key.id : i \in named}
                   [] key.kind = "compiled" /\ named = {} -> Entry(Remote.compiled, key.id)
                   [] OTHER -> {blocks[i][field][key.id] : i \in named}
    IN  OrZero(IF found = {} /\ key.kind # "compiled" THEN RemoteValue(key) ELSE found)

\* The class of a contract of the forked network is replaced locally and its nonce
\* is not set: its local nonce is 0, which hides the remote one.
Replaced(n, key) ==
    /\ key.kind = "nonce"
    /\ key.id \in DOMAIN Remote.nonce
    /\ \E i \in 1..n : key.id \in DOMAIN blocks[i].deployed_contracts
    /\ \A i \in 1..n : key.id \notin DOMAIN blocks[i].nonce_updates

\* A read that does not fail returns the value at its block: the forked state with
\* the local updates up to it on top.  A read of the latest state may return the
\* value of any moment between its start and its end.  So no cached default, no
\* answer meant for another key and no later block shows through a snapshot.
ReadsExact ==
    \A t \in Threads :
        (thread[t].pc = "done" /\ thread[t].ok) =>
            \E n \in IF thread[t].view = 0 THEN thread[t].since..Len(blocks) ELSE {thread[t].view} :
                \/ OrZero(thread[t].value) = Expected(n, thread[t].key)
                \/ Replaced(n, thread[t].key)

\* Who waits for a response is in the channel, in the map, or has it: no sender is
\* forgotten when requests are merged (dedup_request, the poll of Backend). The channel,
\* the map, the history and the other variables have their types.
WaitersKnown ==
    /\ TypeInv
    /\ \A t \in Threads :
          thread[t].pc = "recv" =>
              \/ inbox[t] # {}
              \/ t \in Senders(RequestKey(thread[t].key))
              \/ \E key \in DOMAIN dedup : key = RequestKey(thread[t].key) /\ t \in dedup[key]

\* Every read returns (the wakers of Backend, request_dedup_map).
ReadsReturn == \A t \in Threads : (thread[t].pc # "idle") ~> (thread[t].pc = "idle")
=============================================================================
