------------------------ MODULE InstantProducerProofs ------------------------
(***************************************************************************)
(* The validator of an instant-mining node is at the tip of the chain      *)
(* whenever it can be used, for any number of transactions, any block      *)
(* limit and any number of force_mine calls; what leaves the pool is what  *)
(* the listeners were told of; and the producer implements Ledger.         *)
(***************************************************************************)
EXTENDS InstantProducer, TLAPS

\* What a sequence holds comes from the set the sequence is over.
LEMMA ElemsType ==
    ASSUME NEW S, NEW s \in Seq(S)
    PROVE  Elems(s) \in SUBSET S
BY DEF Elems

\* The producer starts in a state of its type.
LEMMA InitType == Init => TypeInv
<1> SUFFICES ASSUME Init PROVE TypeInv
    OBVIOUS
<1>1. PoolType
  BY DEF Init, PoolType
<1>2. JobType
  BY DEF Init, JobType, JobRecord, NoJob
<1>3. PermitType
  BY DEF Init, PermitType, NoJob
<1>4. ChainType
  BY DEF Init, ChainType
<1>5. CallType
  BY DEF Init, CallType
<1> QED
  BY <1>1, <1>2, <1>3, <1>4, <1>5 DEF TypeInv

\* Every step of the producer, the job, the pool and force_mine keeps the
\* types, and the permit taken exactly while the job runs.
LEMMA NextType == TypeInv /\ [Next]_vars => TypeInv'
<1> SUFFICES ASSUME TypeInv, [Next]_vars PROVE TypeInv'
    OBVIOUS
<1>0. PoolType /\ JobType /\ PermitType /\ ChainType /\ CallType
  BY DEF TypeInv
<1>1. CASE Accept
  <2>1. PoolType'
    BY <1>0, <1>1 DEF Accept, PoolType, Tx
  <2>2. JobType'
    BY <1>0, <1>1 DEF Accept, JobType
  <2>3. PermitType'
    BY <1>0, <1>1 DEF Accept, PermitType
  <2>4. ChainType'
    BY <1>0, <1>1 DEF Accept, ChainType
  <2>5. CallType'
    BY <1>0, <1>1 DEF Accept, CallType
  <2> QED
    BY <2>1, <2>2, <2>3, <2>4, <2>5 DEF TypeInv
<1>2. CASE Queue
  <2>1. PoolType'
    BY <1>0, <1>2 DEF Queue, PoolType
  <2>2. JobType'
    BY <1>0, <1>2 DEF Queue, JobType
  <2>3. PermitType'
    BY <1>0, <1>2 DEF Queue, PermitType
  <2>4. ChainType'
    BY <1>0, <1>2 DEF Queue, ChainType
  <2>5. CallType'
    BY <1>0, <1>2 DEF Queue, CallType
  <2> QED
    BY <2>1, <2>2, <2>3, <2>4, <2>5 DEF TypeInv
<1>3. CASE JobLock
  <2>1. PoolType'
    BY <1>0, <1>3 DEF JobLock, PoolType, poolVars
  <2>2. JobType'
    BY <1>0, <1>3 DEF JobLock, JobType, JobRecord
  <2>3. PermitType'
    BY <1>0, <1>3 DEF JobLock, PermitType, JobType, JobRecord
  <2>4. ChainType'
    BY <1>0, <1>3 DEF JobLock, ChainType
  <2>5. CallType'
    BY <1>0, <1>3 DEF JobLock, CallType
  <2> QED
    BY <2>1, <2>2, <2>3, <2>4, <2>5 DEF TypeInv
<1>4. CASE JobExecute
  <2>1. PoolType'
    BY <1>0, <1>4 DEF JobExecute, PoolType, poolVars
  <2>2. JobType'
    <3>1. /\ job.todo \in Seq(Tx) /\ job.block \in Seq(Tx)
          /\ Head(job.todo) \in Tx /\ Tail(job.todo) \in Seq(Tx)
      BY <1>0, <1>4 DEF JobExecute, JobType, JobRecord
    <3>2. Append(job.block, Head(job.todo)) \in Seq(Tx)
      BY <3>1
    <3> QED
      BY <1>0, <1>4, <3>1, <3>2 DEF JobExecute, JobType, JobRecord
  <2>3. PermitType'
    BY <1>0, <1>4 DEF JobExecute, PermitType, JobType, JobRecord
  <2>4. ChainType'
    BY <1>0, <1>4 DEF JobExecute, ChainType
  <2>5. CallType'
    BY <1>0, <1>4 DEF JobExecute, CallType
  <2> QED
    BY <2>1, <2>2, <2>3, <2>4, <2>5 DEF TypeInv
<1>5. CASE JobStore
  <2>1. PoolType'
    BY <1>0, <1>5 DEF JobStore, UpdateValidator, PoolType, poolVars
  <2>2. JobType'
    BY <1>0, <1>5 DEF JobStore, UpdateValidator, JobType, JobRecord, NoJob
  <2>3. PermitType'
    BY <1>0, <1>5 DEF JobStore, UpdateValidator, PermitType, JobType, JobRecord, NoJob
  <2>4. ChainType'
    BY <1>0, <1>5 DEF JobStore, UpdateValidator, ChainType, JobType, JobRecord
  <2>5. CallType'
    BY <1>0, <1>5 DEF JobStore, UpdateValidator, CallType
  <2> QED
    BY <2>1, <2>2, <2>3, <2>4, <2>5 DEF TypeInv
<1>6. CASE JobFailure
  <2>1. PoolType'
    BY <1>0, <1>6 DEF JobFailure, PoolType, poolVars
  <2>2. JobType'
    BY <1>0, <1>6 DEF JobFailure, JobType, JobRecord, NoJob
  <2>3. PermitType'
    BY <1>0, <1>6 DEF JobFailure, PermitType, JobType, JobRecord, NoJob
  <2>4. ChainType'
    BY <1>0, <1>6 DEF JobFailure, ChainType
  <2>5. CallType'
    BY <1>0, <1>6 DEF JobFailure, CallType
  <2> QED
    BY <2>1, <2>2, <2>3, <2>4, <2>5 DEF TypeInv
<1>7. CASE PollSpawn
  <2>1. PoolType'
    BY <1>0, <1>7 DEF PollSpawn, PoolType, poolVars
  <2>2. JobType'
    <3>1. job' = [st |-> "spawned", by |-> "task", todo |-> queued,
                  block |-> <<>>]
      BY <1>7 DEF PollSpawn, NoJob
    <3> QED
      BY <1>0, <3>1 DEF PoolType, JobType, JobRecord
  <2>3. PermitType'
    BY <1>0, <1>7 DEF PollSpawn, PermitType, JobType, JobRecord, NoJob
  <2>4. ChainType'
    BY <1>0, <1>7 DEF PollSpawn, ChainType
  <2>5. CallType'
    BY <1>0, <1>7 DEF PollSpawn, CallType
  <2> QED
    BY <2>1, <2>2, <2>3, <2>4, <2>5 DEF TypeInv
<1>8. CASE PollMined
  <2>1. PoolType'
    BY <1>0, <1>8, ElemsType DEF PollMined, Settle, Announced, PoolType, JobType, JobRecord
  <2>2. JobType'
    BY <1>0, <1>8 DEF PollMined, Settle, JobType, JobRecord, NoJob
  <2>3. PermitType'
    BY <1>0, <1>8 DEF PollMined, Settle, PermitType, JobType, JobRecord, NoJob
  <2>4. ChainType'
    BY <1>0, <1>8 DEF PollMined, Settle, ChainType
  <2>5. CallType'
    BY <1>0, <1>8 DEF PollMined, Settle, CallType
  <2> QED
    BY <2>1, <2>2, <2>3, <2>4, <2>5 DEF TypeInv
<1>9. CASE PollFailed
  <2>1. PoolType'
    BY <1>0, <1>9 DEF PollFailed, PoolType, poolVars
  <2>2. JobType'
    BY <1>0, <1>9 DEF PollFailed, JobType, JobRecord, NoJob
  <2>3. PermitType'
    BY <1>0, <1>9 DEF PollFailed, PermitType, JobType, JobRecord, NoJob
  <2>4. ChainType'
    BY <1>0, <1>9 DEF PollFailed, ChainType
  <2>5. CallType'
    BY <1>0, <1>9 DEF PollFailed, CallType
  <2> QED
    BY <2>1, <2>2, <2>3, <2>4, <2>5 DEF TypeInv
<1>10. CASE ForceMine
  <2>1. PoolType'
    BY <1>0, <1>10 DEF ForceMine, PoolType, poolVars
  <2>2. JobType'
    <3>1. job' = [st |-> "spawned", by |-> "force", todo |-> queued,
                  block |-> <<>>]
      BY <1>10 DEF ForceMine, NoJob
    <3> QED
      BY <1>0, <3>1 DEF PoolType, JobType, JobRecord
  <2>3. PermitType'
    BY <1>0, <1>10 DEF ForceMine, PermitType, JobType, JobRecord, NoJob
  <2>4. ChainType'
    BY <1>0, <1>10 DEF ForceMine, ChainType
  <2>5. CallType'
    BY <1>0, <1>10 DEF ForceMine, CallType
  <2> QED
    BY <2>1, <2>2, <2>3, <2>4, <2>5 DEF TypeInv
<1>11. CASE UNCHANGED vars
  BY <1>0, <1>11 DEF vars, poolVars, TypeInv, PoolType, JobType, PermitType,
     ChainType, CallType
<1> QED
  BY <1>1, <1>2, <1>3, <1>4, <1>5, <1>6, <1>7, <1>8, <1>9, <1>10, <1>11
     DEF Next, Job, Poll

\* Type correctness of the instant block producer.
THEOREM TypeCorrect == Spec => []TypeInv
BY InitType, NextType, PTL DEF Spec

\* Whenever validate can take the permit, the validator reads the state of the
\* latest block. The permit is taken while do_mine runs, and only do_mine
\* changes the chain and the validator's state, both in the step that gives the
\* permit back; TypeInv's clause on the permit makes the argument inductive.
THEOREM ValidatorFollowsTip == Spec => []ValidatorAtTip
<1> DEFINE Sync == validator = Len(chain)
<1>1. Init => Sync
  BY DEF Init
<1>2. TypeInv /\ Sync /\ [Next]_vars => Sync'
  <2> SUFFICES ASSUME TypeInv, Sync, [Next]_vars PROVE Sync'
    OBVIOUS
  <2>1. CASE JobStore
    BY <2>1 DEF JobStore, UpdateValidator, TypeInv, ChainType
  <2>2. CASE UNCHANGED <<validator, chain>>
    BY <2>2
  <2> QED
    BY <2>1, <2>2 DEF Next, Job, Poll, vars, Accept, Queue, JobLock, JobExecute,
       JobFailure, PollSpawn, PollMined, PollFailed, ForceMine
<1>3. Sync => ValidatorAtTip
  BY DEF ValidatorAtTip
<1> QED
  BY <1>1, <1>2, <1>3, TypeCorrect, PTL DEF Spec

-----------------------------------------------------------------------------
(* Transactions stay in the order in which the pool accepted them, all the  *)
(* way from the pool's stream to the chain.                                 *)

Precede(S, T) == \A a \in S, b \in T : a < b

\* What is on its way to the chain, or in it, has been accepted.
KnownInv ==
    /\ Elems(incoming) \subseteq 1 .. accepted
    /\ Elems(queued) \subseteq 1 .. accepted
    /\ Elems(job.todo) \subseteq 1 .. accepted
    /\ Elems(job.block) \subseteq 1 .. accepted
    /\ Mined \subseteq 1 .. accepted

\* Every stage holds its transactions in order.
SortedInv ==
    /\ L!Increasing(incoming) /\ L!Increasing(queued)
    /\ L!Increasing(job.todo) /\ L!Increasing(job.block)

\* A later stage holds older transactions than an earlier one.
StagesInv ==
    /\ Precede(Elems(queued), Elems(incoming))
    /\ Precede(Elems(job.todo), Elems(queued) \union Elems(incoming))
    /\ Precede(Elems(job.block),
               Elems(job.todo) \union Elems(queued) \union Elems(incoming))

\* The chain holds older ones than every stage before it; the block of a job
\* that is not yet stored is newer, one that is stored is in the chain.
ChainInv ==
    /\ Precede(Mined,
               Elems(job.todo) \union Elems(queued) \union Elems(incoming))
    /\ job.st \in {"spawned", "running"} => Precede(Mined, Elems(job.block))
    /\ job.st = "done" => Elems(job.block) \subseteq Mined

OrderInv == KnownInv /\ SortedInv /\ StagesInv /\ ChainInv

\* What Append, concatenation and Tail do to the elements of a sequence.
LEMMA ElemsAppend ==
    ASSUME NEW S, NEW s \in Seq(S), NEW e \in S
    PROVE  Elems(Append(s, e)) = Elems(s) \union {e}
<1>1. /\ DOMAIN Append(s, e) = 1 .. Len(s) + 1 /\ DOMAIN s = 1 .. Len(s)
      /\ Len(s) \in Nat
  OBVIOUS
<1>2. \A i \in 1 .. Len(s) : Append(s, e)[i] = s[i]
  OBVIOUS
<1>3. Append(s, e)[Len(s) + 1] = e
  OBVIOUS
<1> QED
  BY <1>1, <1>2, <1>3 DEF Elems

\* The elements of two sequences joined.
LEMMA ElemsConcat ==
    ASSUME NEW S, NEW s \in Seq(S), NEW t \in Seq(S)
    PROVE  Elems(s \o t) = Elems(s) \union Elems(t)
<1>1. /\ DOMAIN (s \o t) = 1 .. Len(s) + Len(t) /\ DOMAIN s = 1 .. Len(s)
      /\ DOMAIN t = 1 .. Len(t) /\ Len(s) \in Nat /\ Len(t) \in Nat
  OBVIOUS
<1>2. \A i \in 1 .. Len(s) : (s \o t)[i] = s[i]
  OBVIOUS
<1>3. \A i \in 1 .. Len(t) : (s \o t)[Len(s) + i] = t[i]
  OBVIOUS
<1>4. \A i \in Len(s) + 1 .. Len(s) + Len(t) : (s \o t)[i] = t[i - Len(s)]
  OBVIOUS
<1>5. Elems(s \o t) \subseteq Elems(s) \union Elems(t)
  <2> SUFFICES ASSUME NEW i \in 1 .. Len(s) + Len(t)
               PROVE  (s \o t)[i] \in Elems(s) \union Elems(t)
    BY <1>1 DEF Elems
  <2>1. CASE i <= Len(s)
    BY <1>1, <1>2, <2>1 DEF Elems
  <2>2. CASE i > Len(s)
    BY <1>1, <1>4, <2>2 DEF Elems
  <2> QED
    BY <1>1, <2>1, <2>2
<1>6. Elems(s) \subseteq Elems(s \o t)
  BY <1>1, <1>2 DEF Elems
<1>7. Elems(t) \subseteq Elems(s \o t)
  <2> SUFFICES ASSUME NEW i \in 1 .. Len(t) PROVE t[i] \in Elems(s \o t)
    BY <1>1 DEF Elems
  <2>1. Len(s) + i \in 1 .. Len(s) + Len(t)
    BY <1>1
  <2> QED
    BY <1>1, <1>3, <2>1 DEF Elems
<1> QED
  BY <1>5, <1>6, <1>7

\* The head of a sequence is one of its elements, and its tail adds none.
LEMMA ElemsTail ==
    ASSUME NEW S, NEW s \in Seq(S), s # <<>>
    PROVE  Head(s) \in Elems(s) /\ Elems(Tail(s)) \subseteq Elems(s)
<1>1. /\ Len(s) \in Nat \ {0} /\ DOMAIN s = 1 .. Len(s)
      /\ DOMAIN Tail(s) = 1 .. Len(s) - 1 /\ Head(s) = s[1]
  OBVIOUS
<1>2. \A i \in 1 .. Len(s) - 1 : Tail(s)[i] = s[i + 1]
  OBVIOUS
<1> QED
  BY <1>1, <1>2 DEF Elems

\* The same for the order of a sequence.
LEMMA IncreasingEmpty == L!Increasing(<<>>) /\ Elems(<<>>) = {}
BY DEF L!Increasing, Elems

\* A later transaction appended keeps a sequence in the order of acceptance.
LEMMA IncreasingAppend ==
    ASSUME NEW s \in Seq(Tx), NEW e \in Tx, L!Increasing(s),
           Precede(Elems(s), {e})
    PROVE  L!Increasing(Append(s, e))
<1>1. /\ DOMAIN Append(s, e) = 1 .. Len(s) + 1 /\ DOMAIN s = 1 .. Len(s)
      /\ Len(s) \in Nat
  OBVIOUS
<1>2. \A i \in 1 .. Len(s) : Append(s, e)[i] = s[i] /\ s[i] < e
  BY <1>1 DEF Precede, Elems
<1>3. Append(s, e)[Len(s) + 1] = e
  OBVIOUS
<1> QED
  BY <1>1, <1>2, <1>3 DEF L!Increasing

\* Two sequences in order, the first before the second, are in order when joined.
LEMMA IncreasingConcat ==
    ASSUME NEW s \in Seq(Tx), NEW t \in Seq(Tx), L!Increasing(s),
           L!Increasing(t), Precede(Elems(s), Elems(t))
    PROVE  L!Increasing(s \o t)
<1>1. /\ DOMAIN (s \o t) = 1 .. Len(s) + Len(t) /\ DOMAIN s = 1 .. Len(s)
      /\ DOMAIN t = 1 .. Len(t) /\ Len(s) \in Nat /\ Len(t) \in Nat
  OBVIOUS
<1>2. \A i \in 1 .. Len(s) : (s \o t)[i] = s[i]
  OBVIOUS
<1>3. \A i \in Len(s) + 1 .. Len(s) + Len(t) :
          (s \o t)[i] = t[i - Len(s)] /\ i - Len(s) \in 1 .. Len(t)
  OBVIOUS
<1>4. \A i \in 1 .. Len(s), j \in 1 .. Len(t) : s[i] < t[j]
  BY <1>1 DEF Precede, Elems
<1> SUFFICES ASSUME NEW i \in 1 .. Len(s) + Len(t),
                    NEW j \in 1 .. Len(s) + Len(t), i < j
             PROVE  (s \o t)[i] < (s \o t)[j]
  BY <1>1 DEF L!Increasing
<1>5. CASE j <= Len(s)
  BY <1>1, <1>2, <1>5 DEF L!Increasing
<1>6. CASE i > Len(s)
  <2>1. i \in Len(s) + 1 .. Len(s) + Len(t) /\ j \in Len(s) + 1 .. Len(s) + Len(t)
    BY <1>1, <1>6
  <2>2. /\ i - Len(s) \in DOMAIN t /\ j - Len(s) \in DOMAIN t
        /\ i - Len(s) < j - Len(s)
    BY <1>1, <1>3, <2>1
  <2>3. t[i - Len(s)] < t[j - Len(s)]
    BY <2>2 DEF L!Increasing
  <2> QED
    BY <1>3, <2>1, <2>3
<1>7. CASE i <= Len(s) /\ j > Len(s)
  BY <1>1, <1>2, <1>3, <1>4, <1>7
<1> QED
  BY <1>1, <1>5, <1>6, <1>7

\* Without its head, which is before the rest, a sequence is still in order.
LEMMA IncreasingTail ==
    ASSUME NEW s \in Seq(Tx), s # <<>>, L!Increasing(s)
    PROVE  /\ L!Increasing(Tail(s))
           /\ Precede({Head(s)}, Elems(Tail(s)))
<1>1. /\ Len(s) \in Nat \ {0} /\ DOMAIN s = 1 .. Len(s)
      /\ DOMAIN Tail(s) = 1 .. Len(s) - 1 /\ Head(s) = s[1]
  OBVIOUS
<1>2. \A i \in 1 .. Len(s) - 1 : Tail(s)[i] = s[i + 1]
  OBVIOUS
<1>3. \A i, j \in 1 .. Len(s) : i < j => s[i] < s[j]
  BY <1>1 DEF L!Increasing
<1>4. L!Increasing(Tail(s))
  BY <1>1, <1>2, <1>3 DEF L!Increasing
<1>5. Precede({Head(s)}, Elems(Tail(s)))
  BY <1>1, <1>2, <1>3 DEF Precede, Elems
<1> QED
  BY <1>4, <1>5

\* A stored block adds its transactions to those of the chain.
LEMMA MinedAppend ==
    ASSUME ChainType, JobType, chain' = Append(chain, job.block)
    PROVE  Mined' = Mined \union Elems(job.block)
<1>1. job.block \in Seq(Tx) /\ chain \in Seq(Seq(Tx))
  BY DEF ChainType, JobType, JobRecord
<1>2. /\ DOMAIN chain' = 1 .. Len(chain) + 1 /\ DOMAIN chain = 1 .. Len(chain)
      /\ Len(chain) \in Nat
  BY <1>1
<1>3. \A n \in 1 .. Len(chain) : chain'[n] = chain[n]
  BY <1>1
<1>4. chain'[Len(chain) + 1] = job.block
  BY <1>1
<1>5. Mined' = UNION {Elems(chain'[n]) : n \in 1 .. Len(chain) + 1}
  BY <1>2 DEF Mined, Elems
<1>6. Mined = UNION {Elems(chain[n]) : n \in 1 .. Len(chain)}
  BY <1>2 DEF Mined
<1> QED
  BY <1>2, <1>3, <1>4, <1>5, <1>6

\* Every step keeps the order: a transaction only ever moves from one stage to
\* the next, behind everything that is there.
LEMMA OrderStep == TypeInv /\ OrderInv /\ [Next]_vars => OrderInv'
<1> SUFFICES ASSUME TypeInv, OrderInv, [Next]_vars PROVE OrderInv'
    OBVIOUS
<1>0. /\ PoolType /\ JobType /\ ChainType
      /\ KnownInv /\ SortedInv /\ StagesInv /\ ChainInv
  BY DEF TypeInv, OrderInv
<1>t. /\ accepted \in Nat /\ incoming \in Seq(Tx) /\ queued \in Seq(Tx)
      /\ job.todo \in Seq(Tx) /\ job.block \in Seq(Tx)
  BY <1>0 DEF PoolType, JobType, JobRecord
<1>1. CASE Accept
  <2>1. /\ accepted' = accepted + 1 /\ accepted + 1 \in Tx
        /\ incoming' = Append(incoming, accepted + 1)
        /\ queued' = queued /\ job' = job /\ chain' = chain
    BY <1>1, <1>t DEF Accept, Tx
  <2>2. Elems(incoming') = Elems(incoming) \union {accepted + 1}
    BY <1>t, <2>1, ElemsAppend
  <2>3. Mined' = Mined
    BY <2>1 DEF Mined
  <2>4. KnownInv'
    BY <1>0, <1>t, <2>1, <2>2, <2>3 DEF KnownInv
  <2>5. SortedInv'
    <3>1. Precede(Elems(incoming), {accepted + 1})
      BY <1>0, <1>t DEF KnownInv, Precede
    <3>2. L!Increasing(Append(incoming, accepted + 1))
      BY <1>0, <1>t, <2>1, <3>1, IncreasingAppend DEF SortedInv
    <3> QED
      BY <1>0, <2>1, <3>2 DEF SortedInv
  <2>6. StagesInv'
    BY <1>0, <1>t, <2>1, <2>2 DEF StagesInv, Precede, KnownInv
  <2>7. ChainInv'
    BY <1>0, <1>t, <2>1, <2>2, <2>3 DEF ChainInv, Precede, KnownInv
  <2> QED
    BY <2>4, <2>5, <2>6, <2>7 DEF OrderInv
<1>2. CASE Queue
  <2>1. /\ accepted' = accepted /\ incoming' = <<>>
        /\ queued' = queued \o incoming /\ job' = job /\ chain' = chain
    BY <1>2 DEF Queue
  <2>2. /\ Elems(incoming') = {}
        /\ Elems(queued') = Elems(queued) \union Elems(incoming)
    BY <1>t, <2>1, ElemsConcat, IncreasingEmpty
  <2>3. Mined' = Mined
    BY <2>1 DEF Mined
  <2>4. KnownInv'
    BY <1>0, <2>1, <2>2, <2>3 DEF KnownInv
  <2>5. SortedInv'
    <3>1. L!Increasing(queued \o incoming)
      BY <1>0, <1>t, IncreasingConcat DEF SortedInv, StagesInv
    <3> QED
      BY <1>0, <2>1, <3>1, IncreasingEmpty DEF SortedInv
  <2>6. StagesInv'
    BY <1>0, <2>1, <2>2 DEF StagesInv, Precede
  <2>7. ChainInv'
    BY <1>0, <2>1, <2>2, <2>3 DEF ChainInv, Precede
  <2> QED
    BY <2>4, <2>5, <2>6, <2>7 DEF OrderInv
<1>3. CASE JobLock
  <2>1. /\ accepted' = accepted /\ incoming' = incoming /\ queued' = queued
        /\ chain' = chain /\ job'.todo = job.todo /\ job'.block = job.block
        /\ job.st = "spawned" /\ job'.st = "running"
    BY <1>0, <1>3 DEF JobLock, poolVars, JobType, JobRecord
  <2>2. Mined' = Mined
    BY <2>1 DEF Mined
  <2> QED
    BY <1>0, <2>1, <2>2 DEF OrderInv, KnownInv, SortedInv, StagesInv, ChainInv
<1>4. CASE JobExecute
  <2>1. /\ accepted' = accepted /\ incoming' = incoming /\ queued' = queued
        /\ chain' = chain /\ job.st = "running" /\ job'.st = "running"
        /\ job.todo # <<>> /\ job'.todo = Tail(job.todo)
        /\ \/ job'.block = Append(job.block, Head(job.todo))
           \/ job'.block = job.block
    BY <1>0, <1>4 DEF JobExecute, poolVars, JobType, JobRecord
  <2>2. Mined' = Mined
    BY <2>1 DEF Mined
  <2>3. /\ Head(job.todo) \in Elems(job.todo) /\ Head(job.todo) \in Tx
        /\ Elems(Tail(job.todo)) \subseteq Elems(job.todo)
        /\ L!Increasing(Tail(job.todo))
        /\ Precede({Head(job.todo)}, Elems(Tail(job.todo)))
    <3>1. Head(job.todo) \in Tx
      BY <1>t, <2>1
    <3>2. /\ Head(job.todo) \in Elems(job.todo)
          /\ Elems(Tail(job.todo)) \subseteq Elems(job.todo)
      BY <1>t, <2>1, ElemsTail
    <3>3. /\ L!Increasing(Tail(job.todo))
          /\ Precede({Head(job.todo)}, Elems(Tail(job.todo)))
      BY <1>0, <1>t, <2>1, IncreasingTail DEF SortedInv
    <3> QED
      BY <3>1, <3>2, <3>3
  <2>4. CASE job'.block = job.block
    <3>1. KnownInv'
      BY <1>0, <2>1, <2>2, <2>3, <2>4 DEF KnownInv
    <3>2. SortedInv'
      BY <1>0, <2>1, <2>3, <2>4 DEF SortedInv
    <3>3. StagesInv'
      BY <1>0, <2>1, <2>3, <2>4 DEF StagesInv, Precede
    <3>4. ChainInv'
      BY <1>0, <2>1, <2>2, <2>3, <2>4 DEF ChainInv, Precede
    <3> QED
      BY <3>1, <3>2, <3>3, <3>4 DEF OrderInv
  <2>5. CASE job'.block = Append(job.block, Head(job.todo))
    <3>0. Elems(job'.block) = Elems(job.block) \union {Head(job.todo)}
      BY <1>t, <2>3, <2>5, ElemsAppend
    <3>1. KnownInv'
      BY <1>0, <2>1, <2>2, <2>3, <3>0 DEF KnownInv
    <3>2. SortedInv'
      <4>1. Precede(Elems(job.block), {Head(job.todo)})
        BY <1>0, <2>3 DEF StagesInv, Precede
      <4>2. L!Increasing(Append(job.block, Head(job.todo)))
        BY <1>0, <1>t, <2>3, <4>1, IncreasingAppend DEF SortedInv
      <4> QED
        BY <1>0, <2>1, <2>3, <2>5, <4>2 DEF SortedInv
    <3>3. StagesInv'
      BY <1>0, <2>1, <2>3, <3>0 DEF StagesInv, Precede
    <3>4. ChainInv'
      BY <1>0, <2>1, <2>2, <2>3, <3>0 DEF ChainInv, Precede
    <3> QED
      BY <3>1, <3>2, <3>3, <3>4 DEF OrderInv
  <2> QED
    BY <2>1, <2>4, <2>5
<1>5. CASE JobStore
  <2>1. /\ accepted' = accepted /\ incoming' = incoming /\ queued' = queued
        /\ chain' = Append(chain, job.block) /\ job.st = "running"
        /\ job' = NoJob \/ job' = [job EXCEPT !.st = "done"]
    BY <1>5 DEF JobStore, poolVars
  <2>2. Mined' = Mined \union Elems(job.block)
    BY <1>0, <2>1, MinedAppend
  <2>3. CASE job' = NoJob
    <3>1. job'.todo = <<>> /\ job'.block = <<>> /\ job'.st = "none"
      BY <2>3 DEF NoJob
    <3>2. Elems(job'.todo) = {} /\ Elems(job'.block) = {}
      BY <3>1, IncreasingEmpty
    <3>3. KnownInv'
      BY <1>0, <2>1, <2>2, <3>2 DEF KnownInv
    <3>4. SortedInv'
      BY <1>0, <2>1, <3>1, IncreasingEmpty DEF SortedInv
    <3>5. StagesInv'
      BY <1>0, <2>1, <3>2 DEF StagesInv, Precede
    <3>6. ChainInv'
      BY <1>0, <2>1, <2>2, <3>1, <3>2 DEF ChainInv, StagesInv, Precede
    <3> QED
      BY <3>3, <3>4, <3>5, <3>6 DEF OrderInv
  <2>4. CASE job' = [job EXCEPT !.st = "done"]
    <3>1. job'.todo = job.todo /\ job'.block = job.block /\ job'.st = "done"
      BY <1>0, <2>4 DEF JobType, JobRecord
    <3>2. KnownInv'
      BY <1>0, <2>1, <2>2, <3>1 DEF KnownInv
    <3>3. SortedInv' /\ StagesInv'
      BY <1>0, <2>1, <3>1 DEF SortedInv, StagesInv
    <3>4. ChainInv'
      BY <1>0, <2>1, <2>2, <3>1 DEF ChainInv, StagesInv, Precede
    <3> QED
      BY <3>2, <3>3, <3>4 DEF OrderInv
  <2> QED
    BY <2>1, <2>3, <2>4
<1>6. ASSUME /\ accepted' = accepted /\ incoming' = incoming
             /\ queued' = queued /\ chain' = chain
             /\ job' = NoJob \/ job' = [job EXCEPT !.st = "failed"]
      PROVE  OrderInv'
  <2>1. Mined' = Mined
    BY <1>6 DEF Mined
  <2>2. CASE job' = NoJob
    <3>1. job'.todo = <<>> /\ job'.block = <<>> /\ job'.st = "none"
      BY <2>2 DEF NoJob
    <3>2. Elems(job'.todo) = {} /\ Elems(job'.block) = {}
      BY <3>1, IncreasingEmpty
    <3>3. KnownInv'
      BY <1>0, <1>6, <2>1, <3>2 DEF KnownInv
    <3>4. SortedInv'
      BY <1>0, <1>6, <3>1, IncreasingEmpty DEF SortedInv
    <3>5. StagesInv' /\ ChainInv'
      BY <1>0, <1>6, <2>1, <3>1, <3>2 DEF StagesInv, ChainInv, Precede
    <3> QED
      BY <3>3, <3>4, <3>5 DEF OrderInv
  <2>3. CASE job' = [job EXCEPT !.st = "failed"]
    <3>1. job'.todo = job.todo /\ job'.block = job.block /\ job'.st = "failed"
      BY <1>0, <2>3 DEF JobType, JobRecord
    <3> QED
      BY <1>0, <1>6, <2>1, <3>1
         DEF OrderInv, KnownInv, SortedInv, StagesInv, ChainInv
  <2> QED
    BY <1>6, <2>2, <2>3
<1>7. CASE JobFailure \/ PollMined \/ PollFailed
  <2>1. /\ accepted' = accepted /\ incoming' = incoming
        /\ queued' = queued /\ chain' = chain
        /\ job' = NoJob \/ job' = [job EXCEPT !.st = "failed"]
    BY <1>7 DEF JobFailure, PollMined, Settle, PollFailed, poolVars
  <2> QED
    BY <1>6, <2>1
<1>8. CASE PollSpawn \/ ForceMine
  <2>1. /\ accepted' = accepted /\ incoming' = incoming /\ queued' = <<>>
        /\ chain' = chain /\ job'.st = "spawned"
        /\ job'.todo = queued /\ job'.block = <<>>
    BY <1>8 DEF PollSpawn, ForceMine, poolVars, NoJob
  <2>2. Mined' = Mined
    BY <2>1 DEF Mined
  <2>3. /\ Elems(queued') = {} /\ Elems(job'.block) = {}
        /\ Elems(job'.todo) = Elems(queued)
    BY <2>1, IncreasingEmpty
  <2>4. KnownInv'
    BY <1>0, <2>1, <2>2, <2>3 DEF KnownInv
  <2>5. SortedInv'
    BY <1>0, <2>1, IncreasingEmpty DEF SortedInv
  <2>6. StagesInv' /\ ChainInv'
    BY <1>0, <2>1, <2>2, <2>3 DEF StagesInv, ChainInv, Precede
  <2> QED
    BY <2>4, <2>5, <2>6 DEF OrderInv
<1>9. CASE UNCHANGED vars
  <2>1. Mined' = Mined
    BY <1>9 DEF vars, Mined
  <2> QED
    BY <1>0, <1>9, <2>1
       DEF vars, poolVars, OrderInv, KnownInv, SortedInv, StagesInv, ChainInv
<1> QED
  BY <1>1, <1>2, <1>3, <1>4, <1>5, <1>7, <1>8, <1>9 DEF Next, Job, Poll

\* The transactions keep the order of their acceptance on their way through the
\* producer, whatever force_mine, failures and full blocks do.
THEOREM OrderKept == Spec => []OrderInv
<1>1. Init => OrderInv
  <2> SUFFICES ASSUME Init PROVE OrderInv
    OBVIOUS
  <2>1. /\ incoming = <<>> /\ queued = <<>> /\ job.todo = <<>>
        /\ job.block = <<>> /\ job.st = "none" /\ chain = <<>>
    BY DEF Init, NoJob
  <2>2. Mined = {}
    BY <2>1 DEF Mined
  <2> QED
    BY <2>1, <2>2, IncreasingEmpty
       DEF OrderInv, KnownInv, SortedInv, StagesInv, ChainInv, Precede
<1> QED
  BY <1>1, OrderStep, TypeCorrect, PTL DEF Spec

\* The listeners have been told exactly of the transactions that have left the
\* pool, and all of them are in a block. The order invariant supplies what makes
\* it inductive: a finished job's block is in the chain, and it holds accepted
\* transactions only.
THEOREM PoolFollowsListeners == Spec => []PoolMatchesNotified
<1>1. Init => PoolMatchesNotified
  BY DEF Init, PoolMatchesNotified
<1>2. TypeInv /\ OrderInv /\ PoolMatchesNotified /\ [Next]_vars
        => PoolMatchesNotified'
  <2> SUFFICES ASSUME TypeInv, OrderInv, PoolMatchesNotified, [Next]_vars
               PROVE  PoolMatchesNotified'
    OBVIOUS
  <2>0. /\ PoolType /\ JobType /\ ChainType /\ KnownInv /\ ChainInv
        /\ accepted \in Nat
    BY DEF TypeInv, PoolType, OrderInv
  <2>1. CASE Accept
    <3>1. /\ accepted' = accepted + 1 /\ pool' = pool \union {accepted + 1}
          /\ notified' = notified /\ chain' = chain
      BY <2>1 DEF Accept
    <3>2. 1 .. accepted + 1 = (1 .. accepted) \union {accepted + 1}
      BY <2>0
    <3>3. accepted + 1 \notin 1 .. accepted
      BY <2>0
    <3>4. Mined' = Mined
      BY <3>1 DEF Mined
    <3> QED
      BY <3>1, <3>2, <3>3, <3>4 DEF PoolMatchesNotified
  <2>2. CASE PollMined
    <3>1. /\ accepted' = accepted /\ pool' = pool \ Elems(job.block)
          /\ notified' = notified \union Elems(job.block) /\ chain' = chain
          /\ job.st = "done"
      BY <2>2 DEF PollMined, Settle, Announced
    <3>2. Elems(job.block) \subseteq 1 .. accepted
      BY <2>0 DEF KnownInv
    <3>3. Mined' = Mined /\ Elems(job.block) \subseteq Mined
      BY <2>0, <3>1 DEF Mined, ChainInv
    <3> QED
      BY <3>1, <3>2, <3>3 DEF PoolMatchesNotified
  <2>3. CASE JobStore
    <3>1. /\ accepted' = accepted /\ pool' = pool /\ notified' = notified
          /\ chain' = Append(chain, job.block)
      BY <2>3 DEF JobStore, poolVars
    <3>2. Mined \subseteq Mined'
      BY <2>0, <3>1, MinedAppend
    <3> QED
      BY <3>1, <3>2 DEF PoolMatchesNotified
  <2>4. CASE UNCHANGED <<accepted, pool, notified, chain>>
    BY <2>4 DEF PoolMatchesNotified, Mined
  <2> QED
    BY <2>1, <2>2, <2>3, <2>4
       DEF Next, Job, Poll, vars, poolVars, Queue, JobLock, JobExecute,
           JobFailure, PollSpawn, PollFailed, ForceMine
<1> QED
  BY <1>1, <1>2, TypeCorrect, OrderKept, PTL DEF Spec

-----------------------------------------------------------------------------
(* The producer implements the ledger.                                      *)

\* Storing a job's block is a step of the ledger: the block holds accepted
\* transactions, in order, all of them newer than the chain.
LEMMA StoreMines ==
    ASSUME TypeInv, OrderInv, JobStore
    PROVE  L!Mine
<1>1. /\ chain \in Seq(Seq(Tx)) /\ job.block \in Seq(Tx)
      /\ KnownInv /\ SortedInv /\ ChainInv
  BY DEF TypeInv, ChainType, JobType, JobRecord, OrderInv
<1>2. /\ chain' = Append(chain, job.block) /\ accepted' = accepted
      /\ job.st = "running"
  BY DEF JobStore, poolVars
<1>3. Len(chain') = Len(chain) + 1 /\ chain'[Len(chain')] = job.block
  BY <1>1, <1>2
<1>4. \A i \in DOMAIN job.block : job.block[i] \in 1 .. accepted
  BY <1>1 DEF KnownInv, Elems
<1>5. L!Follows(job.block, chain)
  <2>1. Precede(Mined, Elems(job.block))
    BY <1>1, <1>2 DEF ChainInv
  <2> SUFFICES ASSUME NEW n \in DOMAIN chain, NEW i \in DOMAIN chain[n],
                      NEW j \in DOMAIN job.block
               PROVE  chain[n][i] < job.block[j]
    BY DEF L!Follows
  <2>2. chain[n][i] \in Mined /\ job.block[j] \in Elems(job.block)
    BY DEF Mined, Elems
  <2> QED
    BY <2>1, <2>2 DEF Precede
<1>6. L!IsBlock(job.block)
  BY <1>1, <1>4, <1>5 DEF L!IsBlock, SortedInv
<1> QED
  BY <1>2, <1>3, <1>6 DEF L!Mine

\* The instant producer implements the ledger: the chain grows by one block at a
\* time, and its transactions are accepted ones, each at most once, in the
\* order in which the pool handed them over.
THEOREM InstantImplementsLedger == Spec => ImplementsLedger
<1>1. Init => L!Init
  BY DEF Init, L!Init
<1>2. TypeInv /\ OrderInv /\ [Next]_vars => [L!Next]_(L!vars)
  <2> SUFFICES ASSUME TypeInv, OrderInv, [Next]_vars
               PROVE  [L!Next]_(L!vars)
    OBVIOUS
  <2>1. CASE Accept
    BY <2>1 DEF Accept, L!Next, L!Accept
  <2>2. CASE JobStore
    BY <2>2, StoreMines DEF L!Next
  <2>3. CASE UNCHANGED <<accepted, chain>>
    BY <2>3 DEF L!vars
  <2> QED
    BY <2>1, <2>2, <2>3
       DEF Next, Job, Poll, vars, poolVars, Queue, JobLock, JobExecute,
           JobFailure, PollSpawn, PollMined, PollFailed, ForceMine
<1> QED
  BY <1>1, <1>2, TypeCorrect, OrderKept, PTL DEF Spec, ImplementsLedger, L!Spec
=============================================================================
