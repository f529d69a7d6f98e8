---------------------------- MODULE TxPoolProofs ----------------------------
(***************************************************************************)
(* For any transactions, accounts and number of RPC threads, and wherever  *)
(* the sequencing stage's subscribe and snapshot fall between their steps: *)
(* no accepted transaction is lost on its way to the block producer, those *)
(* of a caller that waits for each answer stay in their order, and the     *)
(* pool's nonces are ahead of every transaction it has accepted.           *)
(***************************************************************************)
EXTENDS TxPool, TLAPS, WellFoundedInduction

-----------------------------------------------------------------------------
(* The operators the stream is built from.                                  *)

\* What a sequence holds, when it is empty and after a send or a yield.
LEMMA ElemsAppend ==
    ASSUME NEW S, NEW s \in Seq(S), NEW e \in S
    PROVE  Elems(Append(s, e)) = Elems(s) \union {e} /\ Elems(s) \in SUBSET S
<1>1. DOMAIN s = 1 .. Len(s) /\ Elems(s) \in SUBSET S
  BY DEF Elems
<1>2. DOMAIN Append(s, e) = 1 .. (Len(s) + 1)
  BY DEF Elems
<1>3. \A i \in 1 .. Len(s) : Append(s, e)[i] = s[i]
  OBVIOUS
<1>4. Append(s, e)[Len(s) + 1] = e
  OBVIOUS
<1>5. Elems(Append(s, e)) \subseteq Elems(s) \union {e}
  BY <1>1, <1>2, <1>3, <1>4 DEF Elems
<1>6. Elems(s) \subseteq Elems(Append(s, e))
  BY <1>1, <1>2, <1>3 DEF Elems
<1>7. e \in Elems(Append(s, e))
  BY <1>2, <1>4 DEF Elems
<1> QED
  BY <1>1, <1>5, <1>6, <1>7

\* pop_first of a set that is not empty takes an element of the set, one with
\* the least priority: Nat is well founded, so there is one.
LEMMA FirstIn ==
    ASSUME NEW S \in SUBSET PendingTx, S # {}
    PROVE  First(S) \in S /\ \A f \in S : First(S).priority <= f.priority
<1> DEFINE R == {p \in Nat \X Nat : p[1] < p[2]}
           P == {e.priority : e \in S}
<1>1. IsWellFoundedOn(R, Nat)
  BY NatLessThanWellFounded DEF OpToRel
<1>2. P \subseteq Nat /\ P # {}
  BY DEF PendingTx
<1>3. PICK m \in P : \A n \in P : ~(<<n, m>> \in R)
  <2> HIDE DEF R, P
  <2> QED
    BY <1>1, <1>2, WFMin
<1>4. ASSUME NEW n \in P PROVE m <= n
  <2>1. m \in Nat /\ n \in Nat
    BY <1>2
  <2>2. ~(n < m)
    <3> HIDE DEF P
    <3> QED
      BY <1>3, <2>1
  <2> QED
    BY <2>1, <2>2
<1>5. \E e \in S : \A f \in S : e.priority <= f.priority
  BY <1>4
<1> QED
  BY <1>5 DEF First

\* What the stream pops comes out of what it has drained.
LEMMA DrainedType ==
    ASSUME StreamType
    PROVE  Drained \in SUBSET PendingTx
BY DEF StreamType, Drained, Elems

-----------------------------------------------------------------------------
(* The types.                                                               *)

\* The pool starts in a state of its type.
LEMMA InitType == Init => TypeInv
<1> SUFFICES ASSUME Init PROVE TypeInv
    OBVIOUS
<1>1. ThreadType
  BY DEF Init, ThreadType, NoEntry
<1>2. PoolType
  BY DEF Init, PoolType
<1>3. NonceType
  BY DEF Init, NonceType
<1>4. StreamType
  BY DEF Init, StreamType
<1> QED
  BY <1>1, <1>2, <1>3, <1>4 DEF TypeInv

\* A thread has a PendingTx from the step that gives it a priority on.
LEMMA ThreadStep ==
    TypeInv /\ [Next]_vars => ThreadType'
<1> SUFFICES ASSUME TypeInv, [Next]_vars PROVE ThreadType'
    OBVIOUS
<1>0. ThreadType /\ PoolType
  BY DEF TypeInv
<1>1. ASSUME NEW t \in RpcThreads, NEW x \in Txs, ValidateValid(t, x)
     PROVE  ThreadType'
  <2>1. cur' \in [RpcThreads -> [tx: Txs \union {NoTx}, priority: Nat \union {Absent}]]
    BY <1>0, <1>1 DEF ValidateValid, ThreadType
  <2>2. /\ pc' = [pc EXCEPT ![t] = "validated"]
        /\ cur' = [cur EXCEPT ![t] = [tx |-> x, priority |-> Absent]]
    BY <1>1 DEF ValidateValid
  <2>3. submitted' \in [Txs -> Nat]
    BY <1>0, <1>1 DEF ValidateValid, Submit, ThreadType
  <2> QED
    BY <1>0, <2>1, <2>2, <2>3 DEF ThreadType
<1>2. ASSUME NEW t \in RpcThreads, NEW x \in Txs, ValidateRejected(t, x)
     PROVE  ThreadType'
  BY <1>0, <1>2 DEF ValidateRejected, Submit, ThreadType
<1>3. ASSUME NEW t \in RpcThreads, AssignPriority(t)
     PROVE  ThreadType'
  <2>1. /\ pc[t] = "validated" /\ submitted' = submitted
        /\ pc' = [pc EXCEPT ![t] = "prioritised"]
        /\ cur' = [cur EXCEPT ![t].priority = nonceCtr]
    BY <1>3 DEF AssignPriority
  <2>2. cur[t].tx \in Txs /\ nonceCtr \in Nat
    BY <1>0, <2>1 DEF ThreadType, PoolType
  <2>3. [cur[t] EXCEPT !.priority = nonceCtr] \in PendingTx
    BY <1>0, <2>2 DEF ThreadType, PendingTx
  <2>4. [cur[t] EXCEPT !.priority = nonceCtr]
           \in [tx: Txs \union {NoTx}, priority: Nat \union {Absent}]
    BY <1>0, <2>2 DEF ThreadType
  <2>5. [cur[t] EXCEPT !.priority = nonceCtr].tx \in Txs
    BY <2>3 DEF PendingTx
  <2>6. cur' = [cur EXCEPT ![t] = [cur[t] EXCEPT !.priority = nonceCtr]]
    BY <2>1
  <2> QED
    BY <1>0, <2>1, <2>3, <2>4, <2>5, <2>6 DEF ThreadType
<1>4. ASSUME NEW t \in RpcThreads, Insert(t)
     PROVE  ThreadType'
  BY <1>0, <1>4 DEF Insert, ThreadType
<1>5. ASSUME NEW t \in RpcThreads, NotifyListener(t)
     PROVE  ThreadType'
  BY <1>0, <1>5 DEF NotifyListener, ThreadType
<1>6. ASSUME NEW t \in RpcThreads, NotifySubscribers(t)
     PROVE  ThreadType'
  BY <1>0, <1>6 DEF NotifySubscribers, ThreadType
<1>7. CASE UNCHANGED threadVars
  BY <1>0, <1>7 DEF ThreadType, threadVars
<1>8. ASSUME Subscribe \/ Snapshot \/ YieldFromSnapshot \/
            YieldFromSubscription \/ ExecuteSuccess \/ ExecuteFailed \/
            RemoveTransactions \/ ListenerRecv \/ ListenerClosed
     PROVE  UNCHANGED threadVars
  BY <1>8
     DEF Subscribe, Snapshot, YieldFromSnapshot, YieldFromSubscription,
         ExecuteSuccess, ExecuteFailed, RemoveTransactions, ListenerRecv,
         ListenerClosed
<1>9. CASE UNCHANGED vars
  BY <1>9, <1>7 DEF vars
<1> QED
  BY <1>1, <1>2, <1>3, <1>4, <1>5, <1>6, <1>7, <1>8, <1>9
     DEF Next, AddTransaction, PollStream

\* The pool and the acknowledged transactions are PendingTxs.
LEMMA PoolStep ==
    TypeInv /\ [Next]_vars => PoolType'
<1> SUFFICES ASSUME TypeInv, [Next]_vars PROVE PoolType'
    OBVIOUS
<1>0. ThreadType /\ PoolType
  BY DEF TypeInv
<1>1. ASSUME NEW t \in RpcThreads, AssignPriority(t)
     PROVE  PoolType'
  BY <1>0, <1>1 DEF AssignPriority, PoolType, ghostVars
<1>2. ASSUME NEW t \in RpcThreads, Insert(t)
     PROVE  PoolType'
  BY <1>0, <1>2 DEF Insert, Inserted, ThreadType, PoolType, ghostVars
<1>3. ASSUME NEW t \in RpcThreads, NotifySubscribers(t)
     PROVE  PoolType'
  BY <1>0, <1>3 DEF NotifySubscribers, ThreadType, PoolType
<1>4. CASE RemoveTransactions
  BY <1>0, <1>4 DEF RemoveTransactions, PoolType, ghostVars
<1>5. CASE UNCHANGED <<nonceCtr, transactions, ghostVars>>
  BY <1>0, <1>5 DEF PoolType, ghostVars
<1>6. ASSUME NEW t \in RpcThreads, NEW x \in Txs, ValidateValid(t, x) \/
            ValidateRejected(t, x)
     PROVE  UNCHANGED <<nonceCtr, transactions, ghostVars>>
  BY <1>6
     DEF ValidateValid, ValidateRejected
<1>7. ASSUME NEW t \in RpcThreads, NotifyListener(t)
     PROVE  UNCHANGED <<nonceCtr, transactions, ghostVars>>
  BY <1>7
     DEF NotifyListener
<1>8. ASSUME Subscribe \/ Snapshot \/ YieldFromSnapshot \/
            YieldFromSubscription \/ ExecuteSuccess \/ ExecuteFailed \/
            ListenerRecv \/ ListenerClosed
     PROVE  UNCHANGED <<nonceCtr, transactions, ghostVars>>
  BY <1>8
     DEF Subscribe, Snapshot, YieldFromSnapshot, YieldFromSubscription,
         ExecuteSuccess, ExecuteFailed, ListenerRecv, ListenerClosed
<1>9. CASE UNCHANGED vars
  BY <1>9, <1>5 DEF vars
<1> QED
  BY <1>1, <1>2, <1>3, <1>4, <1>5, <1>6, <1>7, <1>8, <1>9
     DEF Next, AddTransaction, PollStream

\* Nonces are numbers.
LEMMA NonceStep ==
    TypeInv /\ [Next]_vars => NonceType'
<1> SUFFICES ASSUME TypeInv, [Next]_vars PROVE NonceType'
    OBVIOUS
<1>0. NonceType /\ StreamType
  BY DEF TypeInv
<1>1. ASSUME NEW t \in RpcThreads, NEW x \in Txs, ValidateValid(t, x)
     PROVE  NonceType'
  <2>1. SenderOf[x] \in Senders
    BY SenderAssumption
  <2>2. UpdatedNonce(x) \in Nat
    BY <1>0, <2>1 DEF NonceType, UpdatedNonce, CurrentNonce, Absent
  <2> QED
    BY <1>0, <1>1, <2>2 DEF ValidateValid, NonceType
<1>2. CASE ExecuteSuccess
  <2>1. yielded[executed + 1] \in PendingTx
    BY <1>0, <1>2 DEF ExecuteSuccess, StreamType
  <2>2. SenderOf[yielded[executed + 1].tx] \in Senders
    BY <2>1, SenderAssumption DEF PendingTx
  <2> QED
    BY <1>0, <1>2, <2>2 DEF ExecuteSuccess, NonceType
<1>3. CASE UNCHANGED <<poolNonces, stateNonces>>
  BY <1>0, <1>3 DEF NonceType
<1>4. ASSUME NEW t \in RpcThreads, NEW x \in Txs, ValidateRejected(t, x)
     PROVE  UNCHANGED <<poolNonces, stateNonces>>
  BY <1>4
     DEF validatorVars, ValidateRejected
<1>5. ASSUME NEW t \in RpcThreads, AssignPriority(t) \/ Insert(t) \/
            NotifyListener(t) \/ NotifySubscribers(t)
     PROVE  UNCHANGED <<poolNonces, stateNonces>>
  BY <1>5
     DEF validatorVars, AssignPriority, Insert, NotifyListener,
         NotifySubscribers
<1>6. ASSUME Subscribe \/ Snapshot \/ YieldFromSnapshot \/
            YieldFromSubscription \/ ExecuteFailed \/ RemoveTransactions \/
            ListenerRecv \/ ListenerClosed
     PROVE  UNCHANGED <<poolNonces, stateNonces>>
  BY <1>6
     DEF validatorVars, Subscribe, Snapshot, YieldFromSnapshot,
         YieldFromSubscription, ExecuteFailed, RemoveTransactions,
         ListenerRecv, ListenerClosed
<1>7. CASE UNCHANGED vars
  BY <1>7, <1>3 DEF vars, validatorVars
<1> QED
  BY <1>1, <1>2, <1>3, <1>4, <1>5, <1>6, <1>7
     DEF Next, AddTransaction, PollStream

\* What is sent, snapshotted and yielded are PendingTxs.
LEMMA StreamStep ==
    TypeInv /\ [Next]_vars => StreamType'
<1> SUFFICES ASSUME TypeInv, [Next]_vars PROVE StreamType'
    OBVIOUS
<1>0. ThreadType /\ PoolType /\ StreamType
  BY DEF TypeInv
<1>1. ASSUME NEW t \in RpcThreads, NotifySubscribers(t)
     PROVE  StreamType'
  BY <1>0, <1>1 DEF NotifySubscribers, ThreadType, StreamType, consumerVars
<1>2. CASE Subscribe
  BY <1>0, <1>2 DEF Subscribe, StreamType, consumerVars
<1>3. CASE Snapshot
  BY <1>0, <1>3 DEF Snapshot, PoolType, StreamType, consumerVars
<1>4. CASE YieldFromSnapshot
  <2>1. First(all) \in PendingTx
    BY <1>0, <1>4, FirstIn DEF YieldFromSnapshot, StreamType
  <2> QED
    BY <1>0, <1>4, <2>1 DEF YieldFromSnapshot, StreamType, consumerVars
<1>5. CASE YieldFromSubscription
  <2>1. Drained \in SUBSET PendingTx
    BY <1>0, DrainedType
  <2>2. First(Drained) \in PendingTx
    BY <1>5, <2>1, FirstIn DEF YieldFromSubscription
  <2> QED
    BY <1>0, <1>5, <2>1, <2>2 DEF YieldFromSubscription, StreamType, consumerVars
<1>6. CASE ExecuteSuccess
  BY <1>0, <1>6 DEF ExecuteSuccess, StreamType, streamVars
<1>7. CASE ExecuteFailed
  BY <1>0, <1>7 DEF ExecuteFailed, StreamType, streamVars
<1>8. CASE UNCHANGED <<streamVars, consumerVars>>
  BY <1>0, <1>8 DEF StreamType, streamVars, consumerVars
<1>9. ASSUME NEW t \in RpcThreads, NEW x \in Txs, ValidateValid(t, x) \/
            ValidateRejected(t, x)
     PROVE  UNCHANGED <<streamVars, consumerVars>>
  BY <1>9
     DEF ValidateValid, ValidateRejected
<1>10. ASSUME NEW t \in RpcThreads, AssignPriority(t) \/ Insert(t) \/
            NotifyListener(t)
     PROVE  UNCHANGED <<streamVars, consumerVars>>
  BY <1>10
     DEF AssignPriority, Insert, NotifyListener
<1>11. ASSUME RemoveTransactions \/ ListenerRecv \/ ListenerClosed
     PROVE  UNCHANGED <<streamVars, consumerVars>>
  BY <1>11
     DEF RemoveTransactions, ListenerRecv, ListenerClosed
<1>12. CASE UNCHANGED vars
  BY <1>12, <1>8 DEF vars
<1> QED
  BY <1>1, <1>2, <1>3, <1>4, <1>5, <1>6, <1>7, <1>8, <1>9, <1>10, <1>11, <1>12
     DEF Next, AddTransaction, PollStream

\* Type correctness of the pool, the validator's nonces and the stream.
THEOREM TypeCorrect == Spec => []TypeInv
<1>1. TypeInv /\ [Next]_vars => TypeInv'
  BY ThreadStep, PoolStep, NonceStep, StreamStep DEF TypeInv
<1> QED
  BY InitType, <1>1, PTL DEF Spec

-----------------------------------------------------------------------------
(* No transaction is lost.                                                  *)

\* Before the stream is live a step only adds to the pool: it is the block
\* producer that removes from it, and it has been given nothing.
LEMMA HeldStep ==
    TypeInv /\ HeldUntilLive /\ [Next]_vars => HeldUntilLive'
<1> SUFFICES ASSUME TypeInv, HeldUntilLive, [Next]_vars PROVE HeldUntilLive'
    OBVIOUS
<1>0. ThreadType /\ PoolType /\ StreamType
  BY DEF TypeInv
<1>1. ASSUME NEW t \in RpcThreads, NEW x \in Txs, ValidateValid(t, x)
     PROVE  HeldUntilLive'
  BY <1>0, <1>1 DEF ValidateValid, HeldUntilLive, ThreadType, streamVars, consumerVars,
     ghostVars
<1>2. ASSUME NEW t \in RpcThreads, AssignPriority(t)
     PROVE  HeldUntilLive'
  BY <1>0, <1>2 DEF AssignPriority, HeldUntilLive, ThreadType, streamVars, consumerVars,
     ghostVars
<1>3. ASSUME NEW t \in RpcThreads, Insert(t)
     PROVE  HeldUntilLive'
  BY <1>0, <1>3 DEF Insert, HeldUntilLive, ThreadType, streamVars, consumerVars,
     ghostVars, Inserted
<1>4. ASSUME NEW t \in RpcThreads, NotifyListener(t)
     PROVE  HeldUntilLive'
  BY <1>0, <1>4 DEF NotifyListener, HeldUntilLive, ThreadType, streamVars, consumerVars,
     ghostVars
<1>5. ASSUME NEW t \in RpcThreads, NotifySubscribers(t)
     PROVE  HeldUntilLive'
  BY <1>0, <1>5 DEF NotifySubscribers, HeldUntilLive, ThreadType, consumerVars
<1>6. CASE Subscribe
  BY <1>0, <1>6 DEF Subscribe, HeldUntilLive, threadVars, consumerVars, ghostVars
<1>7. CASE Snapshot
  BY <1>0, <1>7 DEF Snapshot, HeldUntilLive
<1>8. CASE YieldFromSnapshot
  BY <1>0, <1>8 DEF YieldFromSnapshot, HeldUntilLive
<1>9. CASE YieldFromSubscription
  BY <1>0, <1>9 DEF YieldFromSubscription, HeldUntilLive
<1>10. CASE ExecuteSuccess
  <2>1. phase = "live" /\ phase' = phase
    BY <1>0, <1>10 DEF ExecuteSuccess, HeldUntilLive, StreamType, streamVars
  <2> QED
    BY <2>1 DEF HeldUntilLive
<1>11. CASE ExecuteFailed
  <2>1. phase = "live" /\ phase' = phase
    BY <1>0, <1>11 DEF ExecuteFailed, HeldUntilLive, StreamType, streamVars
  <2> QED
    BY <2>1 DEF HeldUntilLive
<1>12. CASE RemoveTransactions
  <2>1. phase = "live" /\ phase' = phase
    BY <1>0, <1>12 DEF RemoveTransactions, HeldUntilLive, StreamType, streamVars
  <2> QED
    BY <2>1 DEF HeldUntilLive
<1>13. CASE UNCHANGED <<pc, cur, transactions, streamVars, succeeded, acked>>
  BY <1>0, <1>13 DEF HeldUntilLive, streamVars
<1>14. ASSUME NEW t \in RpcThreads, NEW x \in Txs, ValidateRejected(t, x)
     PROVE  UNCHANGED <<pc, cur, transactions, streamVars, succeeded, acked>>
  BY <1>14
     DEF threadVars, consumerVars, ghostVars, ValidateRejected
<1>15. ASSUME ListenerRecv \/ ListenerClosed
     PROVE  UNCHANGED <<pc, cur, transactions, streamVars, succeeded, acked>>
  BY <1>15
     DEF threadVars, consumerVars, ghostVars, ListenerRecv, ListenerClosed
<1>16. CASE UNCHANGED vars
  BY <1>16, <1>13 DEF vars, threadVars, consumerVars, ghostVars
<1> QED
  BY <1>1, <1>2, <1>3, <1>4, <1>5, <1>6, <1>7, <1>8, <1>9, <1>10, <1>11, <1>12,
     <1>13, <1>14, <1>15, <1>16
     DEF Next, AddTransaction, PollStream

\* A step of the stream moves transactions along it, and an announced one
\* enters it.
LEMMA LostStep ==
    TypeInv /\ HeldUntilLive /\ NoLostTx /\ [Next]_vars => NoLostTx'
<1> SUFFICES ASSUME TypeInv, HeldUntilLive, NoLostTx, [Next]_vars PROVE NoLostTx'
    OBVIOUS
<1>0. ThreadType /\ PoolType /\ StreamType
  BY DEF TypeInv
<1>1. ASSUME NEW t \in RpcThreads, NotifySubscribers(t)
     PROVE  NoLostTx'
  <2> SUFFICES ASSUME phase' = "live"
               PROVE  acked' \subseteq all' \union Elems(channel') \union txs'
                                       \union Elems(yielded')
    BY DEF NoLostTx
  <2>1. cur[t] \in PendingTx
    BY <1>0, <1>1 DEF NotifySubscribers, ThreadType
  <2>2. Elems(channel') = Elems(channel) \union {cur[t]}
    BY <1>0, <1>1, <2>1, ElemsAppend DEF NotifySubscribers, StreamType
  <2> QED
    BY <1>1, <2>2 DEF NotifySubscribers, NoLostTx
<1>2. CASE Subscribe
  BY <1>2 DEF Subscribe, NoLostTx
<1>3. CASE Snapshot
  BY <1>3 DEF Snapshot, HeldUntilLive, NoLostTx, ghostVars
<1>4. CASE YieldFromSnapshot
  <2>1. First(all) \in PendingTx
    BY <1>0, <1>4, FirstIn DEF YieldFromSnapshot, StreamType
  <2>2. Elems(yielded') = Elems(yielded) \union {First(all)}
    BY <1>0, <1>4, <2>1, ElemsAppend DEF YieldFromSnapshot, StreamType
  <2> QED
    BY <1>4, <2>2 DEF YieldFromSnapshot, NoLostTx, ghostVars
<1>5. CASE YieldFromSubscription
  <2>1. First(Drained) \in PendingTx
    BY <1>0, <1>5, DrainedType, FirstIn DEF YieldFromSubscription
  <2>2. Elems(yielded') = Elems(yielded) \union {First(Drained)}
    BY <1>0, <1>5, <2>1, ElemsAppend DEF YieldFromSubscription, StreamType
  <2>3. txs \union Elems(channel)
           \subseteq txs' \union Elems(channel') \union {First(Drained)}
    BY <1>5 DEF YieldFromSubscription, Drained
  <2> QED
    BY <1>5, <2>2, <2>3 DEF YieldFromSubscription, NoLostTx, ghostVars
<1>6. CASE UNCHANGED <<streamVars, acked>>
  BY <1>0, <1>6 DEF NoLostTx, streamVars
<1>7. ASSUME NEW t \in RpcThreads, NEW x \in Txs, ValidateValid(t, x) \/
            ValidateRejected(t, x)
     PROVE  UNCHANGED <<streamVars, acked>>
  BY <1>7
     DEF ghostVars, ValidateValid, ValidateRejected
<1>8. ASSUME NEW t \in RpcThreads, AssignPriority(t) \/ Insert(t) \/
            NotifyListener(t)
     PROVE  UNCHANGED <<streamVars, acked>>
  BY <1>8
     DEF ghostVars, AssignPriority, Insert, NotifyListener
<1>9. ASSUME ExecuteSuccess \/ ExecuteFailed \/ RemoveTransactions \/
            ListenerRecv \/ ListenerClosed
     PROVE  UNCHANGED <<streamVars, acked>>
  BY <1>9
     DEF ghostVars, ExecuteSuccess, ExecuteFailed, RemoveTransactions,
         ListenerRecv, ListenerClosed
<1>10. CASE UNCHANGED vars
  BY <1>10, <1>6 DEF vars, ghostVars
<1> QED
  BY <1>1, <1>2, <1>3, <1>4, <1>5, <1>6, <1>7, <1>8, <1>9, <1>10
     DEF Next, AddTransaction, PollStream

\* Until the stream is live the pool holds everything it has accepted.
THEOREM HeldUntilTheStreamIsLive == Spec => []HeldUntilLive
<1>1. Init => HeldUntilLive
  BY DEF Init, HeldUntilLive
<1> QED
  BY <1>1, TypeCorrect, HeldStep, PTL DEF Spec

\* Every acknowledged transaction is in the live stream or has been yielded.
\* HeldUntilLive makes it inductive: it says what the snapshot finds. A thread
\* that inserts before the snapshot is covered by the snapshot, one that
\* announces after subscribe is covered by the channel, and since subscribe
\* comes first there is no thread that is covered by neither.
THEOREM NoTransactionLost == Spec => []NoLostTx
<1>1. Init => NoLostTx
  BY DEF Init, NoLostTx
<1> QED
  BY <1>1, TypeCorrect, HeldUntilTheStreamIsLive, LostStep, PTL DEF Spec

-----------------------------------------------------------------------------
(* Pool nonces.                                                             *)

\* Every entry that has got past the validator and is still to be executed, or
\* has been.
Accepted ==
    transactions \union all \union Elems(channel) \union txs
                 \union Elems(yielded)

\* The threads that add an entry with a priority.
InFlight == {t \in RpcThreads : pc[t] \in {"prioritised", "inserted", "notifying"}}

\* The pool's nonce of the sender is above the nonce of the transaction.
Counted(x) ==
    /\ poolNonces[SenderOf[x]] # Absent
    /\ NonceOf[x] < poolNonces[SenderOf[x]]

\* The validator has counted every transaction it let through.
CountedInv ==
    /\ \A e \in Accepted : Counted(e.tx)
    /\ \A t \in RpcThreads : pc[t] # "idle" => Counted(cur[t].tx)

\* They are PendingTxs.
LEMMA AcceptedType == TypeInv => Accepted \subseteq PendingTx
BY DEF TypeInv, PoolType, StreamType, Accepted, Elems

\* A step adds to the accepted entries at most the one that a thread is adding.
LEMMA AcceptedStep ==
    ASSUME TypeInv, [Next]_vars
    PROVE  Accepted' \subseteq Accepted \union {cur[t] : t \in InFlight}
<1>0. ThreadType /\ PoolType /\ StreamType
  BY DEF TypeInv
<1>1. ASSUME NEW t \in RpcThreads, Insert(t)
      PROVE  Accepted' \subseteq Accepted \union {cur[t]} /\ t \in InFlight
  BY <1>1 DEF Insert, Inserted, InFlight, Accepted, streamVars
<1>2. ASSUME NEW t \in RpcThreads, NotifySubscribers(t)
      PROVE  Accepted' \subseteq Accepted \union {cur[t]} /\ t \in InFlight
  <2>1. cur[t] \in PendingTx /\ channel \in Seq(PendingTx)
    BY <1>0, <1>2 DEF NotifySubscribers, ThreadType, StreamType
  <2>2. Elems(channel') \subseteq Elems(channel) \union {cur[t]}
    BY <1>2, <2>1, ElemsAppend DEF NotifySubscribers
  <2> QED
    BY <1>2, <2>2 DEF NotifySubscribers, Accepted, InFlight
<1>3. CASE Snapshot
  BY <1>3 DEF Snapshot, Accepted
<1>4. CASE YieldFromSnapshot
  <2>1. First(all) \in all /\ First(all) \in PendingTx
    BY <1>0, <1>4, FirstIn DEF YieldFromSnapshot, StreamType
  <2>2. Elems(yielded') = Elems(yielded) \union {First(all)}
    BY <1>0, <1>4, <2>1, ElemsAppend DEF YieldFromSnapshot, StreamType
  <2> QED
    BY <1>4, <2>1, <2>2 DEF YieldFromSnapshot, Accepted
<1>5. CASE YieldFromSubscription
  <2>1. First(Drained) \in Drained /\ First(Drained) \in PendingTx
    BY <1>0, <1>5, DrainedType, FirstIn DEF YieldFromSubscription
  <2>2. Elems(yielded') = Elems(yielded) \union {First(Drained)}
    BY <1>0, <1>5, <2>1, ElemsAppend DEF YieldFromSubscription, StreamType
  <2>3. Drained \subseteq txs \union Elems(channel)
    BY DEF Drained
  <2>4. Elems(channel') \subseteq Elems(channel)
    BY <1>5 DEF YieldFromSubscription, Elems
  <2> QED
    BY <1>5, <2>1, <2>2, <2>3, <2>4 DEF YieldFromSubscription, Accepted
<1>6. CASE RemoveTransactions
  BY <1>6 DEF RemoveTransactions, Accepted, streamVars
<1>7. CASE UNCHANGED <<transactions, streamVars>>
  BY <1>7 DEF Accepted, streamVars
<1>8. ASSUME NEW t \in RpcThreads, NEW x \in Txs, ValidateValid(t, x) \/
            ValidateRejected(t, x)
     PROVE  UNCHANGED <<transactions, streamVars>>
  BY <1>8 DEF ValidateValid, ValidateRejected
<1>9. ASSUME NEW t \in RpcThreads, AssignPriority(t) \/ NotifyListener(t)
     PROVE  UNCHANGED <<transactions, streamVars>>
  BY <1>9 DEF AssignPriority, NotifyListener
<1>10. CASE Subscribe
  BY <1>10 DEF Subscribe, Accepted
<1>11. ASSUME ExecuteSuccess \/ ExecuteFailed \/ ListenerRecv \/ ListenerClosed
     PROVE  UNCHANGED <<transactions, streamVars>>
  BY <1>11 DEF ExecuteSuccess, ExecuteFailed, ListenerRecv, ListenerClosed
<1>12. CASE UNCHANGED vars
  BY <1>12, <1>7 DEF vars
<1> QED
  BY <1>1, <1>2, <1>3, <1>4, <1>5, <1>6, <1>7, <1>8, <1>9, <1>10, <1>11, <1>12
     DEF Next, AddTransaction, PollStream

\* validate moves the pool's nonce of the sender up by one, past the nonce of
\* the transaction it has let through; nothing else changes the pool's nonces.
LEMMA ValidateCounts ==
    ASSUME TypeInv, NEW t \in RpcThreads, NEW x \in Txs, ValidateValid(t, x)
    PROVE  /\ Counted(x)'
           /\ \A y \in Txs : Counted(y) => Counted(y)'
           /\ PoolNonceAhead => PoolNonceAhead'
<1>1. /\ SenderOf[x] \in Senders /\ NonceOf[x] \in Nat
      /\ poolNonces \in [Senders -> Nat \union {Absent}]
      /\ stateNonces \in [Senders -> Nat] /\ Absent = -1
  BY SenderAssumption, NonceAssumption DEF TypeInv, NonceType, Absent
<1>2. /\ poolNonces' = [poolNonces EXCEPT ![SenderOf[x]] = UpdatedNonce(x)]
      /\ stateNonces' = stateNonces /\ ~Dependent(x)
  BY DEF ValidateValid
<1>3. /\ UpdatedNonce(x) \in Nat /\ NonceOf[x] < UpdatedNonce(x)
      /\ poolNonces[SenderOf[x]] # Absent
            => UpdatedNonce(x) = poolNonces[SenderOf[x]] + 1
      /\ poolNonces[SenderOf[x]] = Absent
            => UpdatedNonce(x) = stateNonces[SenderOf[x]] + 1
  BY <1>1, <1>2 DEF UpdatedNonce, Dependent, CurrentNonce
<1>4. poolNonces'[SenderOf[x]] = UpdatedNonce(x)
  BY <1>1, <1>2
<1>5. Counted(x)'
  BY <1>1, <1>3, <1>4 DEF Counted
<1>6. ASSUME NEW y \in Txs, Counted(y)
      PROVE  Counted(y)'
  <2>1. SenderOf[y] \in Senders /\ NonceOf[y] \in Nat
    BY SenderAssumption, NonceAssumption
  <2>2. CASE SenderOf[y] = SenderOf[x]
    BY <1>1, <1>3, <1>4, <1>6, <2>1, <2>2 DEF Counted
  <2>3. CASE SenderOf[y] # SenderOf[x]
    BY <1>1, <1>2, <1>6, <2>1, <2>3 DEF Counted
  <2> QED
    BY <2>2, <2>3
<1>7. ASSUME PoolNonceAhead
      PROVE  PoolNonceAhead'
  <2> SUFFICES ASSUME NEW s \in Senders, poolNonces'[s] # Absent
               PROVE  poolNonces'[s] >= stateNonces[s]
    BY <1>2 DEF PoolNonceAhead
  <2>1. CASE s = SenderOf[x]
    BY <1>1, <1>3, <1>4, <1>7, <2>1 DEF PoolNonceAhead
  <2>2. CASE s # SenderOf[x]
    BY <1>1, <1>2, <1>7, <2>2 DEF PoolNonceAhead
  <2> QED
    BY <2>1, <2>2
<1> QED
  BY <1>5, <1>6, <1>7

\* Every step but a successful validate leaves the pool's nonces alone.
LEMMA PoolNoncesStep ==
    ASSUME [Next]_vars
    PROVE  \/ UNCHANGED poolNonces
           \/ \E t \in RpcThreads, x \in Txs : ValidateValid(t, x)
<1>1. ASSUME NEW t \in RpcThreads, NEW x \in Txs, ValidateRejected(t, x)
      PROVE  UNCHANGED poolNonces
  BY <1>1 DEF ValidateRejected, validatorVars
<1>2. ASSUME NEW t \in RpcThreads, AssignPriority(t) \/ Insert(t) \/
            NotifyListener(t) \/ NotifySubscribers(t)
      PROVE  UNCHANGED poolNonces
  BY <1>2 DEF validatorVars, AssignPriority, Insert, NotifyListener,
     NotifySubscribers
<1>3. ASSUME Subscribe \/ Snapshot \/ YieldFromSnapshot \/
            YieldFromSubscription \/ ExecuteSuccess \/ ExecuteFailed \/
            RemoveTransactions \/ ListenerRecv \/ ListenerClosed
      PROVE  UNCHANGED poolNonces
  BY <1>3 DEF validatorVars, Subscribe, Snapshot, YieldFromSnapshot,
     YieldFromSubscription, ExecuteSuccess, ExecuteFailed, RemoveTransactions,
     ListenerRecv, ListenerClosed
<1> QED
  BY <1>1, <1>2, <1>3
     DEF Next, AddTransaction, PollStream, vars, validatorVars

\* What has been counted stays counted, and what a thread takes on is counted.
LEMMA CountedStep == TypeInv /\ CountedInv /\ [Next]_vars => CountedInv'
<1> SUFFICES ASSUME TypeInv, CountedInv, [Next]_vars PROVE CountedInv'
    OBVIOUS
<1>0. /\ ThreadType /\ PoolType /\ StreamType
      /\ Accepted \subseteq PendingTx
  BY AcceptedType DEF TypeInv
<1>1. ASSUME NEW y \in Txs, Counted(y)
      PROVE  Counted(y)'
  BY <1>1, PoolNoncesStep, ValidateCounts DEF Counted
<1>2. ASSUME NEW e \in Accepted'
      PROVE  Counted(e.tx)'
  <2>1. CASE e \in Accepted
    BY <1>0, <1>1, <2>1 DEF CountedInv, PendingTx
  <2>2. ASSUME NEW t \in RpcThreads, pc[t] # "idle", e = cur[t]
        PROVE  Counted(e.tx)'
    BY <1>0, <1>1, <2>2 DEF CountedInv, ThreadType
  <2> QED
    BY <1>2, <2>1, <2>2, AcceptedStep DEF InFlight
<1>3. ASSUME NEW u \in RpcThreads, pc'[u] # "idle"
      PROVE  Counted(cur[u].tx)'
  <2>1. CASE pc[u] # "idle" /\ cur'[u].tx = cur[u].tx
    BY <1>0, <1>1, <2>1 DEF CountedInv, ThreadType
  <2>2. ASSUME NEW t \in RpcThreads, NEW x \in Txs, ValidateValid(t, x)
        PROVE  Counted(cur[u].tx)'
    <3>1. CASE u = t
      <4>1. cur'[u].tx = x
        BY <1>0, <2>2, <3>1 DEF ValidateValid, ThreadType
      <4> QED
        BY <2>2, <4>1, ValidateCounts
    <3>2. CASE u # t
      BY <1>0, <1>3, <2>1, <2>2, <3>2 DEF ValidateValid, ThreadType
    <3> QED
      BY <3>1, <3>2
  <2>3. ASSUME NEW t \in RpcThreads, AssignPriority(t)
        PROVE  pc[u] # "idle" /\ cur'[u].tx = cur[u].tx
    BY <1>0, <1>3, <2>3 DEF AssignPriority, ThreadType
  <2>4. ASSUME NEW t \in RpcThreads, Insert(t) \/ NotifyListener(t) \/
              NotifySubscribers(t)
        PROVE  pc[u] # "idle" /\ cur'[u].tx = cur[u].tx
    BY <1>0, <1>3, <2>4 DEF Insert, NotifyListener, NotifySubscribers, ThreadType
  <2>5. ASSUME UNCHANGED <<pc, cur>>
        PROVE  pc[u] # "idle" /\ cur'[u].tx = cur[u].tx
    BY <1>3, <2>5
  <2>6. ASSUME NEW t \in RpcThreads, NEW x \in Txs, ValidateRejected(t, x)
        PROVE  UNCHANGED <<pc, cur>>
    BY <2>6 DEF ValidateRejected
  <2>7. ASSUME Subscribe \/ Snapshot \/ YieldFromSnapshot \/
              YieldFromSubscription \/ ExecuteSuccess \/ ExecuteFailed \/
              RemoveTransactions \/ ListenerRecv \/ ListenerClosed
        PROVE  UNCHANGED <<pc, cur>>
    BY <2>7 DEF threadVars, Subscribe, Snapshot, YieldFromSnapshot,
       YieldFromSubscription, ExecuteSuccess, ExecuteFailed, RemoveTransactions,
       ListenerRecv, ListenerClosed
  <2> QED
    BY <2>1, <2>2, <2>3, <2>4, <2>5, <2>6, <2>7
       DEF Next, AddTransaction, PollStream, vars, threadVars
<1> QED
  BY <1>2, <1>3 DEF CountedInv

\* The pool's nonce of an account is never behind the state's: the state's nonce
\* moves only when a yielded transaction with exactly that nonce is executed,
\* and the validator has counted every yielded transaction. pool_nonces is
\* never lowered, so counted transactions stay counted.
THEOREM PoolNonceNeverBehind == Spec => []PoolNonceAhead
<1>1. Init => CountedInv /\ PoolNonceAhead
  BY DEF Init, CountedInv, PoolNonceAhead, Accepted, Elems
<1>2. TypeInv /\ CountedInv /\ PoolNonceAhead /\ [Next]_vars => PoolNonceAhead'
  <2> SUFFICES ASSUME TypeInv, CountedInv, PoolNonceAhead, [Next]_vars
               PROVE  PoolNonceAhead'
    OBVIOUS
  <2>0. /\ poolNonces \in [Senders -> Nat \union {Absent}]
        /\ stateNonces \in [Senders -> Nat] /\ StreamType
    BY DEF TypeInv, NonceType
  <2>1. ASSUME NEW t \in RpcThreads, NEW x \in Txs, ValidateValid(t, x)
        PROVE  PoolNonceAhead'
    BY <2>1, ValidateCounts
  <2>2. CASE ExecuteSuccess
    <3> DEFINE x == yielded[executed + 1].tx
    <3>1. executed + 1 \in DOMAIN yielded /\ yielded[executed + 1] \in PendingTx
      BY <2>0, <2>2 DEF ExecuteSuccess, StreamType
    <3>2. x \in Txs /\ Counted(x) /\ SenderOf[x] \in Senders /\ NonceOf[x] \in Nat
      BY <3>1, SenderAssumption, NonceAssumption
         DEF CountedInv, Accepted, Elems, PendingTx
    <3>3. /\ poolNonces' = poolNonces
          /\ \/ stateNonces' = stateNonces
             \/ /\ NonceOf[x] = stateNonces[SenderOf[x]]
                /\ stateNonces' = [stateNonces EXCEPT ![SenderOf[x]] = @ + 1]
      BY <2>2 DEF ExecuteSuccess, Executable
    <3> HIDE DEF x
    <3>4. ASSUME NEW s \in Senders, poolNonces[s] # Absent
          PROVE  poolNonces[s] >= stateNonces'[s]
      <4>1. poolNonces[s] \in Nat /\ poolNonces[s] >= stateNonces[s]
        BY <2>0, <3>4 DEF PoolNonceAhead
      <4>2. CASE s = SenderOf[x]
        BY <2>0, <3>2, <3>3, <4>1, <4>2 DEF Counted
      <4>3. CASE s # SenderOf[x]
        BY <2>0, <3>2, <3>3, <4>1, <4>3
      <4> QED
        BY <4>2, <4>3
    <3> QED
      BY <3>3, <3>4 DEF PoolNonceAhead
  <2>3. CASE UNCHANGED <<poolNonces, stateNonces>>
    BY <2>3 DEF PoolNonceAhead
  <2>4. ASSUME NEW t \in RpcThreads, NEW x \in Txs, ValidateRejected(t, x)
        PROVE  UNCHANGED <<poolNonces, stateNonces>>
    BY <2>4 DEF ValidateRejected, validatorVars
  <2>5. ASSUME NEW t \in RpcThreads, AssignPriority(t) \/ Insert(t) \/
              NotifyListener(t) \/ NotifySubscribers(t)
        PROVE  UNCHANGED <<poolNonces, stateNonces>>
    BY <2>5 DEF validatorVars, AssignPriority, Insert, NotifyListener,
       NotifySubscribers
  <2>6. ASSUME Subscribe \/ Snapshot \/ YieldFromSnapshot \/
              YieldFromSubscription \/ ExecuteFailed \/ RemoveTransactions \/
              ListenerRecv \/ ListenerClosed
        PROVE  UNCHANGED <<poolNonces, stateNonces>>
    BY <2>6 DEF validatorVars, Subscribe, Snapshot, YieldFromSnapshot,
       YieldFromSubscription, ExecuteFailed, RemoveTransactions, ListenerRecv,
       ListenerClosed
  <2> QED
    BY <2>1, <2>2, <2>3, <2>4, <2>5, <2>6
       DEF Next, AddTransaction, PollStream, vars, validatorVars
<1> QED
  BY <1>1, <1>2, TypeCorrect, CountedStep, PTL DEF Spec

-----------------------------------------------------------------------------
(* The order of acknowledged transactions.                                  *)

\* The pairs of precedes, with those that the calls under way will add to it.
Pairs == precedes \union UNION {{<<a, cur[t]>> : a \in started[t]} : t \in InFlight}

\* FiFo's counter is ahead of every priority in use.
FreshInv ==
    /\ \A e \in Accepted \union acked : e.priority < nonceCtr
    /\ \A t \in InFlight : cur[t].priority < nonceCtr

StartedInv ==
    /\ started \in [RpcThreads -> SUBSET PendingTx]
    /\ \A t \in RpcThreads : started[t] \subseteq acked

\* The first of a pair has been acknowledged and has the lower priority, and
\* neither the snapshot nor the drained set holds the second alone.
PairInv(a, b) ==
    /\ a \in acked /\ b \in PendingTx
    /\ a.priority < b.priority
    /\ b \in all => a \in all \union Elems(yielded)
    /\ b \in txs => a \in txs \union Elems(yielded)
    /\ \A i \in DOMAIN yielded :
          yielded[i] = b => \E j \in 1 .. i - 1 : yielded[j] = a

OrderInv ==
    /\ FreshInv /\ StartedInv
    /\ \A p \in Pairs : p = <<p[1], p[2]>> /\ PairInv(p[1], p[2])

\* A step adds to the pairs only those of the thread that takes a priority.
LEMMA PairsStep ==
    ASSUME TypeInv, StartedInv, [Next]_vars
    PROVE  \/ Pairs' \subseteq Pairs
           \/ \E t \in RpcThreads :
                /\ AssignPriority(t)
                /\ Pairs' \subseteq Pairs \union {<<a, cur'[t]>> : a \in started[t]}
<1>0. ThreadType /\ started \in [RpcThreads -> SUBSET PendingTx]
  BY DEF TypeInv, StartedInv
<1>1. ASSUME NEW t \in RpcThreads, NEW x \in Txs, ValidateValid(t, x)
      PROVE  Pairs' \subseteq Pairs
  <2>1. /\ precedes' = precedes /\ pc[t] = "idle" /\ pc'[t] = "validated"
        /\ \A u \in RpcThreads \ {t} :
              pc'[u] = pc[u] /\ cur'[u] = cur[u] /\ started'[u] = started[u]
    BY <1>0, <1>1 DEF ValidateValid, ThreadType, ghostVars
  <2> QED
    BY <2>1 DEF Pairs, InFlight
<1>2. ASSUME NEW t \in RpcThreads, AssignPriority(t)
      PROVE  Pairs' \subseteq Pairs \union {<<a, cur'[t]>> : a \in started[t]}
  <2>1. /\ precedes' = precedes /\ started' = started
        /\ \A u \in RpcThreads \ {t} : pc'[u] = pc[u] /\ cur'[u] = cur[u]
    BY <1>0, <1>2 DEF AssignPriority, ThreadType, ghostVars
  <2> QED
    BY <2>1 DEF Pairs, InFlight
<1>3. ASSUME NEW t \in RpcThreads, Insert(t) \/ NotifyListener(t)
      PROVE  Pairs' \subseteq Pairs
  <2>1. /\ precedes' = precedes /\ started' = started /\ cur' = cur
        /\ \A u \in RpcThreads \ {t} : pc'[u] = pc[u]
        /\ pc[t] \in {"prioritised", "inserted"}
    BY <1>0, <1>3 DEF Insert, NotifyListener, ThreadType, ghostVars
  <2> QED
    BY <2>1 DEF Pairs, InFlight
<1>4. ASSUME NEW t \in RpcThreads, NotifySubscribers(t)
      PROVE  Pairs' \subseteq Pairs
  <2>1. /\ precedes' = precedes \union {<<a, cur[t]>> : a \in started[t]}
        /\ started' = started /\ cur' = cur
        /\ \A u \in RpcThreads \ {t} : pc'[u] = pc[u]
        /\ pc[t] = "notifying" /\ pc'[t] = "idle"
    BY <1>0, <1>4 DEF NotifySubscribers, ThreadType
  <2>2. {<<a, cur[t]>> : a \in started[t]} \subseteq Pairs
    BY <2>1 DEF Pairs, InFlight
  <2>3. InFlight' \subseteq InFlight
    BY <2>1 DEF InFlight
  <2> QED
    BY <2>1, <2>2, <2>3 DEF Pairs
<1>5. ASSUME UNCHANGED <<pc, cur, started, precedes>>
      PROVE  Pairs' \subseteq Pairs
  BY <1>5 DEF Pairs, InFlight
<1>6. ASSUME NEW t \in RpcThreads, NEW x \in Txs, ValidateRejected(t, x)
      PROVE  UNCHANGED <<pc, cur, started, precedes>>
  BY <1>6 DEF ValidateRejected, ghostVars
<1>7. ASSUME Subscribe \/ Snapshot \/ YieldFromSnapshot \/
            YieldFromSubscription \/ ExecuteSuccess \/ ExecuteFailed \/
            RemoveTransactions \/ ListenerRecv \/ ListenerClosed
      PROVE  UNCHANGED <<pc, cur, started, precedes>>
  BY <1>7 DEF threadVars, ghostVars, Subscribe, Snapshot, YieldFromSnapshot,
     YieldFromSubscription, ExecuteSuccess, ExecuteFailed, RemoveTransactions,
     ListenerRecv, ListenerClosed
<1> QED
  BY <1>1, <1>2, <1>3, <1>4, <1>5, <1>6, <1>7
     DEF Next, AddTransaction, PollStream, vars, threadVars, ghostVars

\* started holds entries that have been acknowledged, and acked only grows.
LEMMA StartedStep ==
    ASSUME TypeInv, StartedInv, [Next]_vars
    PROVE  StartedInv' /\ acked \subseteq acked'
<1>0. acked \in SUBSET PendingTx /\ started \in [RpcThreads -> SUBSET PendingTx]
  BY DEF TypeInv, PoolType, StartedInv
<1>1. ASSUME NEW t \in RpcThreads, NEW x \in Txs, ValidateValid(t, x)
      PROVE  StartedInv' /\ acked \subseteq acked'
  BY <1>0, <1>1 DEF ValidateValid, StartedInv, ghostVars
<1>2. ASSUME started' = started, acked \subseteq acked'
      PROVE  StartedInv' /\ acked \subseteq acked'
  BY <1>2 DEF StartedInv
<1>3. ASSUME NEW t \in RpcThreads, NEW x \in Txs, ValidateRejected(t, x)
      PROVE  started' = started /\ acked \subseteq acked'
  BY <1>3 DEF ValidateRejected, ghostVars
<1>4. ASSUME NEW t \in RpcThreads, AssignPriority(t) \/ Insert(t) \/
            NotifyListener(t) \/ NotifySubscribers(t)
      PROVE  started' = started /\ acked \subseteq acked'
  BY <1>4 DEF AssignPriority, Insert, NotifyListener, NotifySubscribers, ghostVars
<1>5. ASSUME Subscribe \/ Snapshot \/ YieldFromSnapshot \/
            YieldFromSubscription \/ ExecuteSuccess \/ ExecuteFailed \/
            RemoveTransactions \/ ListenerRecv \/ ListenerClosed
      PROVE  started' = started /\ acked \subseteq acked'
  BY <1>5 DEF threadVars, ghostVars, Subscribe, Snapshot, YieldFromSnapshot,
     YieldFromSubscription, ExecuteSuccess, ExecuteFailed, RemoveTransactions,
     ListenerRecv, ListenerClosed
<1> QED
  BY <1>1, <1>2, <1>3, <1>4, <1>5
     DEF Next, AddTransaction, PollStream, vars, threadVars, ghostVars

\* FiFo's counter is never behind a priority it has given out.
LEMMA FreshStep == TypeInv /\ FreshInv /\ [Next]_vars => FreshInv'
<1> SUFFICES ASSUME TypeInv, FreshInv, [Next]_vars PROVE FreshInv'
    OBVIOUS
<1>0. /\ ThreadType /\ nonceCtr \in Nat /\ acked \in SUBSET PendingTx
      /\ Accepted \subseteq PendingTx /\ \A t \in InFlight : cur[t] \in PendingTx
  BY AcceptedType DEF TypeInv, ThreadType, PoolType, InFlight
<1> DEFINE Known == Accepted \union acked \union {cur[t] : t \in InFlight}
<1>1. \A e \in Known : e.priority < nonceCtr /\ e.priority \in Nat
  BY <1>0 DEF FreshInv, PendingTx
<1>2. ASSUME NEW t \in RpcThreads, AssignPriority(t)
      PROVE  FreshInv'
  <2>1. /\ nonceCtr' = nonceCtr + 1 /\ acked' = acked
        /\ \A u \in RpcThreads \ {t} : pc'[u] = pc[u] /\ cur'[u] = cur[u]
        /\ cur'[t].priority = nonceCtr
    BY <1>0, <1>2 DEF AssignPriority, ThreadType, ghostVars
  <2>2. Accepted' \union acked' \subseteq Known
    BY <2>1, AcceptedStep
  <2>3. ASSUME NEW u \in InFlight'
        PROVE  cur'[u].priority < nonceCtr'
    <3>1. CASE u = t
      BY <1>0, <2>1, <3>1
    <3>2. CASE u # t
      <4>1. u \in InFlight /\ cur'[u] = cur[u]
        BY <2>1, <3>2 DEF InFlight
      <4>2. cur[u].priority < nonceCtr /\ cur[u].priority \in Nat
        BY <1>1, <4>1
      <4> QED
        BY <1>0, <2>1, <4>1, <4>2
    <3> QED
      BY <3>1, <3>2
  <2>4. ASSUME NEW e \in Known
        PROVE  e.priority < nonceCtr'
    <3>1. e.priority < nonceCtr /\ e.priority \in Nat
      BY <1>1
    <3> QED
      BY <1>0, <2>1, <3>1
  <2> HIDE DEF Known
  <2> QED
    BY <2>2, <2>3, <2>4 DEF FreshInv
<1>3. ASSUME nonceCtr' = nonceCtr, acked' \subseteq Known,
             \A u \in InFlight' : u \in InFlight /\ cur'[u] = cur[u]
      PROVE  FreshInv'
  BY <1>1, <1>3, AcceptedStep DEF FreshInv
<1>4. ASSUME NEW t \in RpcThreads, NEW x \in Txs, ValidateValid(t, x)
      PROVE  /\ nonceCtr' = nonceCtr /\ acked' \subseteq Known
             /\ \A u \in InFlight' : u \in InFlight /\ cur'[u] = cur[u]
  BY <1>0, <1>4 DEF ValidateValid, ThreadType, InFlight, ghostVars
<1>5. ASSUME NEW t \in RpcThreads, Insert(t) \/ NotifyListener(t) \/
            NotifySubscribers(t)
      PROVE  /\ nonceCtr' = nonceCtr /\ acked' \subseteq Known
             /\ \A u \in InFlight' : u \in InFlight /\ cur'[u] = cur[u]
  BY <1>0, <1>5 DEF Insert, NotifyListener, NotifySubscribers, ThreadType,
     InFlight, ghostVars
<1>6. ASSUME UNCHANGED <<nonceCtr, pc, cur, acked>>
      PROVE  /\ nonceCtr' = nonceCtr /\ acked' \subseteq Known
             /\ \A u \in InFlight' : u \in InFlight /\ cur'[u] = cur[u]
  BY <1>6 DEF InFlight
<1>7. ASSUME NEW t \in RpcThreads, NEW x \in Txs, ValidateRejected(t, x)
      PROVE  UNCHANGED <<nonceCtr, pc, cur, acked>>
  BY <1>7 DEF ValidateRejected, ghostVars
<1>8. ASSUME Subscribe \/ Snapshot \/ YieldFromSnapshot \/
            YieldFromSubscription \/ ExecuteSuccess \/ ExecuteFailed \/
            RemoveTransactions \/ ListenerRecv \/ ListenerClosed
      PROVE  UNCHANGED <<nonceCtr, pc, cur, acked>>
  BY <1>8 DEF threadVars, ghostVars, Subscribe, Snapshot, YieldFromSnapshot,
     YieldFromSubscription, ExecuteSuccess, ExecuteFailed, RemoveTransactions,
     ListenerRecv, ListenerClosed
<1> HIDE DEF Known
<1> QED
  BY <1>2, <1>3, <1>4, <1>5, <1>6, <1>7, <1>8
     DEF Next, AddTransaction, PollStream, vars, threadVars, ghostVars

\* The stream keeps a pair in order when it yields the entry with the least
\* priority of a set that does not hold the pair's second entry alone.
LEMMA YieldKeepsOrder ==
    ASSUME StreamType, NEW S \in SUBSET PendingTx, S # {},
           yielded' = Append(yielded, First(S)),
           NEW a \in PendingTx, NEW b \in PendingTx, a.priority < b.priority,
           b \in S => a \in S \union Elems(yielded),
           \A i \in DOMAIN yielded :
               yielded[i] = b => \E j \in 1 .. i - 1 : yielded[j] = a
    PROVE  /\ Elems(yielded') = Elems(yielded) \union {First(S)}
           /\ \A i \in DOMAIN yielded' :
                 yielded'[i] = b => \E j \in 1 .. i - 1 : yielded'[j] = a
<1>1. /\ First(S) \in S /\ First(S) \in PendingTx
      /\ \A f \in S : First(S).priority <= f.priority
  BY FirstIn
<1>2. /\ yielded \in Seq(PendingTx) /\ Len(yielded) \in Nat
      /\ DOMAIN yielded = 1 .. Len(yielded)
      /\ DOMAIN yielded' = 1 .. Len(yielded) + 1
      /\ yielded'[Len(yielded) + 1] = First(S)
      /\ \A i \in 1 .. Len(yielded) : yielded'[i] = yielded[i]
  BY <1>1 DEF StreamType
<1>3. Elems(yielded') = Elems(yielded) \union {First(S)}
  BY <1>1, <1>2, ElemsAppend
<1>4. ASSUME NEW i \in 1 .. Len(yielded), yielded'[i] = b
      PROVE  \E j \in 1 .. i - 1 : yielded'[j] = a
  <2>1. PICK j \in 1 .. i - 1 : yielded[j] = a
    BY <1>2, <1>4
  <2> QED
    BY <1>2, <2>1
<1>5. ASSUME First(S) = b
      PROVE  \E j \in 1 .. Len(yielded) : yielded'[j] = a
  <2>1. a \notin S
    <3>1. a.priority \in Nat /\ b.priority \in Nat
      BY DEF PendingTx
    <3> QED
      BY <1>1, <1>5, <3>1
  <2>2. a \in Elems(yielded)
    BY <1>1, <1>5, <2>1
  <2> QED
    BY <1>2, <2>2 DEF Elems
<1>6. ASSUME NEW i \in DOMAIN yielded', yielded'[i] = b
      PROVE  \E j \in 1 .. i - 1 : yielded'[j] = a
  <2>1. CASE i \in 1 .. Len(yielded)
    BY <1>4, <1>6, <2>1
  <2>2. CASE i = Len(yielded) + 1
    BY <1>2, <1>5, <1>6, <2>2
  <2> QED
    BY <1>2, <2>1, <2>2
<1> QED
  BY <1>3, <1>6

\* A pair stays in order: the stream yields the least entry of the snapshot, or
\* of what it has drained, and these hold the first entry of the pair, or it
\* has been yielded. For a fresh snapshot that is because the pool holds every
\* acknowledged entry, for a fresh drain because no such entry is lost.
LEMMA PairKept ==
    ASSUME TypeInv, HeldUntilLive, NoLostTx, acked \subseteq acked', [Next]_vars,
           NEW a, NEW b, PairInv(a, b)
    PROVE  PairInv(a, b)'
<1>0. /\ StreamType /\ acked \in SUBSET PendingTx
      /\ a \in PendingTx /\ b \in PendingTx /\ a \in acked /\ a \in acked'
      /\ a.priority < b.priority
  BY DEF TypeInv, PoolType, PairInv
<1>1. CASE Snapshot
  BY <1>0, <1>1 DEF Snapshot, HeldUntilLive, PairInv
<1>2. CASE YieldFromSnapshot
  <2>1. /\ all # {} /\ all \in SUBSET PendingTx
        /\ yielded' = Append(yielded, First(all))
        /\ all' = all \ {First(all)} /\ txs' = txs
    BY <1>0, <1>2 DEF YieldFromSnapshot, StreamType
  <2>2. /\ Elems(yielded') = Elems(yielded) \union {First(all)}
        /\ \A i \in DOMAIN yielded' :
              yielded'[i] = b => \E j \in 1 .. i - 1 : yielded'[j] = a
    BY <1>0, <2>1, YieldKeepsOrder DEF PairInv
  <2> QED
    BY <1>0, <2>1, <2>2 DEF PairInv
<1>3. CASE YieldFromSubscription
  <2>1. /\ Drained # {} /\ Drained \in SUBSET PendingTx /\ all = {} /\ all' = {}
        /\ yielded' = Append(yielded, First(Drained))
        /\ txs' = Drained \ {First(Drained)} /\ phase = "live"
    BY <1>0, <1>3, DrainedType DEF YieldFromSubscription
  <2>2. b \in Drained => a \in Drained \union Elems(yielded)
    <3>1. CASE txs # {}
      BY <3>1 DEF Drained, PairInv
    <3>2. CASE txs = {}
      BY <1>0, <2>1, <3>2 DEF Drained, NoLostTx
    <3> QED
      BY <3>1, <3>2
  <2>3. /\ Elems(yielded') = Elems(yielded) \union {First(Drained)}
        /\ \A i \in DOMAIN yielded' :
              yielded'[i] = b => \E j \in 1 .. i - 1 : yielded'[j] = a
    BY <1>0, <2>1, <2>2, YieldKeepsOrder DEF PairInv
  <2> QED
    BY <1>0, <2>1, <2>2, <2>3 DEF PairInv
<1>4. CASE UNCHANGED <<all, txs, yielded>>
  BY <1>0, <1>4 DEF PairInv
<1>5. ASSUME NEW t \in RpcThreads, NEW x \in Txs, ValidateValid(t, x) \/
            ValidateRejected(t, x)
      PROVE  UNCHANGED <<all, txs, yielded>>
  BY <1>5 DEF ValidateValid, ValidateRejected, streamVars
<1>6. ASSUME NEW t \in RpcThreads, AssignPriority(t) \/ Insert(t) \/
            NotifyListener(t) \/ NotifySubscribers(t)
      PROVE  UNCHANGED <<all, txs, yielded>>
  BY <1>6 DEF AssignPriority, Insert, NotifyListener, NotifySubscribers, streamVars
<1>7. ASSUME Subscribe \/ ExecuteSuccess \/ ExecuteFailed \/
            RemoveTransactions \/ ListenerRecv \/ ListenerClosed
      PROVE  UNCHANGED <<all, txs, yielded>>
  BY <1>7 DEF streamVars, Subscribe, ExecuteSuccess, ExecuteFailed,
     RemoveTransactions, ListenerRecv, ListenerClosed
<1> QED
  BY <1>1, <1>2, <1>3, <1>4, <1>5, <1>6, <1>7
     DEF Next, AddTransaction, PollStream, vars, streamVars

\* Every step keeps the pairs in order; those of a thread that takes a priority
\* are in order because the entry it makes is new everywhere.
LEMMA OrderStep ==
    TypeInv /\ HeldUntilLive /\ NoLostTx /\ OrderInv /\ [Next]_vars => OrderInv'
<1> SUFFICES ASSUME TypeInv, HeldUntilLive, NoLostTx, OrderInv, [Next]_vars
             PROVE  OrderInv'
    OBVIOUS
<1>0. FreshInv /\ StartedInv /\ acked \subseteq acked'
  BY StartedStep DEF OrderInv
<1>1. FreshInv' /\ StartedInv'
  BY <1>0, FreshStep, StartedStep
<1>2. ASSUME NEW p \in Pairs
      PROVE  p = <<p[1], p[2]>> /\ PairInv(p[1], p[2])'
  BY <1>0, <1>2, PairKept DEF OrderInv
<1>3. ASSUME NEW t \in RpcThreads, AssignPriority(t), NEW a \in started[t]
      PROVE  PairInv(a, cur[t])'
  <2>1. /\ acked \in SUBSET PendingTx /\ a \in acked /\ a \in acked'
        /\ a.priority < nonceCtr
    BY <1>0, <1>3 DEF StartedInv, FreshInv, TypeInv, PoolType
  <2>2. /\ cur'[t] \in PendingTx /\ cur'[t].priority = nonceCtr
        /\ all' = all /\ txs' = txs /\ yielded' = yielded
    <3>1. /\ pc[t] = "validated" /\ ThreadType /\ nonceCtr \in Nat
          /\ cur' = [cur EXCEPT ![t].priority = nonceCtr]
          /\ all' = all /\ txs' = txs /\ yielded' = yielded
      BY <1>3 DEF AssignPriority, streamVars, TypeInv, PoolType
    <3> QED
      BY <3>1 DEF ThreadType, PendingTx
  <2>3. \A e \in all \union txs \union Elems(yielded) :
            e.priority < nonceCtr /\ nonceCtr \in Nat /\ e.priority \in Nat
    <3>1. all \union txs \union Elems(yielded) \subseteq Accepted
      BY DEF Accepted
    <3>2. \A e \in Accepted : e.priority \in Nat
      BY AcceptedType DEF PendingTx
    <3> QED
      BY <1>0, <3>1, <3>2 DEF FreshInv, TypeInv, PoolType
  <2>4. cur'[t] \notin all \union txs \union Elems(yielded)
    BY <2>2, <2>3
  <2> QED
    BY <2>1, <2>2, <2>4 DEF PairInv, Elems
<1>4. ASSUME NEW p \in Pairs'
      PROVE  p = <<p[1], p[2]>> /\ PairInv(p[1], p[2])'
  <2>1. CASE p \in Pairs
    BY <1>2, <2>1
  <2>2. ASSUME NEW t \in RpcThreads, AssignPriority(t), NEW a \in started[t],
               p = <<a, cur'[t]>>
        PROVE  p = <<p[1], p[2]>> /\ PairInv(p[1], p[2])'
    BY <1>3, <2>2 DEF PairInv
  <2> QED
    BY <1>0, <1>4, <2>1, <2>2, PairsStep
<1> QED
  BY <1>1, <1>4 DEF OrderInv

\* Whoever waits for add_transaction to return before sending the next
\* transaction has them yielded in that order, for any number of callers and
\* wherever the sequencing stage's subscribe and snapshot fall: a sender's
\* transactions keep their order although the stream merges a snapshot with a
\* channel. It needs the pairs of the calls under way, FiFo's counter ahead of
\* every priority, and that no acknowledged transaction is lost.
THEOREM AcknowledgedInOrder == Spec => []AcknowledgedOrder
<1>1. Init => OrderInv
  BY DEF Init, OrderInv, FreshInv, StartedInv, Pairs, InFlight, Accepted, Elems
<1>2. OrderInv => AcknowledgedOrder
  BY DEF OrderInv, Pairs, PairInv, AcknowledgedOrder
<1> QED
  BY <1>1, <1>2, OrderStep, TypeCorrect, HeldUntilTheStreamIsLive,
     NoTransactionLost, PTL DEF Spec
=============================================================================
