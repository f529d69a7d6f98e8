----------------------------- MODULE NodeProofs -----------------------------
(***************************************************************************)
(* Stopping a node leaves no task behind, and the messaging service offers *)
(* every message of the settlement chain once and in order: for any chain, *)
(* any limit on the range of a request, and any number of failures and of  *)
(* launches.                                                               *)
(***************************************************************************)
EXTENDS Node, TLAPS, WellFoundedInduction, SequenceTheorems

-----------------------------------------------------------------------------
(* What FlattenSeq computes.                                                *)

\* A nonempty set of naturals has a least element.
LEMMA Least ==
    ASSUME NEW T \in SUBSET Nat, T # {}
    PROVE  \E x \in T : \A y \in T : x <= y
<1> DEFINE R == OpToRel(<,Nat)
<1>1. IsWellFoundedOn(R, Nat)
  BY NatLessThanWellFounded
<1>2. \A x, y \in Nat : x < y => <<x, y>> \in R
  BY DEF OpToRel
<1> HIDE DEF R
<1>3. PICK x \in T : \A y \in T : ~(<<y, x>> \in R)
  BY <1>1, WFMin
<1>4. ASSUME NEW y \in T PROVE x <= y
  <2>1. x \in Nat /\ y \in Nat
    OBVIOUS
  <2>2. ~(y < x)
    BY <1>2, <1>3, <2>1
  <2> QED
    BY <2>1, <2>2
<1> QED
  BY <1>3, <1>4

\* What holds of 0 and of the successor of every natural it holds of holds of all
\* of them.
LEMMA SetInduction ==
    ASSUME NEW S, 0 \in S, \A n \in Nat : n \in S => n + 1 \in S
    PROVE  Nat \subseteq S
<1> DEFINE T == Nat \ S
<1> SUFFICES ASSUME T # {} PROVE FALSE
  OBVIOUS
<1>1. PICK x \in T : \A y \in T : x <= y
  BY Least
<1>2. x # 0 /\ x - 1 \in Nat /\ x - 1 \in S
  BY <1>1
<1> QED
  BY <1>1, <1>2

\* f joins the first i of the sequences in s, for every i up to n: what flatten in
\* FlattenSeq does.
Flattens(f, s, n) ==
    \A i \in 1 .. n : f[i] = IF i = 1 THEN s[i] ELSE f[i - 1] \o s[i]

\* There is such a function.
LEMMA FlattensExists ==
    ASSUME NEW S, NEW s \in Seq(Seq(S)), NEW m \in Nat, m <= Len(s)
    PROVE  \E f \in [1 .. m -> Seq(S)] : Flattens(f, s, m)
<1> DEFINE T == {n \in Nat : n <= Len(s) => \E f \in [1 .. n -> Seq(S)] : Flattens(f, s, n)}
<1>1. 0 \in T
  <2>1. [i \in 1 .. 0 |-> <<>>] \in [1 .. 0 -> Seq(S)]
    OBVIOUS
  <2>2. Flattens([i \in 1 .. 0 |-> <<>>], s, 0)
    BY DEF Flattens
  <2> QED
    BY <2>1, <2>2
<1>2. ASSUME NEW n \in Nat, n \in T PROVE n + 1 \in T
  <2> SUFFICES ASSUME n + 1 <= Len(s)
               PROVE  \E f \in [1 .. n + 1 -> Seq(S)] : Flattens(f, s, n + 1)
    OBVIOUS
  <2>1. PICK f \in [1 .. n -> Seq(S)] : Flattens(f, s, n)
    BY <1>2
  <2> DEFINE last == IF n = 0 THEN s[n + 1] ELSE f[n] \o s[n + 1]
             g == [i \in 1 .. n + 1 |-> IF i = n + 1 THEN last ELSE f[i]]
  <2>2. s[n + 1] \in Seq(S) /\ n + 1 \in 1 .. Len(s)
    OBVIOUS
  <2>3. last \in Seq(S)
    BY <2>2
  <2>4. g \in [1 .. n + 1 -> Seq(S)]
    BY <2>3
  <2>5. ASSUME NEW i \in 1 .. n + 1
        PROVE  g[i] = IF i = 1 THEN s[i] ELSE g[i - 1] \o s[i]
    <3>1. CASE i = n + 1
      BY <3>1
    <3>2. CASE i # n + 1
      <4>1. i \in 1 .. n /\ g[i] = f[i]
        BY <3>2
      <4>2. i # 1 => i - 1 \in 1 .. n /\ g[i - 1] = f[i - 1]
        BY <4>1
      <4>3. f[i] = IF i = 1 THEN s[i] ELSE f[i - 1] \o s[i]
        BY <2>1, <4>1 DEF Flattens
      <4> HIDE DEF g
      <4> QED
        BY <4>1, <4>2, <4>3
    <3> QED
      BY <3>1, <3>2
  <2>6. Flattens(g, s, n + 1)
    BY <2>5 DEF Flattens
  <2> QED
    BY <2>4, <2>6
<1> HIDE DEF T
<1>3. m \in T
  BY <1>1, <1>2, SetInduction
<1> QED
  BY <1>3 DEF T

\* There is only one.
LEMMA FlattensUnique ==
    ASSUME NEW s, NEW f, NEW g, NEW n \in Nat, Flattens(f, s, n), Flattens(g, s, n)
    PROVE  \A i \in 1 .. n : f[i] = g[i]
<1> DEFINE T == {i \in Nat : i \in 1 .. n => f[i] = g[i]}
<1>1. 0 \in T
  OBVIOUS
<1>2. ASSUME NEW i \in Nat, i \in T PROVE i + 1 \in T
  <2> SUFFICES ASSUME i + 1 \in 1 .. n PROVE f[i + 1] = g[i + 1]
    OBVIOUS
  <2>1. CASE i = 0
    BY <2>1 DEF Flattens
  <2>2. CASE i # 0
    <3>1. f[i] = g[i] /\ i + 1 # 1 /\ (i + 1) - 1 = i
      BY <1>2, <2>2
    <3>2. f[i + 1] = f[i] \o s[i + 1] /\ g[i + 1] = g[i] \o s[i + 1]
      BY <3>1 DEF Flattens
    <3> QED
      BY <3>1, <3>2
  <2> QED
    BY <2>1, <2>2
<1> HIDE DEF T
<1>3. Nat \subseteq T
  BY <1>1, <1>2, SetInduction
<1> QED
  BY <1>3 DEF T

\* FlattenSeq is the last value of that function.
LEMMA FlattenSeqFlattens ==
    ASSUME NEW S, NEW s \in Seq(Seq(S)), Len(s) # 0
    PROVE  \E f \in [1 .. Len(s) -> Seq(S)] : Flattens(f, s, Len(s)) /\ FlattenSeq(s) = f[Len(s)]
<1> DEFINE flatten[i \in 1..Len(s)] == IF i = 1 THEN s[i] ELSE flatten[i-1] \o s[i]
<1>1. FlattenSeq(s) = flatten[Len(s)]
  BY DEF FlattenSeq
<1>2. PICK f \in [1 .. Len(s) -> Seq(S)] : Flattens(f, s, Len(s))
  BY FlattensExists
<1>3. f = [i \in 1..Len(s) |-> IF i = 1 THEN s[i] ELSE f[i-1] \o s[i]]
  BY <1>2 DEF Flattens
<1>4. flatten = [i \in 1..Len(s) |-> IF i = 1 THEN s[i] ELSE flatten[i-1] \o s[i]]
  <2> SUFFICES \E h : h = [i \in 1..Len(s) |-> IF i = 1 THEN s[i] ELSE h[i-1] \o s[i]]
    BY Zenon
  <2> QED
    BY <1>3, Zenon
<1> HIDE DEF flatten
<1>5. Flattens(flatten, s, Len(s))
  BY <1>4 DEF Flattens
<1>6. flatten[Len(s)] = f[Len(s)]
  BY <1>2, <1>5, FlattensUnique
<1> QED
  BY <1>1, <1>2, <1>6

\* The function for one sequence more agrees on the ones before.
LEMMA FlattensPrefix ==
    ASSUME NEW f, NEW s, NEW n \in Nat, Flattens(f, s, n + 1)
    PROVE  /\ Flattens(f, s, n)
           /\ f[n + 1] = IF n = 0 THEN s[1] ELSE f[n] \o s[n + 1]
<1>1. \A i \in 1 .. n : i \in 1 .. n + 1
  OBVIOUS
<1>2. Flattens(f, s, n)
  BY <1>1 DEF Flattens
<1>3. n + 1 \in 1 .. n + 1 /\ (n + 1) - 1 = n
  OBVIOUS
<1>4. f[n + 1] = IF n + 1 = 1 THEN s[n + 1] ELSE f[(n + 1) - 1] \o s[n + 1]
  BY <1>3 DEF Flattens
<1> QED
  BY <1>2, <1>3, <1>4

\* One sequence more joins its elements at the end.
LEMMA FlattenAppend ==
    ASSUME NEW S, NEW s \in Seq(Seq(S)), NEW x \in Seq(S)
    PROVE  FlattenSeq(Append(s, x)) = FlattenSeq(s) \o x /\ FlattenSeq(s) \in Seq(S)
<1>1. PICK n \in Nat : n = Len(s)
  OBVIOUS
<1>2a. Append(s, x) \in Seq(Seq(S))
  OBVIOUS
<1>2. PICK t \in Seq(Seq(S)) : t = Append(s, x)
  BY <1>2a, Zenon
<1>3. Len(t) = n + 1 /\ t[n + 1] = x /\ \A i \in 1 .. n : t[i] = s[i]
  BY <1>1, <1>2
<1>4. Len(t) # 0
  BY <1>3
<1>5. PICK g \in [1 .. Len(t) -> Seq(S)] : Flattens(g, t, Len(t)) /\ FlattenSeq(t) = g[Len(t)]
  BY <1>4, FlattenSeqFlattens
<1>6. /\ Flattens(g, t, n) /\ FlattenSeq(t) = g[n + 1]
      /\ g[n + 1] = IF n = 0 THEN t[1] ELSE g[n] \o t[n + 1]
  BY <1>3, <1>5, FlattensPrefix
<1>7. CASE n = 0
  <2>0. s = <<>> /\ Len(s) = 0
    BY <1>1, <1>7, EmptySeq
  <2>1. FlattenSeq(s) = s
    BY <2>0, Zenon DEF FlattenSeq
  <2>2. FlattenSeq(t) = x
    BY <1>3, <1>6, <1>7
  <2> QED
    BY <1>2, <2>0, <2>1, <2>2, ConcatEmptySeq, EmptySeq
<1>8. CASE n # 0
  <2>1. PICK f \in [1 .. Len(s) -> Seq(S)] : Flattens(f, s, Len(s)) /\ FlattenSeq(s) = f[Len(s)]
    BY <1>1, <1>8, FlattenSeqFlattens
  <2>2. g[n] = f[n]
    <3>1. Flattens(f, s, n)
      BY <1>1, <2>1
    <3>2. \A i \in 1 .. n : g[i] = f[i]
      <4>1. Flattens(g, s, n)
        BY <1>3, <1>6 DEF Flattens
      <4> QED
        BY <3>1, <4>1, FlattensUnique
    <3> QED
      BY <1>8, <3>2
  <2>3. f[n] \in Seq(S)
    BY <1>1, <1>8, <2>1
  <2> QED
    BY <1>1, <1>2, <1>3, <1>6, <1>8, <2>1, <2>2, <2>3
<1> QED
  BY <1>7, <1>8

-----------------------------------------------------------------------------
(* The messages of a range of blocks.                                       *)

Message == [contract : Contracts, nonce : Nat]

\* The messages of one block; none if the settlement chain has no such block.
Block(b) == IF b \in DOMAIN Sent THEN Sent[b] ELSE <<>>

\* The messages of the blocks start to until, block by block.
Blocks(start, until) == [i \in 1 .. (until - start + 1) |-> Block(start + i - 1)]

\* The messages of a block, of the blocks of a range, and what Messages makes of them.
LEMMA BlockType == \A b : Block(b) \in Seq(Message)
<1> SUFFICES ASSUME NEW b PROVE Block(b) \in Seq(Message)
  OBVIOUS
<1>1. Sent \in [0 .. Height -> Seq(Message)]
  BY MessagingAssumption DEF Message
<1>2. CASE b \in DOMAIN Sent
  BY <1>1, <1>2 DEF Block
<1>3. CASE b \notin DOMAIN Sent
  BY <1>3, EmptySeq DEF Block
<1> QED
  BY <1>2, <1>3

\* A range is a sequence of such blocks.
LEMMA BlocksType ==
    ASSUME NEW start \in Int, NEW until \in Int, start <= until + 1
    PROVE  /\ Blocks(start, until) \in Seq(Seq(Message))
           /\ Len(Blocks(start, until)) = until - start + 1
<1>1. until - start + 1 \in Nat
  OBVIOUS
<1>2. \A i \in 1 .. (until - start + 1) : Block(start + i - 1) \in Seq(Message)
  BY BlockType
<1> QED
  BY <1>1, <1>2 DEF Blocks

\* Messages flattens it.
LEMMA MessagesFlatten == \A start, until : Messages(start, until) = FlattenSeq(Blocks(start, until))
BY DEF Messages, Blocks, Block

\* A range that ends before it starts has no message.
LEMMA MessagesNone ==
    ASSUME NEW start \in Int
    PROVE  Messages(start, start - 1) = <<>>
<1>1. Blocks(start, start - 1) \in Seq(Seq(Message)) /\ Len(Blocks(start, start - 1)) = 0
  BY BlocksType DEF Blocks
<1>2. Blocks(start, start - 1) = <<>>
  BY <1>1, EmptySeq
<1>3. FlattenSeq(Blocks(start, start - 1)) = Blocks(start, start - 1)
  BY <1>1, Zenon DEF FlattenSeq
<1> QED
  BY <1>2, <1>3, MessagesFlatten

\* One block more adds its messages at the end.
LEMMA MessagesNext ==
    ASSUME NEW start \in Int, NEW until \in Int, start <= until + 1
    PROVE  /\ Messages(start, until + 1) = Messages(start, until) \o Block(until + 1)
           /\ Messages(start, until) \in Seq(Message)
<1> DEFINE n == until - start + 1
<1>1. Blocks(start, until) \in Seq(Seq(Message)) /\ Len(Blocks(start, until)) = n /\ n \in Nat
  BY BlocksType
<1>2. Blocks(start, until + 1) \in Seq(Seq(Message)) /\ Len(Blocks(start, until + 1)) = n + 1
  <2>1. until + 1 \in Int /\ start <= (until + 1) + 1 /\ (until + 1) - start + 1 = n + 1
    OBVIOUS
  <2> QED
    BY <2>1, BlocksType
<1>3. \A i \in 1 .. n : Blocks(start, until + 1)[i] = Blocks(start, until)[i]
  BY <1>1 DEF Blocks
<1>4. Blocks(start, until + 1)[n + 1] = Block(until + 1)
  <2>1. n + 1 \in 1 .. ((until + 1) - start + 1) /\ start + (n + 1) - 1 = until + 1
    BY <1>1
  <2>2. Blocks(start, until + 1)[n + 1] = Block(start + (n + 1) - 1)
    BY <2>1 DEF Blocks
  <2> QED
    BY <2>1, <2>2
<1>5. Blocks(start, until + 1) = Append(Blocks(start, until), Block(until + 1))
  <2>1. Block(until + 1) \in Seq(Message)
    BY BlockType
  <2> DEFINE t == Append(Blocks(start, until), Block(until + 1))
  <2>2. t \in Seq(Seq(Message)) /\ Len(t) = n + 1 /\ t[n + 1] = Block(until + 1)
    BY <1>1, <2>1
  <2>3. \A i \in 1 .. n : t[i] = Blocks(start, until)[i]
    BY <1>1, <2>1
  <2> HIDE DEF t, n
  <2>4. \A i \in 1 .. n + 1 : Blocks(start, until + 1)[i] = t[i]
    BY <1>1, <1>3, <1>4, <2>2, <2>3
  <2>5. Blocks(start, until + 1) = t
    BY <1>2, <2>2, <2>4, SeqEqual
  <2> QED
    BY <2>5 DEF t
<1> HIDE DEF n
<1> QED
  BY <1>1, <1>5, BlockType, FlattenAppend, MessagesFlatten

\* The messages of a range and of the one that starts where it ends are those of
\* both.
LEMMA MessagesJoin ==
    ASSUME NEW start \in Int, NEW mid \in Int, NEW until \in Int,
           start <= mid + 1, mid <= until
    PROVE  /\ Messages(start, mid) \o Messages(mid + 1, until) = Messages(start, until)
           /\ Messages(start, until) \in Seq(Message)
<1> DEFINE P(n) == Messages(start, mid) \o Messages(mid + 1, mid + n) = Messages(start, mid + n)
           T == {n \in Nat : P(n)}
<1>1. 0 \in T
  <2>1. Messages(mid + 1, mid) = <<>>
    <3>1. mid + 1 \in Int /\ (mid + 1) - 1 = mid
      OBVIOUS
    <3> QED
      BY <3>1, MessagesNone
  <2>2. Messages(start, mid) \in Seq(Message)
    BY MessagesNext
  <2>3. mid + 0 = mid
    OBVIOUS
  <2> QED
    BY <2>1, <2>2, <2>3, ConcatEmptySeq
<1>2. ASSUME NEW n \in Nat, n \in T PROVE n + 1 \in T
  <2> DEFINE b == Block(mid + n + 1)
  <2>0. /\ mid + (n + 1) = (mid + n) + 1 /\ mid + n \in Int /\ mid + 1 \in Int
        /\ mid + 1 <= (mid + n) + 1 /\ start <= (mid + n) + 1
    OBVIOUS
  <2>1. /\ Messages(start, mid + (n + 1)) = Messages(start, mid + n) \o b
        /\ Messages(start, mid + n) \in Seq(Message)
    BY <2>0, MessagesNext
  <2>2. /\ Messages(mid + 1, mid + (n + 1)) = Messages(mid + 1, mid + n) \o b
        /\ Messages(mid + 1, mid + n) \in Seq(Message)
    BY <2>0, MessagesNext
  <2>3. Messages(start, mid) \in Seq(Message) /\ b \in Seq(Message)
    BY MessagesNext, BlockType
  <2> HIDE DEF b
  <2>4. \A x, y, z \in Seq(Message) : x \o (y \o z) = (x \o y) \o z
    BY ConcatAssociative
  <2>5. Messages(start, mid) \o (Messages(mid + 1, mid + n) \o b)
            = (Messages(start, mid) \o Messages(mid + 1, mid + n)) \o b
    BY <2>2, <2>3, <2>4, Zenon
  <2>6. P(n)
    BY <1>2
  <2>7. Messages(start, mid) \o Messages(mid + 1, mid + (n + 1)) = Messages(start, mid + (n + 1))
    BY <2>1, <2>2, <2>5, <2>6, Zenon
  <2> QED
    BY <2>7
<1>3. until - mid \in Nat /\ mid + (until - mid) = until
  OBVIOUS
<1> HIDE DEF T
<1>4. until - mid \in T
  BY <1>1, <1>2, <1>3, SetInduction
<1>5. P(until - mid)
  BY <1>4 DEF T
<1>6. Messages(start, until) \in Seq(Message)
  BY MessagesNext
<1> QED
  BY <1>3, <1>5, <1>6

-----------------------------------------------------------------------------
(* The messaging service.                                                   *)

\* The cursor is never beyond the block after the tip.
CursorInv == FromBlock <= from /\ from <= latest + 1 /\ latest \in 0 .. Height /\ from \in Nat

\* A gathering in flight starts at the cursor, and the range it asks for is not
\* empty before the block before the cursor, nor beyond the tip.
GatherInv ==
    \/ gather = NoGather
    \/ gather = [step |-> "number", from |-> from]
    \/ \E to \in 0 .. latest :
           to >= from - 1 /\ gather = [step |-> "logs", from |-> from, to |-> to]

\* An answer is of a chain that has the block before the cursor.
AnswerInv ==
    \/ answer = NoAnswer
    \/ answer = [kind |-> "err"]
    \/ \E tip \in 0 .. latest : from <= tip + 1 /\ answer = [kind |-> "ok", latest |-> tip]

FlagsType ==
    /\ due \in BOOLEAN /\ armed \in BOOLEAN /\ woken \in BOOLEAN
    /\ tasks \in [Tasks -> {"none", "running", "cancelled", "completed", "panicked"}]
    /\ cancelled \in BOOLEAN /\ closed \in BOOLEAN

OfferedInv == offered = Messages(FromBlock, from - 1)

\* A node that stops, or has stopped, has cancelled its token; one that has stopped
\* runs no task.
StopInv ==
    /\ node \in {"stopping", "stopped"} => cancelled
    /\ node = "stopped" => Drained

CursorVars == <<latest, from, gather, answer, offered>>
ServiceInv == CursorInv /\ GatherInv /\ AnswerInv /\ OfferedInv

\* A gathering is over, not begun or under way, by one field of its record.
LEMMA GatherCases ==
    ASSUME GatherInv
    PROVE  /\ gather.step = "number" => gather = [step |-> "number", from |-> from]
           /\ gather.step = "logs" =>
                \E to \in 0 .. latest :
                    /\ to >= from - 1
                    /\ gather = [step |-> "logs", from |-> from, to |-> to]
           /\ gather.step \in {"none", "number", "logs"}
           /\ gather.step = "none" => gather = NoGather
BY DEF GatherInv, NoGather

\* So it is with an answer.
LEMMA AnswerCases ==
    ASSUME AnswerInv
    PROVE  /\ answer.kind = "ok" =>
                \E tip \in 0 .. latest :
                    from <= tip + 1 /\ answer = [kind |-> "ok", latest |-> tip]
           /\ answer.kind \in {"none", "ok", "err"}
BY DEF AnswerInv, NoAnswer

\* Most steps of a node leave the cursor and the gathering alone.
LEMMA CursorFrame ==
    ASSUME Launch \/ InitFails \/ SelectTasks \/ MessagingPanics \/ BlockProductionFails
           \/ GasOracleFails \/ CancelTask \/ Stop \/ StopReturns \/ NodeStopped \/ Tick
           \/ Wakeup \/ Done
    PROVE  UNCHANGED CursorVars
BY DEF Launch, InitFails, SelectTasks, MessagingPanics, BlockProductionFails, GasOracleFails,
       CancelTask, Stop, StopReturns, NodeStopped, Tick, TimerFires, Wakeup, Progress, Done,
       CursorVars, msgVars, serviceVars, vars

\* A step that leaves them alone keeps the invariant.
LEMMA ServiceKept == ServiceInv /\ UNCHANGED CursorVars => ServiceInv'
BY DEF ServiceInv, CursorVars, CursorInv, GatherInv, AnswerInv, OfferedInv, NoGather,
       NoAnswer, Messages

\* Nothing is in flight and nothing is answered after the cursor was set.
LEMMA CursorSet ==
    ASSUME gather' = NoGather, answer' = NoAnswer
    PROVE  GatherInv' /\ AnswerInv'
BY DEF GatherInv, AnswerInv, NoGather, NoAnswer

\* The range of a request, from the cursor on: it reaches at least the block before
\* the cursor and at most the tip.
LEMMA ToBlockRange ==
    ASSUME NEW start \in Nat, NEW tip \in Nat, start <= tip + 1
    PROVE  ToBlock(start, tip) \in 0 .. tip /\ ToBlock(start, tip) >= start - 1
BY MessagingAssumption DEF ToBlock

\* Every poll of the service keeps the offered messages those before the cursor.
LEMMA PollStep == ServiceInv /\ Poll => ServiceInv'
<1> SUFFICES ASSUME ServiceInv, Poll PROVE ServiceInv'
    OBVIOUS
<1>0. CursorInv /\ GatherInv /\ AnswerInv /\ OfferedInv /\ latest \in Nat /\ from \in Nat
  BY DEF ServiceInv, CursorInv
<1>1. CASE PollStart
  <2>1. /\ gather' = [step |-> "number", from |-> from]
        /\ UNCHANGED <<latest, answer, from, offered>>
    BY <1>1 DEF PollStart
  <2> QED
    BY <1>0, <2>1 DEF ServiceInv, CursorInv, GatherInv, AnswerInv, OfferedInv, NoAnswer, Messages
<1>2. CASE PollPending
  BY <1>2, ServiceKept DEF PollPending, CursorVars
<1>3. CASE PollNumber
  <2>1. gather = [step |-> "number", from |-> from]
    BY <1>0, <1>3, GatherCases DEF PollNumber, HasAnswer
  <2>2. PICK tip \in 0 .. latest : from <= tip + 1 /\ answer = [kind |-> "ok", latest |-> tip]
    BY <1>0, <1>3, AnswerCases DEF PollNumber, HasAnswer
  <2>3. gather.from = from /\ answer.latest = tip
    BY <2>1, <2>2
  <2>4. /\ gather' = [step |-> "logs", from |-> from, to |-> ToBlock(from, tip)]
        /\ answer' = NoAnswer /\ UNCHANGED <<latest, from, offered>>
    BY <1>3, <2>3 DEF PollNumber
  <2>5. ToBlock(from, tip) \in 0 .. latest' /\ ToBlock(from, tip) >= from' - 1
    BY <1>0, <2>2, <2>4, ToBlockRange
  <2>6. GatherInv'
    BY <2>4, <2>5 DEF GatherInv
  <2>7. AnswerInv'
    BY <2>4 DEF AnswerInv, NoAnswer
  <2> QED
    BY <1>0, <2>4, <2>6, <2>7 DEF ServiceInv, CursorInv, OfferedInv, Messages
<1>4. CASE PollNothing
  <2>1. gather = [step |-> "number", from |-> from]
    BY <1>0, <1>4, GatherCases DEF PollNothing, HasAnswer
  <2>2. PICK tip \in 0 .. latest : from <= tip + 1 /\ answer = [kind |-> "ok", latest |-> tip]
    BY <1>0, <1>4, AnswerCases DEF PollNothing, HasAnswer
  <2>3. gather.from = from /\ answer.latest = tip
    BY <2>1, <2>2
  <2>4. /\ from > tip /\ from' = tip + 1
        /\ gather' = NoGather /\ answer' = NoAnswer /\ UNCHANGED <<latest, offered>>
    BY <1>4, <2>3 DEF PollNothing, NothingToFetch, Ready
  <2>5. from' = from
    BY <1>0, <2>2, <2>4
  <2> QED
    BY <1>0, <2>4, <2>5, CursorSet DEF ServiceInv, CursorInv, OfferedInv, Messages
<1>5. CASE PollLogs
  <2>1. PICK to \in 0 .. latest :
            to >= from - 1 /\ gather = [step |-> "logs", from |-> from, to |-> to]
    BY <1>0, <1>5, GatherCases DEF PollLogs, HasAnswer
  <2>2. gather.from = from /\ gather.to = to
    BY <2>1
  <2>3. /\ offered' = offered \o Messages(from, to) /\ from' = to + 1
        /\ gather' = NoGather /\ answer' = NoAnswer /\ UNCHANGED latest
    BY <1>5, <2>2 DEF PollLogs, AddTransactions, Ready
  <2>4. /\ FromBlock \in Int /\ from - 1 \in Int /\ to \in Int
        /\ FromBlock <= (from - 1) + 1 /\ from - 1 <= to /\ (from - 1) + 1 = from
        /\ (to + 1) - 1 = to
    BY <1>0, <2>1, MessagingAssumption DEF CursorInv
  <2>5. Messages(FromBlock, from - 1) \o Messages((from - 1) + 1, to) = Messages(FromBlock, to)
    BY ONLY <2>4, MessagesJoin
  <2>6. offered' = Messages(FromBlock, from' - 1)
    BY <1>0, <2>3, <2>4, <2>5 DEF OfferedInv
  <2>7. OfferedInv'
    BY <2>6 DEF OfferedInv, Messages
  <2>8. CursorInv'
    BY <1>0, <2>1, <2>3, MessagingAssumption DEF CursorInv
  <2> QED
    BY <2>3, <2>7, <2>8, CursorSet DEF ServiceInv
<1>6. CASE PollErr
  <2>1. gather' = NoGather /\ answer' = NoAnswer /\ UNCHANGED <<latest, from, offered>>
    BY <1>6 DEF PollErr
  <2> QED
    BY <1>0, <2>1, CursorSet DEF ServiceInv, CursorInv, OfferedInv, Messages
<1> QED
  BY <1>1, <1>2, <1>3, <1>4, <1>5, <1>6 DEF Poll

\* Every step of the node does.
LEMMA ServiceStep == FromBlock <= 1 /\ ServiceInv /\ [Next]_vars => ServiceInv'
<1> SUFFICES ASSUME FromBlock <= 1, ServiceInv, [Next]_vars PROVE ServiceInv'
    OBVIOUS
<1>0. /\ CursorInv /\ GatherInv /\ AnswerInv /\ OfferedInv /\ latest \in Nat /\ from \in Nat
      /\ FromBlock \in Nat /\ Height \in Nat
  BY MessagingAssumption DEF ServiceInv, CursorInv
<1>1. CASE RunTasks
  <2>1. /\ from' = FromBlock /\ offered' = <<>> /\ gather' = NoGather /\ answer' = NoAnswer
        /\ latest' = latest
    BY <1>1 DEF RunTasks, NewService
  <2>2. Messages(FromBlock, from' - 1) = <<>>
    BY <1>0, <2>1, MessagesNone
  <2>3. OfferedInv'
    BY <2>1, <2>2 DEF OfferedInv, Messages
  <2>4. CursorInv'
    BY <1>0, <2>1 DEF CursorInv
  <2> QED
    BY <2>1, <2>3, <2>4, CursorSet DEF ServiceInv
<1>2. CASE Settlement
  <2>1. latest' = latest + 1 /\ latest < Height /\ UNCHANGED <<from, gather, answer, offered>>
    BY <1>2 DEF Settlement, Grow
  <2>2. CursorInv'
    BY <1>0, <2>1 DEF CursorInv
  <2>3. 0 .. latest \subseteq 0 .. latest'
    BY <1>0, <2>1
  <2>4. GatherInv'
    BY <1>0, <2>1, <2>3 DEF GatherInv, NoGather
  <2>5. AnswerInv'
    BY <1>0, <2>1, <2>3 DEF AnswerInv, NoAnswer
  <2>6. OfferedInv'
    BY <1>0, <2>1 DEF OfferedInv, Messages
  <2> QED
    BY <2>2, <2>4, <2>5, <2>6 DEF ServiceInv
<1>3. CASE Response
  <2>1. /\ answer' = [kind |-> "err"] \/ answer' = [kind |-> "ok", latest |-> latest]
        /\ UNCHANGED <<latest, from, gather, offered>>
    BY <1>3 DEF Response, Answered, Failed
  <2>2. latest \in 0 .. latest' /\ from' <= latest + 1
    BY <1>0, <2>1 DEF CursorInv
  <2>3. AnswerInv'
    BY <2>1, <2>2 DEF AnswerInv
  <2> QED
    BY <1>0, <2>1, <2>3 DEF ServiceInv, CursorInv, GatherInv, OfferedInv, NoGather, Messages
<1>4. CASE PollMessaging
  BY <1>4, PollStep DEF PollMessaging
<1>5. CASE UNCHANGED vars
  BY <1>5, ServiceKept DEF vars, msgVars, CursorVars
<1> QED
  BY <1>1, <1>2, <1>3, <1>4, <1>5, CursorFrame, ServiceKept DEF Next

\* The flags and the tasks keep their types.
LEMMA FlagsStep == FlagsType /\ [Next]_vars => FlagsType'
<1> SUFFICES ASSUME FlagsType, [Next]_vars PROVE FlagsType'
    OBVIOUS
<1> DEFINE Status == {"none", "running", "cancelled", "completed", "panicked"}
<1>1. due' \in BOOLEAN /\ armed' \in BOOLEAN /\ woken' \in BOOLEAN
  <2>1. CASE Poll
    BY <2>1 DEF FlagsType, Poll, PollStart, PollPending, PollNumber, PollNothing, PollLogs,
       PollErr, PollTick, Ready
  <2>2. CASE Grow \/ TimerFires \/ Progress \/ Answered \/ Failed \/ NewService
    BY <2>2 DEF FlagsType, Grow, TimerFires, Progress, Answered, Failed, NewService
  <2>3. CASE UNCHANGED <<due, armed, woken>>
    BY <2>3 DEF FlagsType
  <2>4. ASSUME Launch \/ InitFails \/ SelectTasks \/ MessagingPanics \/ BlockProductionFails
               \/ GasOracleFails \/ CancelTask \/ Stop \/ StopReturns \/ NodeStopped \/ Done
        PROVE  UNCHANGED <<due, armed, woken>>
    BY <2>4 DEF Launch, InitFails, SelectTasks, MessagingPanics, BlockProductionFails,
       GasOracleFails, CancelTask, Stop, StopReturns, NodeStopped, Done, msgVars,
       serviceVars, vars
  <2>5. CASE UNCHANGED vars
    BY <2>3, <2>5 DEF vars, msgVars
  <2> QED
    BY <2>1, <2>2, <2>3, <2>4, <2>5
       DEF Next, RunTasks, PollMessaging, Settlement, Tick, Response, Wakeup
<1>2. tasks' \in [Tasks -> Status] /\ cancelled' \in BOOLEAN /\ closed' \in BOOLEAN
  <2>1. ASSUME NEW t \in Tasks, NEW how \in {"completed", "panicked"}, End(t, how)
        PROVE  tasks' \in [Tasks -> Status] /\ cancelled' \in BOOLEAN /\ closed' \in BOOLEAN
    BY <2>1 DEF End, FlagsType
  <2>2. ASSUME NEW t \in Tasks, Dropped(t)
        PROVE  tasks' \in [Tasks -> Status] /\ cancelled' \in BOOLEAN /\ closed' \in BOOLEAN
    BY <2>2 DEF Dropped, FlagsType
  <2>3. CASE Launch
    BY <2>3 DEF Launch, FlagsType
  <2>4. CASE RunTasks
    BY <2>4 DEF RunTasks, Spawn, FlagsType
  <2>5. CASE Stop
    BY <2>5 DEF Stop, Shutdown, FlagsType
  <2>6. CASE UNCHANGED taskVars
    BY <2>6 DEF FlagsType, taskVars
  <2>7. ASSUME InitFails \/ SelectTasks \/ MessagingPanics \/ BlockProductionFails
               \/ GasOracleFails
        PROVE  \E t \in Tasks, how \in {"completed", "panicked"} : End(t, how)
    BY <2>7, NodeAssumption
       DEF InitFails, SelectTasks, MessagingPanics, BlockProductionFails, GasOracleFails
  <2>8. ASSUME PollMessaging \/ StopReturns \/ NodeStopped \/ Settlement \/ Tick \/ Response
               \/ Wakeup \/ Done
        PROVE  UNCHANGED taskVars
    BY <2>8 DEF PollMessaging, StopReturns, NodeStopped, Settlement, Tick, Response, Wakeup,
       Done, vars
  <2>9. CASE UNCHANGED vars
    BY <2>6, <2>9 DEF vars
  <2> QED
    BY <2>1, <2>2, <2>3, <2>4, <2>5, <2>6, <2>7, <2>8, <2>9 DEF Next, CancelTask
<1> QED
  BY <1>1, <1>2 DEF FlagsType

\* The messages offered to the pool since the launch are those of the blocks from
\* the configured one up to the cursor, each once and in order, for every
\* settlement chain, range limit and number of failures and launches: a failed
\* gathering leaves the cursor, a successful one moves it behind the range whose
\* messages it offered. The configured block must not be beyond the one after the
\* tip at the start (block 0): a cursor that is moves backwards.
THEOREM MessagesOfferedOnce == ASSUME FromBlock <= 1 PROVE Spec => []GatheredExactly
<1>1. Init => ServiceInv /\ FlagsType
  <2> SUFFICES ASSUME Init PROVE ServiceInv /\ FlagsType
    OBVIOUS
  <2>1. /\ latest = 0 /\ from = FromBlock /\ gather = NoGather /\ answer = NoAnswer
        /\ offered = <<>>
    BY DEF Init, MsgInit
  <2>2. FromBlock \in Nat /\ Height \in Nat
    BY MessagingAssumption
  <2>3. Messages(FromBlock, FromBlock - 1) = <<>>
    BY <2>2, MessagesNone
  <2>4. ServiceInv
    BY <2>1, <2>2, <2>3 DEF ServiceInv, CursorInv, GatherInv, AnswerInv, OfferedInv
  <2>5. /\ due \in BOOLEAN /\ armed \in BOOLEAN /\ woken \in BOOLEAN
        /\ cancelled \in BOOLEAN /\ closed \in BOOLEAN
    BY DEF Init, MsgInit, TasksInit
  <2>6. tasks \in [Tasks -> {"none", "running", "cancelled", "completed", "panicked"}]
    BY DEF Init, TasksInit
  <2> QED
    BY <2>4, <2>5, <2>6 DEF FlagsType
<1>2. ServiceInv /\ FlagsType => GatheredExactly
  <2> SUFFICES ASSUME ServiceInv, FlagsType PROVE GatheredExactly
    OBVIOUS
  <2>1. CursorInv /\ GatherInv /\ AnswerInv /\ OfferedInv /\ Height \in Nat
    BY MessagingAssumption DEF ServiceInv
  <2>2. latest \in 0 .. Height /\ from \in 0 .. Height + 1
    BY <2>1 DEF CursorInv
  <2>3. gather.step = "logs" => gather.to \in 0 .. latest
    BY <2>1, GatherCases
  <2> QED
    BY <2>1, <2>2, <2>3, GatherCases, AnswerCases
       DEF GatheredExactly, TypeInv, FlagsType, OfferedInv
<1> QED
  BY <1>1, <1>2, ServiceStep, FlagsStep, PTL DEF Spec

-----------------------------------------------------------------------------
(* Stopping.                                                                *)

\* A node that has stopped starts no task before it is launched again: only a
\* running task spawns one.
LEMMA StopStep == StopInv /\ [Next]_vars => StopInv'
<1> SUFFICES ASSUME StopInv, [Next]_vars PROVE StopInv'
    OBVIOUS
<1>1. CASE Launch
  BY <1>1 DEF Launch, StopInv
<1>2. CASE RunTasks
  <2>1. Running("Sequencing") /\ "Sequencing" \in Tasks /\ UNCHANGED <<node, cancelled>>
    BY <1>2, NodeAssumption DEF RunTasks, Spawn
  <2> QED
    BY <2>1 DEF StopInv, Drained
<1>3. ASSUME NEW t \in Tasks, Running(t), cancelled => cancelled', node' = node
      PROVE  StopInv'
  BY <1>3 DEF StopInv, Drained
<1>4. ASSUME InitFails \/ SelectTasks \/ MessagingPanics \/ BlockProductionFails
             \/ GasOracleFails \/ CancelTask
      PROVE  /\ \E t \in Tasks : Running(t)
             /\ cancelled => cancelled'
             /\ node' = node
  <2>1. ASSUME InitFails \/ SelectTasks \/ MessagingPanics \/ BlockProductionFails
               \/ GasOracleFails
        PROVE  (\E t \in Tasks, how \in {"completed", "panicked"} : End(t, how)) /\ node' = node
    BY <2>1, NodeAssumption
       DEF InitFails, SelectTasks, MessagingPanics, BlockProductionFails, GasOracleFails,
           nodeVars
  <2>2. ASSUME CancelTask PROVE (\E t \in Tasks : Dropped(t)) /\ node' = node
    BY <2>2 DEF CancelTask, nodeVars
  <2>3. \A t, how : End(t, how) => Running(t) /\ (cancelled => cancelled')
    BY DEF End
  <2>4. \A t : Dropped(t) => Running(t) /\ (cancelled => cancelled')
    BY DEF Dropped
  <2> QED
    BY <1>4, <2>1, <2>2, <2>3, <2>4
<1>5. CASE Stop
  BY <1>5 DEF Stop, Shutdown, StopInv
<1>6. CASE StopReturns
  BY <1>6 DEF StopReturns, ShutdownDone, StopInv, taskVars, Drained, Running
<1>7. CASE UNCHANGED <<taskVars, node>>
  BY <1>7 DEF StopInv, taskVars, Drained, Running
<1>8. ASSUME PollMessaging \/ NodeStopped \/ Settlement \/ Tick \/ Response \/ Wakeup \/ Done
      PROVE  UNCHANGED <<taskVars, node>>
  BY <1>8 DEF PollMessaging, NodeStopped, Settlement, Tick, Response, Wakeup, Done, vars,
     nodeVars
<1>9. CASE UNCHANGED vars
  BY <1>7, <1>9 DEF vars, nodeVars
<1> QED
  BY <1>1, <1>2, <1>3, <1>4, <1>5, <1>6, <1>7, <1>8, <1>9 DEF Next

\* When LaunchedNode::stop has returned no task runs and none can start, whatever
\* was spawned or failed during the shutdown, until the node is launched again.
THEOREM StopLeavesNothing == Spec => []StopDrains
<1>1. Init => StopInv
  BY DEF Init, StopInv
<1>2. StopInv => StopDrains
  BY DEF StopInv, StopDrains
<1> QED
  BY <1>1, <1>2, StopStep, PTL DEF Spec
=============================================================================
