---------------------------- MODULE IndexerProofs ----------------------------
(***************************************************************************)
(* Whatever the node, the pages and the blocks, and wherever a request     *)
(* fails or torii ends: the locals of the engine and the database keep     *)
(* their types, the pages of katana's getEvents are the events of the      *)
(* chain, what is committed up to the head is complete, the events of a    *)
(* contract are written once and in order, subscribers are told of exactly *)
(* what is committed, and the balances count the transfers that are        *)
(* committed.                                                              *)
(***************************************************************************)
EXTENDS Indexer, TLAPS, WellFoundedInduction, FiniteSetTheorems, SequenceTheorems

-----------------------------------------------------------------------------
(* Induction on numbers and on sequences *)

\* A nonempty set of naturals has a least element.
LEMMA LeastElement ==
    ASSUME NEW T \in SUBSET Nat, T # {}
    PROVE  \E x \in T : \A y \in T : x <= y
<1> DEFINE R == OpToRel(<,Nat)
<1>1. IsWellFoundedOn(R, Nat)
  BY NatLessThanWellFounded
<1>2. \A x, y \in Nat : x < y => <<x, y>> \in R
  BY DEF OpToRel
<1> HIDE DEF R
<1>3. PICK x \in T : \A y \in T : ~(<<y, x>> \in R)
  BY <1>1, WFMin
<1>4. ASSUME NEW y \in T PROVE x <= y
  <2>1. x \in Nat /\ y \in Nat
    OBVIOUS
  <2>2. ~(y < x)
    BY <1>2, <1>3, <2>1
  <2> QED
    BY <2>1, <2>2
<1> QED
  BY <1>3, <1>4

\* Induction on the naturals, for a set.
LEMMA SetInduction ==
    ASSUME NEW S, 0 \in S, \A n \in Nat : n \in S => n + 1 \in S
    PROVE  Nat \subseteq S
<1> DEFINE T == Nat \ S
<1> SUFFICES ASSUME T # {} PROVE FALSE
  OBVIOUS
<1>1. PICK x \in T : \A y \in T : x <= y
  BY LeastElement
<1>2. x # 0 /\ x - 1 \in Nat /\ x - 1 \in S
  BY <1>1
<1> QED
  BY <1>1, <1>2

\* A sequence is empty, or one with an element appended.
LEMMA LastAppended ==
    ASSUME NEW T, NEW s \in Seq(T), Len(s) # 0
    PROVE  \E r \in Seq(T), x \in T : s = Append(r, x) /\ Len(r) + 1 = Len(s)
<1>1. Len(s) \in Nat /\ s[Len(s)] \in T /\ Len(s) - 1 \in Nat
  OBVIOUS
<1> DEFINE r == [i \in 1..(Len(s) - 1) |-> s[i]]
<1>2. r \in Seq(T) /\ Len(r) = Len(s) - 1
  BY <1>1
<1>3. s = Append(r, s[Len(s)])
  BY <1>1, <1>2
<1> HIDE DEF r
<1> QED
  BY <1>1, <1>2, <1>3

\* Induction on sequences, for a set.
LEMMA SequenceInduction ==
    ASSUME NEW T, NEW P, <<>> \in P,
           \A s \in Seq(T), x \in T : s \in P => Append(s, x) \in P
    PROVE  Seq(T) \subseteq P
<1> DEFINE N == {n \in Nat : \A s \in Seq(T) : Len(s) = n => s \in P}
<1>1. 0 \in N
  <2>1. \A s \in Seq(T) : Len(s) = 0 => s = <<>>
    OBVIOUS
  <2> QED
    BY <2>1
<1>2. ASSUME NEW n \in Nat, n \in N PROVE n + 1 \in N
  <2> SUFFICES ASSUME NEW s \in Seq(T), Len(s) = n + 1 PROVE s \in P
    OBVIOUS
  <2>1. PICK r \in Seq(T), x \in T : s = Append(r, x) /\ Len(r) + 1 = Len(s)
    BY LastAppended
  <2>2. Len(r) = n
    BY <2>1
  <2> QED
    BY <1>2, <2>1, <2>2
<1>3. \A n \in Nat : n \in N => n + 1 \in N
  BY <1>2
<1>4. Nat \subseteq N
  <2> HIDE DEF N
  <2> QED
    BY <1>1, <1>3, SetInduction
<1> QED
  <2> SUFFICES ASSUME NEW s \in Seq(T) PROVE s \in P
    OBVIOUS
  <2>1. Len(s) \in Nat
    OBVIOUS
  <2> QED
    BY <1>4, <2>1

\* A step from each number up to k, and the function that takes these steps from b.
StepOf(F, k, G) == F \in [(1..k) \X G -> G]
Iterated(a, F, b, k, G) ==
    a \in [0..k -> G] /\ a[0] = b /\ \A n \in 1..k : a[n] = F[<<n, a[n - 1]>>]

\* There is such a function: a function of the numbers up to k can be defined step by step.
LEMMA Iterates ==
    ASSUME NEW G, NEW b \in G, NEW k \in Nat, NEW F, StepOf(F, k, G)
    PROVE  \E a : Iterated(a, F, b, k, G)
<1> DEFINE N == {m \in Nat : m <= k => \E a \in [0..m -> G] :
                    a[0] = b /\ \A n \in 1..m : a[n] = F[<<n, a[n - 1]>>]}
<1>1. 0 \in N
  <2>1. PICK a : a = [i \in 0..0 |-> b]
    OBVIOUS
  <2>2. a \in [0..0 -> G] /\ a[0] = b /\ \A n \in 1..0 : a[n] = F[<<n, a[n - 1]>>]
    BY <2>1
  <2> QED
    BY <2>2
<1>2. ASSUME NEW m \in Nat, m \in N PROVE m + 1 \in N
  <2> SUFFICES ASSUME m + 1 <= k
               PROVE  \E a \in [0..(m + 1) -> G] :
                          a[0] = b /\ \A n \in 1..(m + 1) : a[n] = F[<<n, a[n - 1]>>]
    OBVIOUS
  <2>1. PICK a \in [0..m -> G] : a[0] = b /\ \A n \in 1..m : a[n] = F[<<n, a[n - 1]>>]
    BY <1>2
  <2>2. PICK x : x = F[<<m + 1, a[m]>>]
    OBVIOUS
  <2>3. x \in G
    BY <2>1, <2>2 DEF StepOf
  <2>4. PICK h : h = [i \in 0..(m + 1) |-> IF i <= m THEN a[i] ELSE x]
    OBVIOUS
  <2>5. h \in [0..(m + 1) -> G] /\ h[0] = b
    BY <2>1, <2>3, <2>4
  <2>6. ASSUME NEW n \in 1..(m + 1) PROVE h[n] = F[<<n, h[n - 1]>>]
    <3>1. n - 1 \in 0..m /\ h[n - 1] = a[n - 1]
      BY <2>4
    <3>2. CASE n \in 1..m
      BY <2>1, <2>4, <3>1, <3>2
    <3>3. CASE n = m + 1
      <4>1. n - 1 = m /\ ~(n <= m)
        BY <3>3
      <4>2. h[n] = x /\ h[n - 1] = a[m]
        BY <2>4, <3>1, <4>1
      <4> QED
        BY <2>2, <3>3, <4>2
    <3> QED
      BY <3>2, <3>3
  <2> QED
    BY <2>5, <2>6
<1>3. \A m \in Nat : m \in N => m + 1 \in N
  BY <1>2
<1>4. k \in N
  <2> HIDE DEF N
  <2> QED
    BY <1>1, <1>3, SetInduction
<1> QED
  BY <1>4 DEF Iterated

-----------------------------------------------------------------------------
(* The elements of a sequence that are in a set *)

\* g[n] is what the first n elements of s contribute, for n up to k.
Sifts(g, k, s, S) ==
    g = [n \in 0..k |-> IF n = 0 THEN <<>>
                        ELSE IF s[n] \in S THEN Append(g[n - 1], s[n]) ELSE g[n - 1]]

\* Among is the last value of the function it defines.
LEMMA AmongIs ==
    ASSUME NEW T, NEW s \in Seq(T), NEW S
    PROVE  \E f : Sifts(f, Len(s), s, S) /\ Among(s, S) = f[Len(s)]
<1> DEFINE After(n, q) == IF s[n] \in S THEN Append(q, s[n]) ELSE q
<1>1. \E g : Sifts(g, Len(s), s, S)
  <2>1. ASSUME NEW n \in 1..Len(s), NEW q \in Seq(T) PROVE After(n, q) \in Seq(T)
    OBVIOUS
  <2>2. PICK k, F : k = Len(s) /\ F = [p \in (1..k) \X Seq(T) |-> After(p[1], p[2])]
    OBVIOUS
  <2>3. StepOf(F, k, Seq(T)) /\ k \in Nat /\ <<>> \in Seq(T)
    BY <2>1, <2>2 DEF StepOf
  <2>4. PICK g : Iterated(g, F, <<>>, k, Seq(T))
    BY <2>3, Iterates
  <2>8. g \in [0..k -> Seq(T)] /\ g[0] = <<>> /\ \A n \in 1..k : g[n] = F[<<n, g[n - 1]>>]
    BY <2>4 DEF Iterated
  <2>5. ASSUME NEW n \in 0..k PROVE g[n] = IF n = 0 THEN <<>> ELSE After(n, g[n - 1])
    <3>1. CASE n = 0
      BY <2>8, <3>1
    <3>2. CASE n # 0
      <4>1. n \in 1..k /\ n - 1 \in 0..k
        BY <2>3, <3>2
      <4>2. <<n, g[n - 1]>> \in (1..k) \X Seq(T)
        BY <2>8, <4>1
      <4>3. F[<<n, g[n - 1]>>] = After(n, g[n - 1])
        BY <2>2, <4>2
      <4> QED
        BY <2>8, <3>2, <4>1, <4>3
    <3> QED
      BY <3>1, <3>2
  <2>6. g = [n \in 0..k |-> g[n]]
    BY <2>8
  <2>7. g = [n \in 0..k |-> IF n = 0 THEN <<>> ELSE After(n, g[n - 1])]
    BY <2>5, <2>6
  <2> QED
    BY <2>2, <2>7 DEF Sifts
<1>2. PICK f : f = CHOOSE g : Sifts(g, Len(s), s, S)
  OBVIOUS
<1>3. Among(s, S) = f[Len(s)]
  BY <1>2 DEF Among, Sifts
<1>4. Sifts(f, Len(s), s, S)
  BY <1>1, <1>2
<1> QED
  BY <1>3, <1>4

\* Nothing is among the elements of the empty sequence.
LEMMA AmongNone == ASSUME NEW S PROVE Among(<<>>, S) = <<>>
<1>1. Len(<<>>) = 0
  OBVIOUS
<1>2. PICK f : Sifts(f, 0, <<>>, S) /\ Among(<<>>, S) = f[0]
  <2>1. <<>> \in Seq({})
    OBVIOUS
  <2> QED
    BY <1>1, <2>1, AmongIs
<1> QED
  BY <1>2 DEF Sifts

\* An element more.
LEMMA AmongAppend ==
    ASSUME NEW T, NEW s \in Seq(T), NEW x \in T, NEW S
    PROVE  Among(Append(s, x), S) = IF x \in S THEN Append(Among(s, S), x) ELSE Among(s, S)
<1>1. PICK t : t = Append(s, x)
  OBVIOUS
<1>2. Len(s) \in Nat /\ t \in Seq(T) /\ Len(t) = Len(s) + 1 /\ t[Len(t)] = x
      /\ \A i \in 1..Len(s) : t[i] = s[i]
  BY <1>1
<1>3. PICK f : Sifts(f, Len(s), s, S) /\ Among(s, S) = f[Len(s)]
  BY <1>2, AmongIs
<1>4. PICK g : Sifts(g, Len(t), t, S) /\ Among(t, S) = g[Len(t)]
  BY <1>2, AmongIs
<1> DEFINE N == {n \in Nat : n <= Len(s) => f[n] = g[n]}
<1>5. 0 \in N
  BY <1>2, <1>3, <1>4 DEF Sifts
<1>6. ASSUME NEW n \in Nat, n \in N PROVE n + 1 \in N
  <2> SUFFICES ASSUME n + 1 <= Len(s) PROVE f[n + 1] = g[n + 1]
    OBVIOUS
  <2>1. n + 1 \in 0..Len(s) /\ n + 1 \in 0..Len(t) /\ n + 1 # 0 /\ (n + 1) - 1 = n
        /\ n + 1 \in 1..Len(s) /\ n <= Len(s)
    BY <1>2
  <2>2. f[n + 1] = IF s[n + 1] \in S THEN Append(f[n], s[n + 1]) ELSE f[n]
    BY <1>3, <2>1 DEF Sifts
  <2>3. g[n + 1] = IF t[n + 1] \in S THEN Append(g[n], t[n + 1]) ELSE g[n]
    BY <1>4, <2>1 DEF Sifts
  <2> QED
    BY <1>2, <1>6, <2>1, <2>2, <2>3
<1>7. \A n \in Nat : n \in N => n + 1 \in N
  BY <1>6
<1>8. f[Len(s)] = g[Len(s)]
  <2>1. Nat \subseteq N
    <3> HIDE DEF N
    <3> QED
      BY <1>5, <1>7, SetInduction
  <2> QED
    BY <1>2, <2>1
<1>9. g[Len(t)] = IF x \in S THEN Append(g[Len(s)], x) ELSE g[Len(s)]
  <2>1. Len(t) \in 0..Len(t) /\ Len(t) # 0 /\ Len(t) - 1 = Len(s)
    BY <1>2
  <2> QED
    BY <1>2, <1>4, <2>1 DEF Sifts
<1> QED
  BY <1>1, <1>3, <1>4, <1>8, <1>9

\* What is kept is a sequence of elements of the sequence that are in the set.
LEMMA AmongType ==
    ASSUME NEW T, NEW s \in Seq(T), NEW S
    PROVE  Among(s, S) \in Seq(T) /\ Among(s, S) \in Seq(T \cap S)
<1> DEFINE P == {r \in Seq(T) : Among(r, S) \in Seq(T \cap S)}
<1>1. <<>> \in P
  <2>1. <<>> \in Seq(T) /\ <<>> \in Seq(T \cap S)
    OBVIOUS
  <2> QED
    BY <2>1, AmongNone
<1>2. ASSUME NEW r \in Seq(T), NEW x \in T, r \in P PROVE Append(r, x) \in P
  <2>1. Among(r, S) \in Seq(T \cap S) /\ Append(r, x) \in Seq(T)
    BY <1>2
  <2>2. x \in S => Append(Among(r, S), x) \in Seq(T \cap S)
    BY <2>1
  <2> QED
    BY <2>1, <2>2, AmongAppend
<1> HIDE DEF P
<1>3. Seq(T) \subseteq P
  BY <1>1, <1>2, SequenceInduction
<1>4. Among(s, S) \in Seq(T \cap S)
  BY <1>3 DEF P
<1> QED
  BY <1>4, SeqMonotonic

\* What is kept of two sequences, one after the other.
LEMMA AmongConcat ==
    ASSUME NEW T, NEW s \in Seq(T), NEW t \in Seq(T), NEW S
    PROVE  Among(s \o t, S) = Among(s, S) \o Among(t, S)
<1> DEFINE P == {r \in Seq(T) : Among(s \o r, S) = Among(s, S) \o Among(r, S)}
<1>0. Among(s, S) \in Seq(T)
  BY AmongType
<1>1. <<>> \in P
  <2>1. s \o <<>> = s /\ Among(s, S) \o <<>> = Among(s, S) /\ <<>> \in Seq(T)
    BY <1>0, ConcatEmptySeq
  <2> QED
    BY <2>1, AmongNone
<1>2. ASSUME NEW r \in Seq(T), NEW x \in T, r \in P PROVE Append(r, x) \in P
  <2>1. Among(r, S) \in Seq(T)
    BY AmongType
  <2>2. s \o r \in Seq(T) /\ Append(r, x) \in Seq(T)
    OBVIOUS
  <2>3. s \o Append(r, x) = Append(s \o r, x)
    OBVIOUS
  <2>4. Among(s \o Append(r, x), S)
        = IF x \in S THEN Append(Among(s \o r, S), x) ELSE Among(s \o r, S)
    BY <2>2, <2>3, AmongAppend
  <2>5. Among(Append(r, x), S) = IF x \in S THEN Append(Among(r, S), x) ELSE Among(r, S)
    BY AmongAppend
  <2>6. Among(s, S) \o Append(Among(r, S), x) = Append(Among(s, S) \o Among(r, S), x)
    BY <1>0, <2>1
  <2> QED
    BY <1>2, <2>2, <2>4, <2>5, <2>6
<1> HIDE DEF P
<1>3. Seq(T) \subseteq P
  BY <1>1, <1>2, SequenceInduction
<1> QED
  BY <1>3 DEF P

\* Only the elements of the sequence matter.
LEMMA AmongAgree ==
    ASSUME NEW T, NEW s \in Seq(T), NEW R, NEW S, \A x \in T : x \in R <=> x \in S
    PROVE  Among(s, R) = Among(s, S)
<1> DEFINE P == {r \in Seq(T) : Among(r, R) = Among(r, S)}
<1>1. <<>> \in P
  BY AmongNone
<1>2. ASSUME NEW r \in Seq(T), NEW x \in T, r \in P PROVE Append(r, x) \in P
  <2>1. Among(Append(r, x), R) = IF x \in R THEN Append(Among(r, R), x) ELSE Among(r, R)
    BY AmongAppend
  <2>2. Among(Append(r, x), S) = IF x \in S THEN Append(Among(r, S), x) ELSE Among(r, S)
    BY AmongAppend
  <2>3. Append(r, x) \in Seq(T) /\ Among(r, R) = Among(r, S)
    BY <1>2
  <2> QED
    BY <2>1, <2>2, <2>3
<1> HIDE DEF P
<1>3. Seq(T) \subseteq P
  BY <1>1, <1>2, SequenceInduction
<1> QED
  BY <1>3 DEF P

\* The elements of a sequence.
LEMMA SeqToSet ==
    ASSUME NEW T, NEW s \in Seq(T)
    PROVE  s \in Seq(ToSet(s)) /\ ToSet(s) \subseteq T
BY DEF ToSet

-----------------------------------------------------------------------------
(* Sequences put together, and what is accumulated over a sequence *)

Flattens(g, ss) ==
    g = [i \in 1..Len(ss) |-> IF i = 1 THEN ss[i] ELSE g[i - 1] \o ss[i]]

\* FlattenSeq is the last value of the function it defines.
LEMMA FlattenIs ==
    ASSUME NEW T, NEW ss \in Seq(Seq(T)), Len(ss) # 0
    PROVE  \E f : /\ Flattens(f, ss) /\ FlattenSeq(ss) = f[Len(ss)]
                 /\ \A i \in 1..Len(ss) : f[i] \in Seq(T)
<1>1. PICK k, F : k = Len(ss) /\ F = [p \in (1..k) \X Seq(T) |-> p[2] \o ss[p[1]]]
  OBVIOUS
<1>2. k \in Nat /\ k # 0 /\ <<>> \in Seq(T) /\ \A i \in 1..k : ss[i] \in Seq(T)
  BY <1>1
<1>3. StepOf(F, k, Seq(T))
  <2>1. ASSUME NEW p \in (1..k) \X Seq(T) PROVE p[2] \o ss[p[1]] \in Seq(T)
    BY <1>2
  <2> QED
    BY <1>1, <2>1 DEF StepOf
<1>4. PICK a : Iterated(a, F, <<>>, k, Seq(T))
  BY <1>2, <1>3, Iterates
<1>5. a \in [0..k -> Seq(T)] /\ a[0] = <<>> /\ \A n \in 1..k : a[n] = F[<<n, a[n - 1]>>]
  BY <1>4 DEF Iterated
<1>6. ASSUME NEW n \in 1..k PROVE a[n] = a[n - 1] \o ss[n]
  <2>1. n - 1 \in 0..k
    BY <1>2
  <2>2. <<n, a[n - 1]>> \in (1..k) \X Seq(T)
    BY <1>5, <2>1
  <2> QED
    BY <1>1, <1>5, <2>2
<1>7. PICK h : h = [i \in 1..k |-> a[i]]
  OBVIOUS
<1>8. ASSUME NEW i \in 1..k PROVE h[i] = IF i = 1 THEN ss[i] ELSE h[i - 1] \o ss[i]
  <2>1. CASE i = 1
    <3>0. 1 \in 1..k /\ 1 - 1 = 0
      BY <1>2
    <3>1. a[1] = <<>> \o ss[1] /\ ss[1] \in Seq(T)
      <4>1. a[1] = a[0] \o ss[1]
        BY <1>6, <3>0
      <4> QED
        BY <1>2, <1>5, <3>0, <4>1
    <3>2. <<>> \o ss[1] = ss[1]
      BY <3>1, ConcatEmptySeq
    <3> QED
      BY <1>7, <2>1, <3>1, <3>2
  <2>2. CASE i # 1
    <3>1. i - 1 \in 1..k
      BY <1>2, <2>2
    <3> QED
      BY <1>6, <1>7, <2>2, <3>1
  <2> QED
    BY <2>1, <2>2
<1>9. Flattens(h, ss)
  <2>1. h = [i \in 1..k |-> h[i]]
    BY <1>7
  <2>2. h = [i \in 1..k |-> IF i = 1 THEN ss[i] ELSE h[i - 1] \o ss[i]]
    BY <1>8, <2>1
  <2> QED
    BY <1>1, <2>2 DEF Flattens
<1>10. PICK f : f = CHOOSE g : Flattens(g, ss)
  OBVIOUS
<1>11. Flattens(f, ss)
  BY <1>9, <1>10
<1>12. FlattenSeq(ss) = f[k]
  BY <1>1, <1>10 DEF FlattenSeq, Flattens
<1> DEFINE N == {n \in Nat : n + 1 <= k => f[n + 1] \in Seq(T)}
<1>13. 0 \in N
  BY <1>1, <1>2, <1>11 DEF Flattens
<1>14. ASSUME NEW n \in Nat, n \in N PROVE n + 1 \in N
  <2> SUFFICES ASSUME (n + 1) + 1 <= k PROVE f[(n + 1) + 1] \in Seq(T)
    OBVIOUS
  <2>1. PICK m : m = n + 1
    OBVIOUS
  <2>2. m \in 1..k /\ m + 1 \in 1..k /\ m + 1 # 1 /\ (m + 1) - 1 = m
    BY <1>2, <2>1
  <2>3. f[m] \in Seq(T) /\ ss[m + 1] \in Seq(T)
    BY <1>2, <1>14, <2>1, <2>2
  <2>4. f[m + 1] = f[m] \o ss[m + 1]
    BY <1>1, <1>11, <2>2 DEF Flattens
  <2> QED
    BY <2>1, <2>3, <2>4
<1>15. \A n \in Nat : n \in N => n + 1 \in N
  BY <1>14
<1>16. \A i \in 1..k : f[i] \in Seq(T)
  <2> HIDE DEF N
  <2>1. Nat \subseteq N
    BY <1>13, <1>15, SetInduction
  <2>2. \A i \in 1..k : i - 1 \in Nat /\ i - 1 \in N /\ (i - 1) + 1 = i
    BY <1>2, <2>1
  <2> QED
    BY <1>2, <2>2 DEF N
<1> QED
  BY <1>1, <1>11, <1>12, <1>16

\* Sequences of T, one after the other, are a sequence of T.
LEMMA FlattenType ==
    ASSUME NEW T, NEW ss \in Seq(Seq(T))
    PROVE  FlattenSeq(ss) \in Seq(T)
<1>1. CASE Len(ss) = 0
  <2>1. ss = <<>>
    BY <1>1
  <2> QED
    BY <1>1, <2>1 DEF FlattenSeq
<1>2. CASE Len(ss) # 0
  <2>1. Len(ss) \in 1..Len(ss)
    BY <1>2
  <2> QED
    BY <1>2, <2>1, FlattenIs
<1> QED
  BY <1>1, <1>2

\* The only member of a set.
LEMMA ValueOf == ASSUME NEW x PROVE Value({x}) = x
BY DEF Value

\* A member of an option.
LEMMA ValueIn == ASSUME NEW S, NEW T \in SUBSET S, T # {} PROVE Value(T) \in S
BY DEF Value

One(S, G) == \E x \in G : S = {x}

\* Step by step, f has one value at each number.
LEMMA FoldsTo ==
    ASSUME NEW G, NEW k \in Nat, NEW f, One(f[0], G),
           \A n \in Nat : n + 1 <= k /\ One(f[n], G) => One(f[n + 1], G)
    PROVE  Value(f[k]) \in G
<1> DEFINE N == {n \in Nat : n <= k => One(f[n], G)}
<1>1. 0 \in N
  OBVIOUS
<1>2. \A n \in Nat : n \in N => n + 1 \in N
  OBVIOUS
<1>3. k \in N
  <2> HIDE DEF N
  <2> QED
    BY <1>1, <1>2, SetInduction
<1>4. PICK x \in G : f[k] = {x}
  BY <1>3 DEF One
<1> QED
  BY <1>4, ValueOf

\* Step by step up to k, f has the values of a.
Along(f, a, k) ==
    f[0] = {a[0]} /\ \A n \in Nat : n + 1 <= k /\ f[n] = {a[n]} => f[n + 1] = {a[n + 1]}

\* And then it has the last one.
LEMMA FoldsAlong ==
    ASSUME NEW k \in Nat, NEW f, NEW a, Along(f, a, k)
    PROVE  Value(f[k]) = a[k]
<1> DEFINE N == {n \in Nat : n <= k => f[n] = {a[n]}}
<1>1. 0 \in N
  BY DEF Along
<1>2. \A n \in Nat : n \in N => n + 1 \in N
  BY DEF Along
<1>3. k \in N
  <2> HIDE DEF N
  <2> QED
    BY <1>1, <1>2, SetInduction
<1>4. f[k] = {a[k]}
  BY <1>3
<1> QED
  BY <1>4, ValueOf

\* Joining sequences is associative.
LEMMA Associate ==
    ASSUME NEW T, NEW s \in Seq(T), NEW t \in Seq(T), NEW u \in Seq(T)
    PROVE  (s \o t) \o u = s \o (t \o u)
BY ConcatAssociative

\* One sequence more joins its elements at the end.
LEMMA FlattenAppend ==
    ASSUME NEW T, NEW ss \in Seq(Seq(T)), NEW x \in Seq(T)
    PROVE  FlattenSeq(Append(ss, x)) = FlattenSeq(ss) \o x
<1>1. PICK n, t : n = Len(ss) /\ t = Append(ss, x)
  OBVIOUS
<1>2. n \in Nat /\ t \in Seq(Seq(T)) /\ Len(t) = n + 1 /\ t[n + 1] = x
      /\ \A i \in 1..n : t[i] = ss[i]
  BY <1>1
<1>3. PICK g : Flattens(g, t) /\ FlattenSeq(t) = g[n + 1] /\ \A i \in 1..(n + 1) : g[i] \in Seq(T)
  BY <1>2, FlattenIs
<1>4. \A i \in 1..(n + 1) : g[i] = IF i = 1 THEN t[i] ELSE g[i - 1] \o t[i]
  BY <1>2, <1>3 DEF Flattens
<1>5. CASE n = 0
  <2>1. ss = <<>> /\ Len(ss) = 0
    BY <1>1, <1>5, EmptySeq
  <2>2. FlattenSeq(ss) = <<>>
    BY <2>1 DEF FlattenSeq
  <2>3. g[1] = x
    BY <1>2, <1>4, <1>5
  <2>4. <<>> \o x = x
    BY ConcatEmptySeq
  <2> QED
    BY <1>1, <1>3, <1>5, <2>2, <2>3, <2>4
<1>6. CASE n # 0
  <2>1. PICK f : Flattens(f, ss) /\ FlattenSeq(ss) = f[n] /\ \A i \in 1..n : f[i] \in Seq(T)
    BY <1>1, <1>6, FlattenIs
  <2>2. \A i \in 1..n : f[i] = IF i = 1 THEN ss[i] ELSE f[i - 1] \o ss[i]
    BY <1>1, <2>1 DEF Flattens
  <2>0. n \in 1..n /\ n + 1 \in 1..(n + 1) /\ n + 1 # 1 /\ (n + 1) - 1 = n
    BY <1>2, <1>6
  <2> DEFINE N == {i \in Nat : i \in 1..n => f[i] = g[i]}
  <2>3. 0 \in N
    OBVIOUS
  <2>4. ASSUME NEW i \in Nat, i \in N PROVE i + 1 \in N
    <3> SUFFICES ASSUME i + 1 \in 1..n PROVE f[i + 1] = g[i + 1]
      OBVIOUS
    <3>1. i + 1 \in 1..(n + 1) /\ (i + 1) - 1 = i /\ t[i + 1] = ss[i + 1] /\ (i = 0 <=> i + 1 = 1)
      BY <1>2
    <3>2. CASE i = 0
      BY <1>4, <2>2, <3>1, <3>2
    <3>3. CASE i # 0
      <4>1. f[i] = g[i]
        BY <1>2, <2>4, <3>3
      <4>2. f[i + 1] = f[i] \o ss[i + 1]
        BY <2>2, <3>1, <3>3
      <4>3. g[i + 1] = g[i] \o t[i + 1]
        BY <1>4, <3>1, <3>3
      <4> QED
        BY <3>1, <4>1, <4>2, <4>3
    <3> QED
      BY <3>2, <3>3
  <2>5. \A i \in Nat : i \in N => i + 1 \in N
    BY <2>4
  <2>6. f[n] = g[n]
    <3>1. Nat \subseteq N
      <4> HIDE DEF N
      <4> QED
        BY <2>3, <2>5, SetInduction
    <3> QED
      BY <1>2, <2>0, <3>1
  <2>7. g[n + 1] = g[n] \o x
    BY <1>2, <1>4, <2>0
  <2> QED
    BY <1>1, <1>3, <2>1, <2>6, <2>7
<1> QED
  BY <1>5, <1>6

\* Nothing is put together to nothing.
LEMMA FlattenNone == FlattenSeq(<<>>) = <<>>
BY DEF FlattenSeq

\* One sequence more joins its elements at the front.
LEMMA FlattenCons ==
    ASSUME NEW T, NEW x \in Seq(T), NEW ss \in Seq(Seq(T))
    PROVE  FlattenSeq(<<x>> \o ss) = x \o FlattenSeq(ss)
<1> DEFINE P == {r \in Seq(Seq(T)) : FlattenSeq(<<x>> \o r) = x \o FlattenSeq(r)}
<1>0. <<x>> \in Seq(Seq(T)) /\ <<>> \in Seq(Seq(T))
  OBVIOUS
<1>1. <<>> \in P
  <2>1. <<x>> \o <<>> = Append(<<>>, x)
    OBVIOUS
  <2>2. FlattenSeq(Append(<<>>, x)) = <<>> \o x
    BY <1>0, FlattenAppend, FlattenNone
  <2>3. <<>> \o x = x \o <<>>
    BY ConcatEmptySeq
  <2> QED
    BY <1>0, <2>1, <2>2, <2>3, FlattenNone
<1>2. ASSUME NEW r \in Seq(Seq(T)), NEW y \in Seq(T), r \in P PROVE Append(r, y) \in P
  <2>1. <<x>> \o r \in Seq(Seq(T)) /\ Append(r, y) \in Seq(Seq(T))
    BY <1>0
  <2>2. <<x>> \o Append(r, y) = Append(<<x>> \o r, y)
    OBVIOUS
  <2>3. FlattenSeq(Append(<<x>> \o r, y)) = FlattenSeq(<<x>> \o r) \o y
    BY <2>1, FlattenAppend
  <2>4. FlattenSeq(Append(r, y)) = FlattenSeq(r) \o y /\ FlattenSeq(r) \in Seq(T)
    BY FlattenAppend, FlattenType
  <2>5. (x \o FlattenSeq(r)) \o y = x \o (FlattenSeq(r) \o y)
    BY <2>4, Associate
  <2> QED
    BY <1>2, <2>1, <2>2, <2>3, <2>4, <2>5
<1> HIDE DEF P
<1>3. Seq(Seq(T)) \subseteq P
  <2>1. PICK U : U = Seq(T)
    OBVIOUS
  <2>2. \A r \in Seq(U), y \in U : r \in P => Append(r, y) \in P
    BY <1>2, <2>1
  <2> QED
    BY <1>1, <2>1, <2>2, SequenceInduction
<1> QED
  BY <1>3 DEF P

\* What is kept is not longer than the sequence.
LEMMA AmongLen ==
    ASSUME NEW T, NEW s \in Seq(T), NEW S
    PROVE  Len(Among(s, S)) \in Nat /\ Len(Among(s, S)) <= Len(s)
<1> DEFINE P == {r \in Seq(T) : Len(Among(r, S)) \in Nat /\ Len(Among(r, S)) <= Len(r)}
<1>1. <<>> \in P
  BY AmongNone
<1>2. ASSUME NEW r \in Seq(T), NEW x \in T, r \in P PROVE Append(r, x) \in P
  <2>0. Among(r, S) \in Seq(T)
    BY AmongType
  <2>1. Among(r, S) \in Seq(T) /\ Append(r, x) \in Seq(T)
    BY <2>0
  <2>2. Among(Append(r, x), S) = IF x \in S THEN Append(Among(r, S), x) ELSE Among(r, S)
    BY AmongAppend
  <2>3. Len(Append(r, x)) = Len(r) + 1 /\ Len(Append(Among(r, S), x)) = Len(Among(r, S)) + 1
        /\ Len(r) \in Nat
    BY <2>1
  <2> QED
    BY <1>2, <2>1, <2>2, <2>3
<1> HIDE DEF P
<1>3. Seq(T) \subseteq P
  BY <1>1, <1>2, SequenceInduction
<1> QED
  BY <1>3 DEF P

\* What is left of a sequence after its first n elements.
Drop(s, n) == SubSeq(s, n + 1, Len(s))

\* The parts of a sequence that are left are sequences, element by element.
LEMMA DropIs ==
    ASSUME NEW T, NEW s \in Seq(T), NEW n \in Nat
    PROVE  /\ Drop(s, n) \in Seq(T)
           /\ n <= Len(s) => Len(Drop(s, n)) = Len(s) - n
           /\ n >= Len(s) => Drop(s, n) = <<>>
           /\ \A i \in 1..(Len(s) - n) : Drop(s, n)[i] = s[n + i]
           /\ n = 0 => Drop(s, n) = s
<1>1. PICK k : k = Len(s)
  OBVIOUS
<1>2. k \in Nat /\ \A i \in 1..k : s[i] \in T
  BY <1>1
<1>3. PICK d : d = Drop(s, n)
  OBVIOUS
<1>4. CASE n <= k
  <2>1. \A i \in (n + 1)..k : s[i] \in T
    BY <1>2
  <2>2. /\ d \in Seq(T)
        /\ Len(d) = IF n + 1 <= k THEN k - (n + 1) + 1 ELSE 0
        /\ \A i \in 1..(k - (n + 1) + 1) : d[i] = s[(n + 1) + i - 1]
    BY <1>1, <1>2, <1>3, <2>1, SubSeqProperties DEF Drop
  <2>3. Len(d) = k - n
    BY <1>2, <1>4, <2>2
  <2>4. \A i \in 1..(k - n) : i \in 1..(k - (n + 1) + 1) /\ (n + 1) + i - 1 = n + i
    BY <1>2
  <2>5. \A i \in 1..(k - n) : d[i] = s[n + i]
    BY <2>2, <2>4
  <2>6. n >= k => d = <<>>
    BY <1>2, <1>4, <2>2, <2>3
  <2>7. ASSUME n = 0 PROVE d = s
    <3>1. Len(d) = Len(s) /\ \A i \in 1..Len(s) : d[i] = s[i]
      BY <1>1, <1>2, <2>3, <2>5, <2>7
    <3> QED
      BY <2>2, <3>1
  <2> QED
    BY <1>1, <1>3, <2>2, <2>3, <2>5, <2>6, <2>7
<1>5. CASE n > k
  <2>1. \A i \in (n + 1)..k : s[i] \in T
    BY <1>2
  <2>2. d \in Seq(T) /\ Len(d) = 0
    BY <1>1, <1>2, <1>3, <1>5, <2>1, SubSeqProperties DEF Drop
  <2> QED
    BY <1>1, <1>2, <1>3, <1>5, <2>2
<1> QED
  BY <1>1, <1>2, <1>4, <1>5
\* Nothing is left after the last element.
LEMMA DropNone ==
    ASSUME NEW T, NEW s \in Seq(T), NEW n \in Nat, n >= Len(s)
    PROVE  Drop(s, n) = <<>>
BY DropIs

\* The elements of a sequence, with one more.
LEMMA AppendSet ==
    ASSUME NEW T, NEW s \in Seq(T), NEW x \in T
    PROVE  ToSet(Append(s, x)) = ToSet(s) \cup {x}
<1>1. PICK t : t = Append(s, x)
  OBVIOUS
<1>2. Len(s) \in Nat /\ DOMAIN t = 1..(Len(s) + 1) /\ t[Len(s) + 1] = x /\ DOMAIN s = 1..Len(s)
      /\ \A i \in 1..Len(s) : t[i] = s[i]
  BY <1>1
<1>3. ASSUME NEW y \in ToSet(t) PROVE y \in ToSet(s) \cup {x}
  <2>1. PICK i \in 1..(Len(s) + 1) : y = t[i]
    BY <1>2, <1>3 DEF ToSet
  <2>2. i = Len(s) + 1 \/ i \in 1..Len(s)
    BY <1>2
  <2> QED
    BY <1>2, <2>1, <2>2 DEF ToSet
<1>4. ASSUME NEW y \in ToSet(s) \cup {x} PROVE y \in ToSet(t)
  <2>1. CASE y = x
    BY <1>2, <2>1 DEF ToSet
  <2>2. CASE y \in ToSet(s)
    <3>1. PICK i \in 1..Len(s) : y = s[i]
      BY <1>2, <2>2 DEF ToSet
    <3>2. i \in 1..(Len(s) + 1)
      BY <1>2
    <3> QED
      BY <1>2, <3>1, <3>2 DEF ToSet
  <2> QED
    BY <2>1, <2>2
<1> QED
  BY <1>1, <1>3, <1>4

\* The elements of two sequences.
LEMMA ConcatSet ==
    ASSUME NEW T, NEW s \in Seq(T), NEW t \in Seq(T)
    PROVE  ToSet(s \o t) = ToSet(s) \cup ToSet(t)
<1> DEFINE P == {r \in Seq(T) : ToSet(s \o r) = ToSet(s) \cup ToSet(r)}
<1>1. <<>> \in P
  <2>1. s \o <<>> = s /\ ToSet(<<>>) = {} /\ <<>> \in Seq(T)
    BY ConcatEmptySeq DEF ToSet
  <2> QED
    BY <2>1
<1>2. ASSUME NEW r \in Seq(T), NEW x \in T, r \in P PROVE Append(r, x) \in P
  <2>0. PICK q : q = s \o r
    OBVIOUS
  <2>1. q \in Seq(T) /\ Append(r, x) \in Seq(T) /\ s \o Append(r, x) = Append(q, x)
    BY <2>0
  <2>2. ToSet(Append(q, x)) = ToSet(q) \cup {x}
    BY <2>1, AppendSet
  <2>3. ToSet(Append(r, x)) = ToSet(r) \cup {x}
    BY AppendSet
  <2> QED
    BY <1>2, <2>0, <2>1, <2>2, <2>3
<1> HIDE DEF P
<1>3. Seq(T) \subseteq P
  BY <1>1, <1>2, SequenceInduction
<1> QED
  BY <1>3 DEF P

\* The elements that are kept.
LEMMA AmongSet ==
    ASSUME NEW T, NEW s \in Seq(T), NEW S
    PROVE  ToSet(Among(s, S)) = ToSet(s) \cap S
<1> DEFINE P == {r \in Seq(T) : ToSet(Among(r, S)) = ToSet(r) \cap S}
<1>1. <<>> \in P
  <2>1. ToSet(<<>>) = {} /\ <<>> \in Seq(T)
    BY DEF ToSet
  <2> QED
    BY <2>1, AmongNone
<1>2. ASSUME NEW r \in Seq(T), NEW x \in T, r \in P PROVE Append(r, x) \in P
  <2>0. Among(r, S) \in Seq(T)
    BY AmongType
  <2>1. Among(r, S) \in Seq(T) /\ Append(r, x) \in Seq(T)
    BY <2>0
  <2>2. ToSet(Append(r, x)) = ToSet(r) \cup {x}
    BY AppendSet
  <2>3. ToSet(Append(Among(r, S), x)) = ToSet(Among(r, S)) \cup {x}
    BY <2>1, AppendSet
  <2>4. CASE x \in S
    <3>1. Among(Append(r, x), S) = Append(Among(r, S), x)
      BY <2>4, AmongAppend
    <3> QED
      BY <1>2, <2>1, <2>2, <2>3, <2>4, <3>1
  <2>5. CASE x \notin S
    <3>1. Among(Append(r, x), S) = Among(r, S)
      BY <2>5, AmongAppend
    <3> QED
      BY <1>2, <2>1, <2>2, <2>5, <3>1
  <2> QED
    BY <2>4, <2>5
<1> HIDE DEF P
<1>3. Seq(T) \subseteq P
  BY <1>1, <1>2, SequenceInduction
<1> QED
  BY <1>3 DEF P

\* The elements of several sequences put together.
LEMMA FlattenElements ==
    ASSUME NEW T, NEW ss \in Seq(Seq(T)), NEW x
    PROVE  x \in ToSet(FlattenSeq(ss)) <=> \E z \in ToSet(ss) : x \in ToSet(z)
<1> DEFINE P == {r \in Seq(Seq(T)) :
                    x \in ToSet(FlattenSeq(r)) <=> \E z \in ToSet(r) : x \in ToSet(z)}
<1>1. <<>> \in P
  <2>1. ToSet(<<>>) = {} /\ <<>> \in Seq(Seq(T))
    BY DEF ToSet
  <2> QED
    BY <2>1, FlattenNone
<1>2. ASSUME NEW r \in Seq(Seq(T)), NEW y \in Seq(T), r \in P PROVE Append(r, y) \in P
  <2>1. PICK U, f : U = Seq(T) /\ f = FlattenSeq(r)
    OBVIOUS
  <2>2. f \in Seq(T) /\ FlattenSeq(Append(r, y)) = f \o y
    BY <2>1, FlattenType, FlattenAppend
  <2>3. ToSet(f \o y) = ToSet(f) \cup ToSet(y)
    BY <2>2, ConcatSet
  <2>4. r \in Seq(U) /\ y \in U
    BY <2>1
  <2>5. Append(r, y) \in Seq(U)
    BY <2>4
  <2>6. ToSet(Append(r, y)) = ToSet(r) \cup {y}
    BY ONLY <2>4, AppendSet
  <2> QED
    BY <1>2, <2>1, <2>2, <2>3, <2>5, <2>6
<1> HIDE DEF P
<1>3. Seq(Seq(T)) \subseteq P
  <2>1. PICK U : U = Seq(T)
    OBVIOUS
  <2>2. \A r \in Seq(U), y \in U : r \in P => Append(r, y) \in P
    BY <1>2, <2>1
  <2> QED
    BY <1>1, <2>1, <2>2, SequenceInduction
<1>4. ss \in P
  BY <1>3
<1> QED
  BY <1>4 DEF P

\* The elements of a sequence, by their places.
LEMMA InSet ==
    ASSUME NEW T, NEW s \in Seq(T), NEW x
    PROVE  x \in ToSet(s) <=> \E i \in 1..Len(s) : x = s[i]
BY DEF ToSet

\* The elements of a sequence without its first one.
LEMMA TailSet ==
    ASSUME NEW T, NEW s \in Seq(T), s # <<>>
    PROVE  /\ Head(s) \in T /\ Tail(s) \in Seq(T) /\ s = <<Head(s)>> \o Tail(s)
           /\ ToSet(s) = {Head(s)} \cup ToSet(Tail(s))
<1>1. PICK h, t : h = Head(s) /\ t = Tail(s)
  OBVIOUS
<1>2. h \in T /\ t \in Seq(T)
  BY <1>1
<1>3. s = <<h>> \o t
  BY <1>1
<1>4. PICK u : u = <<h>>
  OBVIOUS
<1>5. u \in Seq(T) /\ ToSet(u) = {h} /\ s = u \o t
  BY <1>2, <1>3, <1>4 DEF ToSet
<1>6. ToSet(u \o t) = {h} \cup ToSet(t)
  BY <1>2, <1>5, ConcatSet
<1> QED
  BY <1>1, <1>2, <1>3, <1>5, <1>6

-----------------------------------------------------------------------------
(* The pages of events *)

\* An event as a page has it, a transaction of a block and of the pending block.
PageEvents == [block : -1..MaxBlocks, tx : 1..MaxTxs, at : Nat \ {0}, from : Contracts]
MinedTxs == [hash : 1..MaxTxs, events : Shapes]
PendingTxs == [hash : 1..MaxTxs, events : Shapes, ok : BOOLEAN]
Cursors == [block : Nat, idx : Nat, event : Nat]
Pages == [buffer : Seq(PageEvents), cursor : SUBSET Cursors]

ChainInv ==
    /\ chain \in Seq(Seq(MinedTxs)) /\ Len(chain) \in 1..(MaxBlocks + 1)
    /\ pending \in Seq(PendingTxs)

\* A page and its parts.
LEMMA PageIs ==
    ASSUME NEW b, NEW c
    PROVE  [buffer |-> b, cursor |-> c] \in Pages <=> b \in Seq(PageEvents) /\ c \in SUBSET Cursors
BY DEF Pages

\* Smaller is the smaller one.
LEMMA SmallerIs ==
    ASSUME NEW a \in Int, NEW b \in Int
    PROVE  Smaller(a, b) \in Int /\ Smaller(a, b) <= a /\ Smaller(a, b) <= b
           /\ (Smaller(a, b) = a \/ Smaller(a, b) = b)
BY DEF Smaller

\* The events of a transaction are a sequence.
LEMMA ShapeIs == ASSUME NEW s \in Shapes PROVE s \in Seq(ToSet(s)) /\ Len(s) \in Nat /\ DOMAIN s = 1..Len(s)
<1>1. s \in Seq(ToSet(s))
  BY IndexerAssumption
<1> QED
  BY <1>1

\* What is returned of a transaction are events of the contract.
LEMMA FilteredType ==
    ASSUME NEW tx, tx.hash \in 1..MaxTxs, tx.events \in Shapes,
           NEW block \in -1..MaxBlocks, NEW contract \in Contracts
    PROVE  /\ Filtered(tx, block, contract) \in Seq(PageEvents)
           /\ \A e \in ToSet(Filtered(tx, block, contract)) :
                 e.block = block /\ e.tx = tx.hash /\ e.from = contract
<1>1. PICK ev : ev = tx.events
  OBVIOUS
<1>2. ev \in Seq(ToSet(ev)) /\ Len(ev) \in Nat /\ DOMAIN ev = 1..Len(ev)
  BY <1>1, ShapeIs
<1>3. PICK all : all = [i \in DOMAIN ev |->
                    [block |-> block, tx |-> tx.hash, at |-> i, from |-> ev[i]]]
  OBVIOUS
<1> DEFINE A == [block : {block}, tx : {tx.hash}, at : Nat \ {0}, from : ToSet(ev)]
           S == {e \in ToSet(all) : e.from = contract}
<1>4. all \in Seq(A)
  <2>1. ASSUME NEW i \in 1..Len(ev) PROVE all[i] \in A
    <3>1. ev[i] \in ToSet(ev) /\ i \in Nat \ {0} /\ i \in DOMAIN ev
      BY <1>2
    <3> QED
      BY <1>3, <3>1
  <2>2. all = [i \in 1..Len(ev) |-> all[i]]
    BY <1>2, <1>3
  <2> HIDE DEF A
  <2> QED
    BY <1>2, <2>1, <2>2, IsASeq
<1>5. Filtered(tx, block, contract) = Among(all, S)
  BY <1>1, <1>3 DEF Filtered, Where
<1>6. A \cap S \subseteq PageEvents
  BY DEF PageEvents
<1>7. Among(all, S) \in Seq(A \cap S)
  <2> HIDE DEF A, S
  <2> QED
    BY <1>4, AmongType
<1>8. \A e \in A \cap S : e.block = block /\ e.tx = tx.hash /\ e.from = contract
  OBVIOUS
<1> HIDE DEF A, S
<1>9. ToSet(Among(all, S)) \subseteq A \cap S
  BY <1>7, SeqToSet
<1> QED
  BY <1>5, <1>6, <1>7, <1>8, <1>9, SeqMonotonic

\* A buffer with more events of a block.
Grown(b, buffer, block) ==
    \E more \in Seq(PageEvents) : b = buffer \o more /\ \A e \in ToSet(more) : e.block = block

\* A page that is filled from a transaction, and the event to go on from.
LEMMA FetchTxType ==
    ASSUME NEW tx, tx.hash \in 1..MaxTxs, tx.events \in Shapes,
           NEW block \in -1..MaxBlocks, NEW contract \in Contracts,
           NEW next \in Nat, NEW chunk \in Nat \ {0}, NEW buffer \in Seq(PageEvents)
    PROVE  LET fetched == FetchTxEvents(next, block, tx, contract, chunk, buffer)
           IN  /\ fetched.buffer \in Seq(PageEvents) /\ fetched.event \in SUBSET Nat
               /\ Grown(fetched.buffer, buffer, block)
<1>1. PICK m : m = Filtered(tx, block, contract)
  OBVIOUS
<1>2. m \in Seq(PageEvents) /\ Len(m) \in Nat
  <2>1. m \in Seq(PageEvents)
    BY <1>1, FilteredType
  <2> QED
    BY <2>1
<1>3. PICK room : room = IF Len(buffer) < chunk THEN chunk - Len(buffer) ELSE 0
  OBVIOUS
<1>4. room \in Nat
  BY <1>3
<1>5. PICK end : end = Smaller(next + room, Len(m))
  OBVIOUS
<1>6. end \in Int /\ end <= Len(m)
  BY <1>2, <1>4, <1>5, SmallerIs
<1>7. PICK taken : taken = SubSeq(m, next + 1, end)
  OBVIOUS
<1>8. taken \in Seq(PageEvents)
  <2>1. \A i \in (next + 1)..end : m[i] \in PageEvents
    BY <1>2, <1>6
  <2> QED
    BY <1>6, <1>7, <2>1, SubSeqProperties
<1>9. Len(taken) \in Nat /\ (taken # <<>> => Len(taken) # 0)
  BY <1>8
<1>10. PICK goOn : goOn = next + (IF taken = <<>> THEN room ELSE Len(taken) - 1)
                     + (IF room = 0 THEN 0 ELSE 1)
  OBVIOUS
<1>11. goOn \in Nat
  <2>1. PICK u, v : u = (IF taken = <<>> THEN room ELSE Len(taken) - 1)
                    /\ v = (IF room = 0 THEN 0 ELSE 1)
    OBVIOUS
  <2>2. u \in Nat /\ v \in Nat
    BY <1>4, <1>9, <2>1
  <2>3. goOn = next + u + v
    BY <1>10, <2>1
  <2> QED
    BY <2>2, <2>3
<1>12. buffer \o taken \in Seq(PageEvents)
  BY <1>8
<1>13. FetchTxEvents(next, block, tx, contract, chunk, buffer)
       = [buffer |-> buffer \o taken,
          event |-> IF Len(buffer \o taken) >= chunk /\ goOn < Len(tx.events) THEN {goOn} ELSE None]
  BY <1>1, <1>3, <1>5, <1>7, <1>10 DEF FetchTxEvents
<1>14. \A e \in ToSet(taken) : e.block = block
  <2>1. \A e \in ToSet(m) : e.block = block
    BY <1>1, FilteredType
  <2>2. \A i \in (next + 1)..end : m[i] \in ToSet(m)
    BY <1>2, <1>6 DEF ToSet
  <2>3. taken \in Seq(ToSet(m))
    BY <1>6, <1>7, <2>2, SubSeqProperties
  <2> QED
    BY <2>1, <2>3, SeqToSet
<1>15. PICK fetched : fetched = FetchTxEvents(next, block, tx, contract, chunk, buffer)
  OBVIOUS
<1>16. fetched.buffer = buffer \o taken /\ fetched.event \in SUBSET Nat
  BY <1>11, <1>13, <1>15 DEF None
<1>17. Grown(fetched.buffer, buffer, block)
  BY <1>8, <1>14, <1>16 DEF Grown
<1> QED
  BY <1>12, <1>15, <1>16, <1>17

\* The blocks of the chain.
LEMMA BlockType ==
    ASSUME ChainInv, NEW n \in Nat, n <= Latest
    PROVE  Block(n) \in Seq(MinedTxs) /\ Latest \in 0..MaxBlocks /\ n \in -1..MaxBlocks
<1>1. MaxBlocks \in Nat
  BY IndexerAssumption
<1>2. n + 1 \in 1..Len(chain) /\ Len(chain) \in Nat
  BY DEF ChainInv, Latest
<1>3. chain[n + 1] \in Seq(MinedTxs)
  BY <1>2 DEF ChainInv
<1> QED
  BY <1>1, <1>3 DEF Block, ChainInv, Latest

\* The positions of the transactions of a range.
Places == {p \in Nat \X Nat : p[1] <= Latest /\ p[2] < Len(Block(p[1]))}

\* The positions that are read are those of transactions.
LEMMA PositionsType ==
    ASSUME ChainInv, NEW cursor \in Cursors
    PROVE  Positions(cursor, Latest) \in Seq(Places)
<1>1. cursor.block \in Nat /\ cursor.idx \in Nat /\ Latest \in Nat
  BY IndexerAssumption DEF Cursors, ChainInv, Latest
<1> DEFINE Skip(n) == IF n = cursor.block THEN cursor.idx ELSE 0
           Row(n) == [j \in 1..(IF Skip(n) < Len(Block(n)) THEN Len(Block(n)) - Skip(n) ELSE 0)
                        |-> <<n, Skip(n) + j - 1>>]
<1>2. ASSUME NEW n \in Nat, n <= Latest PROVE Row(n) \in Seq(Places)
  <2>1. Block(n) \in Seq(MinedTxs)
    BY <1>2, BlockType
  <2>2. PICK len : len = Len(Block(n))
    OBVIOUS
  <2>3. len \in Nat /\ Skip(n) \in Nat
    BY <1>1, <2>1, <2>2
  <2>4. PICK skip, m : skip = Skip(n) /\ m = IF skip < len THEN len - skip ELSE 0
    OBVIOUS
  <2>5. skip \in Nat /\ m \in Nat /\ \A j \in 1..m : skip + j - 1 \in Nat /\ skip + j - 1 < len
    BY <2>3, <2>4
  <2>6. ASSUME NEW j \in 1..m PROVE <<n, skip + j - 1>> \in Places
    BY <1>2, <2>2, <2>5 DEF Places
  <2>7. [j \in 1..m |-> <<n, skip + j - 1>>] \in Seq(Places)
    BY <2>5, <2>6
  <2> QED
    BY <2>2, <2>4, <2>7
<1>3. PICK w : w = Latest - cursor.block + 1
  OBVIOUS
<1>4. PICK ss : ss = [k \in 1..w |-> Row(cursor.block + k - 1)]
  OBVIOUS
<1>5. Positions(cursor, Latest) = FlattenSeq(ss)
  BY <1>3, <1>4 DEF Positions
<1>6. ss \in Seq(Seq(Places))
  <2>1. ASSUME NEW k \in 1..w PROVE ss[k] \in Seq(Places)
    <3>1. cursor.block + k - 1 \in Nat /\ cursor.block + k - 1 <= Latest
      BY <1>1, <1>3
    <3>2. Row(cursor.block + k - 1) \in Seq(Places)
      BY <1>2, <3>1
    <3> HIDE DEF Row
    <3> QED
      BY <1>4, <3>2
  <2>2. CASE w <= 0
    <3>1. 1..w = 1..0
      BY <1>1, <1>3, <2>2
    <3>2. ss = [k \in 1..0 |-> ss[k]]
      BY <1>4, <3>1
    <3> QED
      BY <3>2, IsASeq
  <2>3. CASE w > 0
    <3>1. w \in Nat
      BY <1>1, <1>3, <2>3
    <3>2. ss = [k \in 1..w |-> ss[k]]
      BY <1>4
    <3> QED
      BY <2>1, <3>1, <3>2, IsASeq
  <2> QED
    BY <1>1, <1>3, <2>2, <2>3
<1> QED
  BY <1>5, <1>6, FlattenType

\* A transaction more is added to a page.
LEMMA FetchAtType ==
    ASSUME ChainInv, NEW contract \in Contracts, NEW chunk \in Nat \ {0}, NEW cursor \in Cursors,
           NEW acc \in Pages, NEW at \in Places
    PROVE  FetchAt(contract, chunk, cursor, acc, at) \in Pages
<1>1. at[1] \in Nat /\ at[2] \in Nat /\ at[1] <= Latest /\ at[2] < Len(Block(at[1]))
  BY DEF Places
<1>2. Block(at[1]) \in Seq(MinedTxs) /\ at[1] \in -1..MaxBlocks
  BY <1>1, BlockType
<1>3. PICK blk, tx : blk = Block(at[1]) /\ tx = blk[at[2] + 1]
  OBVIOUS
<1>4. tx \in MinedTxs
  BY <1>1, <1>2, <1>3
<1>5. tx.hash \in 1..MaxTxs /\ tx.events \in Shapes
  BY <1>4 DEF MinedTxs
<1>6. PICK next : next = IF at[1] = cursor.block /\ at[2] = cursor.idx THEN cursor.event ELSE 0
  OBVIOUS
<1>7. next \in Nat /\ acc.buffer \in Seq(PageEvents)
  BY <1>6 DEF Cursors, Pages
<1>8. PICK fetched : fetched = FetchTxEvents(next, at[1], tx, contract, chunk, acc.buffer)
  OBVIOUS
<1>9. fetched.buffer \in Seq(PageEvents) /\ fetched.event \in SUBSET Nat
  BY <1>2, <1>5, <1>7, <1>8, FetchTxType
<1>10. {Cursor(at[1], at[2], e) : e \in fetched.event} \in SUBSET Cursors
  BY <1>1, <1>9 DEF Cursor, Cursors
<1>11. PICK n : n = [buffer |-> fetched.buffer,
                     cursor |-> {Cursor(at[1], at[2], e) : e \in fetched.event}]
  OBVIOUS
<1>12. n \in Pages
  BY <1>9, <1>10, <1>11, PageIs
<1>13. FetchAt(contract, chunk, cursor, acc, at) = acc \/ FetchAt(contract, chunk, cursor, acc, at) = n
  BY <1>3, <1>6, <1>8, <1>11 DEF FetchAt
<1> QED
  BY <1>12, <1>13

\* a[n] is the page after n of the positions P.
Filled(a, contract, chunk, cursor, P) ==
    /\ a[0] = [buffer |-> <<>>, cursor |-> None]
    /\ \A n \in 0..Len(P) : a[n] \in Pages
    /\ \A n \in 1..Len(P) : a[n] = FetchAt(contract, chunk, cursor, a[n - 1], P[n])

\* A page of the mined blocks is filled position by position.
LEMMA FetchEventsSteps ==
    ASSUME ChainInv, NEW contract \in Contracts, NEW chunk \in Nat \ {0}, NEW cursor \in Cursors,
           NEW P, P = Positions(cursor, Latest)
    PROVE  \E a : /\ Filled(a, contract, chunk, cursor, P)
                 /\ FetchEventsAtBlocks(contract, chunk, cursor, Latest) = a[Len(P)]
<1> DEFINE Op(acc, at) == FetchAt(contract, chunk, cursor, acc, at)
           Folded(g, k, base, seq) ==
               g = [n \in 0..k |-> IF n = 0 THEN {base} ELSE {Op(acc, seq[n]) : acc \in g[n - 1]}]
<1>1. PICK seq, base : seq = P /\ base = [buffer |-> <<>>, cursor |-> None]
  OBVIOUS
<1>2. seq \in Seq(Places)
  BY <1>1, PositionsType
<1>3. base \in Pages
  <2>1. <<>> \in Seq(PageEvents) /\ None \in SUBSET Cursors
    BY DEF None
  <2> QED
    BY <1>1, <2>1, PageIs
<1>4. ASSUME NEW acc \in Pages, NEW at \in Places PROVE Op(acc, at) \in Pages
  BY FetchAtType
<1>5. PICK f : f = CHOOSE g : Folded(g, Len(seq), base, seq)
  OBVIOUS
<1>6. FetchEventsAtBlocks(contract, chunk, cursor, Latest) = Value(f[Len(seq)])
  BY <1>1, <1>5 DEF FetchEventsAtBlocks, Fold
<1> HIDE DEF Op
<1>7. PICK k, F : k = Len(seq) /\ F = [p \in (1..k) \X Pages |-> Op(p[2], seq[p[1]])]
  OBVIOUS
<1>8. k \in Nat /\ \A n \in 1..k : seq[n] \in Places
  BY <1>2, <1>7
<1>9. StepOf(F, k, Pages)
  <2>1. ASSUME NEW p \in (1..k) \X Pages PROVE Op(p[2], seq[p[1]]) \in Pages
    <3>1. p[1] \in 1..k /\ p[2] \in Pages
      OBVIOUS
    <3> QED
      BY <1>4, <1>8, <3>1
  <2> QED
    BY <1>7, <2>1 DEF StepOf
<1>10. PICK a : Iterated(a, F, base, k, Pages)
  BY <1>3, <1>8, <1>9, Iterates
<1>11. a \in [0..k -> Pages] /\ a[0] = base /\ \A n \in 1..k : a[n] = F[<<n, a[n - 1]>>]
  BY <1>10 DEF Iterated
<1>12. ASSUME NEW n \in 1..k PROVE a[n] = Op(a[n - 1], seq[n])
  <2>1. n - 1 \in 0..k
    BY <1>8
  <2>2. <<n, a[n - 1]>> \in (1..k) \X Pages
    BY <1>11, <2>1
  <2>3. F[<<n, a[n - 1]>>] = Op(a[n - 1], seq[n])
    BY <1>7, <2>2
  <2> QED
    BY <1>11, <2>3
<1>13. \E g : Folded(g, Len(seq), base, seq)
  <2>7. PICK h : h = [n \in 0..k |-> {a[n]}]
    OBVIOUS
  <2>8. ASSUME NEW n \in 0..k
        PROVE  h[n] = IF n = 0 THEN {base} ELSE {Op(acc, seq[n]) : acc \in h[n - 1]}
    <3>1. CASE n = 0
      BY <1>11, <2>7, <3>1
    <3>2. CASE n # 0
      <4>1. n \in 1..k /\ n - 1 \in 0..k
        BY <1>8, <3>2
      <4>2. h[n] = {Op(a[n - 1], seq[n])} /\ h[n - 1] = {a[n - 1]}
        BY <1>12, <2>7, <4>1
      <4> QED
        BY <3>2, <4>2
    <3> QED
      BY <3>1, <3>2
  <2>9. h = [n \in 0..k |-> h[n]]
    BY <2>7
  <2>10. h = [n \in 0..k |-> IF n = 0 THEN {base} ELSE {Op(acc, seq[n]) : acc \in h[n - 1]}]
    BY <2>8, <2>9
  <2> QED
    BY <1>7, <2>10
<1>14. Folded(f, Len(seq), base, seq)
  <2> HIDE DEF Folded
  <2> QED
    BY <1>5, <1>13
<1>15. Value(f[k]) = a[k]
  <2>1. f[0] = {a[0]}
    <3>1. f[0] = {base}
      BY <1>14, <1>7, <1>8
    <3> QED
      BY <1>11, <3>1
  <2>2. ASSUME NEW n \in Nat, n + 1 <= k, f[n] = {a[n]} PROVE f[n + 1] = {a[n + 1]}
    <3>1. n + 1 \in 1..k /\ n + 1 \in 0..k /\ n + 1 # 0 /\ (n + 1) - 1 = n
      BY <1>8, <2>2
    <3>2. f[n + 1] = {Op(acc, seq[n + 1]) : acc \in f[n]}
      BY <1>14, <1>7, <3>1
    <3>3. a[n + 1] = Op(a[n], seq[n + 1])
      BY <1>12, <3>1
    <3> QED
      BY <2>2, <3>2, <3>3
  <2>3. Along(f, a, k)
    BY <2>1, <2>2 DEF Along
  <2> QED
    BY <1>8, <2>3, FoldsAlong
<1>16. Filled(a, contract, chunk, cursor, P)
  BY <1>1, <1>7, <1>11, <1>12 DEF Filled, Op
<1> QED
  BY <1>1, <1>6, <1>15, <1>16, <1>7

\* A page of the mined blocks.
LEMMA FetchEventsType ==
    ASSUME ChainInv, NEW contract \in Contracts, NEW chunk \in Nat \ {0}, NEW cursor \in Cursors
    PROVE  FetchEventsAtBlocks(contract, chunk, cursor, Latest) \in Pages
<1>1. PICK P : P = Positions(cursor, Latest)
  OBVIOUS
<1>2. PICK a : /\ Filled(a, contract, chunk, cursor, P)
               /\ FetchEventsAtBlocks(contract, chunk, cursor, Latest) = a[Len(P)]
  BY <1>1, FetchEventsSteps
<1>3. Len(P) \in 0..Len(P)
  <2>1. P \in Seq(Places)
    BY <1>1, PositionsType
  <2> QED
    BY <2>1
<1> QED
  BY <1>2, <1>3 DEF Filled

\* The cursors that point into the pending block.
LEMMA PendingCursors ==
    ASSUME ChainInv
    PROVE  /\ Latest \in 0..MaxBlocks /\ Latest + 1 \in Nat
           /\ Cursor(Latest + 1, Len(pending), 0) \in Cursors
           /\ Cursor(Latest + 1, 0, 0) \in Cursors
<1>1. Len(pending) \in Nat /\ Latest \in 0..MaxBlocks
  BY IndexerAssumption DEF ChainInv, Latest
<1>2. Latest + 1 \in Nat
  BY <1>1, IndexerAssumption
<1> QED
  BY <1>1, <1>2 DEF Cursor, Cursors

\* The transactions of the pending block that succeeded.
LEMMA ReceiptsType == ASSUME ChainInv PROVE Receipts(pending) \in Seq(PendingTxs)
BY AmongType DEF ChainInv, Receipts, Where

\* A transaction of the pending block is added to a page.
LEMMA FetchPendingAtType ==
    ASSUME ChainInv, NEW contract \in Contracts, NEW chunk \in Nat \ {0}, NEW cursor \in Cursors,
           NEW acc \in Pages, NEW at \in 0..(Len(Receipts(pending)) - 1)
    PROVE  FetchPendingAt(contract, chunk, cursor, acc, at) \in Pages
<1>1. PICK blk, tx : blk = Receipts(pending) /\ tx = blk[at + 1]
  OBVIOUS
<1>2. blk \in Seq(PendingTxs) /\ at \in Nat /\ at + 1 \in 1..Len(blk)
  BY <1>1, ReceiptsType
<1>3. tx \in PendingTxs
  BY <1>1, <1>2
<1>4. tx.hash \in 1..MaxTxs /\ tx.events \in Shapes
  BY <1>3 DEF PendingTxs
<1>5. PICK next : next = IF at = cursor.idx THEN cursor.event ELSE 0
  OBVIOUS
<1>6. next \in Nat /\ acc.buffer \in Seq(PageEvents) /\ Latest + 1 \in Nat /\ NoBlock \in -1..MaxBlocks
  BY <1>5, IndexerAssumption DEF Cursors, Pages, ChainInv, Latest, NoBlock
<1>7. PICK fetched : fetched = FetchTxEvents(next, NoBlock, tx, contract, chunk, acc.buffer)
  OBVIOUS
<1>8. fetched.buffer \in Seq(PageEvents) /\ fetched.event \in SUBSET Nat
  BY <1>4, <1>6, <1>7, FetchTxType
<1>9. {Cursor(Latest + 1, at, e) : e \in fetched.event} \in SUBSET Cursors
  BY <1>2, <1>6, <1>8 DEF Cursor, Cursors
<1>10. PICK n : n = [buffer |-> fetched.buffer,
                     cursor |-> {Cursor(Latest + 1, at, e) : e \in fetched.event}]
  OBVIOUS
<1>11. n \in Pages
  BY <1>8, <1>9, <1>10, PageIs
<1>12. FetchPendingAt(contract, chunk, cursor, acc, at) = acc
       \/ FetchPendingAt(contract, chunk, cursor, acc, at) = n
  BY <1>1, <1>5, <1>7, <1>10 DEF FetchPendingAt
<1> QED
  BY <1>11, <1>12

\* The pages that go on after a buffer, with events of the pending block, and with a token for it.
GoOn(buffer) ==
    {p \in Pages : Grown(p.buffer, buffer, NoBlock) /\ \A q \in p.cursor : q.block = Latest + 1}

\* A transaction of the pending block is added to such a page.
LEMMA FetchPendingAtGoesOn ==
    ASSUME ChainInv, NEW contract \in Contracts, NEW chunk \in Nat \ {0}, NEW cursor \in Cursors,
           NEW buffer \in Seq(PageEvents), NEW acc \in GoOn(buffer),
           NEW at \in 0..(Len(Receipts(pending)) - 1)
    PROVE  FetchPendingAt(contract, chunk, cursor, acc, at) \in GoOn(buffer)
<1>1. PICK tx, page : tx = Receipts(pending)[at + 1] /\ page = FetchPendingAt(contract, chunk, cursor, acc, at)
  OBVIOUS
<1>2. acc \in Pages /\ page \in Pages
  BY <1>1, FetchPendingAtType DEF GoOn
<1>3. PICK m1 \in Seq(PageEvents) : acc.buffer = buffer \o m1 /\ \A e \in ToSet(m1) : e.block = NoBlock
  BY DEF GoOn, Grown
<1>4. tx.hash \in 1..MaxTxs /\ tx.events \in Shapes
  <2>1. PICK blk : blk = Receipts(pending)
    OBVIOUS
  <2>2. blk \in Seq(PendingTxs) /\ at + 1 \in 1..Len(blk)
    BY <2>1, ReceiptsType
  <2>3. tx \in PendingTxs
    BY <1>1, <2>1, <2>2
  <2> QED
    BY <2>3 DEF PendingTxs
<1>5. PICK next : next = IF at = cursor.idx THEN cursor.event ELSE 0
  OBVIOUS
<1>6. next \in Nat /\ acc.buffer \in Seq(PageEvents) /\ NoBlock \in -1..MaxBlocks
  BY <1>2, <1>5, IndexerAssumption DEF Cursors, Pages, NoBlock
<1>7. PICK fetched : fetched = FetchTxEvents(next, NoBlock, tx, contract, chunk, acc.buffer)
  OBVIOUS
<1>8. PICK m2 \in Seq(PageEvents) :
        fetched.buffer = acc.buffer \o m2 /\ \A e \in ToSet(m2) : e.block = NoBlock
  <2>1. Grown(fetched.buffer, acc.buffer, NoBlock)
    BY <1>4, <1>6, <1>7, FetchTxType
  <2> QED
    BY <2>1 DEF Grown
<1>9. CASE page = acc
  BY <1>9, <1>1
<1>10. CASE page.buffer = fetched.buffer /\ page.cursor = {Cursor(Latest + 1, at, e) : e \in fetched.event}
  <2>0. \A q \in page.cursor : q.block = Latest + 1
    BY <1>10 DEF Cursor
  <2>1. page.buffer = buffer \o (m1 \o m2)
    <3>1. page.buffer = (buffer \o m1) \o m2
      BY <1>3, <1>8, <1>10
    <3> QED
      BY <3>1, Associate
  <2>2. ToSet(m1 \o m2) = ToSet(m1) \cup ToSet(m2)
    BY ConcatSet
  <2>3. m1 \o m2 \in Seq(PageEvents)
    OBVIOUS
  <2>4. \A e \in ToSet(m1 \o m2) : e.block = NoBlock
    BY <1>3, <1>8, <2>2
  <2> QED
    BY <1>1, <1>2, <2>0, <2>1, <2>3, <2>4 DEF GoOn, Grown
<1> QED
  BY <1>1, <1>5, <1>7, <1>9, <1>10 DEF FetchPendingAt

\* A page that goes on with the pending block.
LEMMA FetchPendingIs ==
    ASSUME ChainInv, NEW contract \in Contracts, NEW chunk \in Nat \ {0}, NEW cursor \in Cursors,
           NEW buffer \in Seq(PageEvents)
    PROVE  FetchPendingEvents(contract, chunk, cursor, buffer) \in GoOn(buffer)
<1>00. PICK G : G = GoOn(buffer)
  OBVIOUS
<1> DEFINE Op(acc, at) == FetchPendingAt(contract, chunk, cursor, acc, at)
           Folded(g, k, base, seq) ==
               g = [n \in 0..k |-> IF n = 0 THEN {base} ELSE {Op(acc, seq[n]) : acc \in g[n - 1]}]
           all == Fold(Op, [buffer |-> buffer, cursor |-> None],
                       [k \in 1..(Len(Receipts(pending)) - Smaller(cursor.idx, Len(Receipts(pending))))
                            |-> Smaller(cursor.idx, Len(Receipts(pending))) + k - 1])
<1>0. SUFFICES all \in G
  <2>0. PICK page : page = FetchPendingEvents(contract, chunk, cursor, buffer)
    OBVIOUS
  <2>1. all \in G => all \in Pages /\ all \in GoOn(buffer)
    <3> HIDE DEF all
    <3> QED
      BY <1>00 DEF GoOn
  <2>2. all \in G => all.buffer \in Seq(PageEvents) /\ all.cursor \in SUBSET Cursors
    <3> HIDE DEF all
    <3> QED
      BY <2>1 DEF Pages
  <2>3. {Cursor(Latest + 1, Len(pending), 0)} \in SUBSET Cursors
    <3> HIDE DEF all
    <3> QED
      BY PendingCursors
  <2>4. page = [buffer |-> all.buffer, cursor |-> IF all.cursor # None THEN all.cursor
                                                  ELSE {Cursor(Latest + 1, Len(pending), 0)}]
    BY <2>0 DEF FetchPendingEvents
  <2> HIDE DEF all
  <2>5. all \in G => page \in Pages /\ page.buffer = all.buffer
    BY <2>2, <2>3, <2>4, PageIs
  <2>6. all \in G => \A q \in page.cursor : q.block = Latest + 1
    <3>1. all \in G => \A q \in all.cursor : q.block = Latest + 1
      BY <2>1 DEF GoOn
    <3>2. \A q \in {Cursor(Latest + 1, Len(pending), 0)} : q.block = Latest + 1
      BY DEF Cursor
    <3>3. page.cursor = all.cursor \/ page.cursor = {Cursor(Latest + 1, Len(pending), 0)}
      BY <2>4
    <3> QED
      BY <3>1, <3>2, <3>3
  <2> QED
    BY <2>0, <2>1, <2>5, <2>6 DEF GoOn
<1>20. PICK len, from : len = Len(Receipts(pending)) /\ from = Smaller(cursor.idx, len)
  OBVIOUS
<1>21. len \in Nat /\ from \in Nat /\ from <= len
  <2>1. len \in Nat
    <3>1. PICK r : r = Receipts(pending)
      OBVIOUS
    <3>2. r \in Seq(PendingTxs)
      BY <3>1, ReceiptsType
    <3> QED
      BY <1>20, <3>1, <3>2
  <2>2. cursor.idx \in Nat
    BY DEF Cursors
  <2> QED
    BY <1>20, <2>1, <2>2 DEF Smaller
<1>1. PICK seq, base : seq = [k \in 1..(len - from) |-> from + k - 1]
                       /\ base = [buffer |-> buffer, cursor |-> None]
  OBVIOUS
<1> DEFINE Indices == 0..(len - 1)
<1>2. seq \in Seq(Indices)
  BY <1>1, <1>21
<1>3. base \in G
  <2>1. base \in Pages /\ base.buffer = buffer
    BY <1>1, PageIs DEF None
  <2>2. buffer \o <<>> = buffer /\ <<>> \in Seq(PageEvents) /\ ToSet(<<>>) = {}
    BY ConcatEmptySeq DEF ToSet
  <2>3. base.cursor = {}
    BY <1>1 DEF None
  <2> QED
    BY <1>00, <2>1, <2>2, <2>3 DEF GoOn, Grown
<1>4. ASSUME NEW acc \in G, NEW at \in Indices PROVE Op(acc, at) \in G
  BY <1>00, <1>20, FetchPendingAtGoesOn
<1>5. PICK f : f = CHOOSE g : Folded(g, Len(seq), base, seq)
  OBVIOUS
<1>6. all = Value(f[Len(seq)])
  BY <1>1, <1>5, <1>20 DEF Fold
<1> HIDE DEF all, Indices
<1>7. \E g : Folded(g, Len(seq), base, seq)
  <2> HIDE DEF Op
  <2>1. PICK k, F : k = Len(seq) /\ F = [p \in (1..k) \X G |-> Op(p[2], seq[p[1]])]
    OBVIOUS
  <2>2. k \in Nat /\ \A n \in 1..k : seq[n] \in Indices
    BY <1>2, <2>1
  <2>3. StepOf(F, k, G)
    <3>1. ASSUME NEW p \in (1..k) \X G PROVE Op(p[2], seq[p[1]]) \in G
      <4>1. p[1] \in 1..k /\ p[2] \in G
        OBVIOUS
      <4> QED
        BY <1>4, <2>2, <4>1
    <3> QED
      BY <2>1, <3>1 DEF StepOf
  <2>4. PICK a : Iterated(a, F, base, k, G)
    BY <1>3, <2>2, <2>3, Iterates
  <2>5. a \in [0..k -> G] /\ a[0] = base /\ \A n \in 1..k : a[n] = F[<<n, a[n - 1]>>]
    BY <2>4 DEF Iterated
  <2>6. ASSUME NEW n \in 1..k PROVE a[n] = Op(a[n - 1], seq[n])
    <3>1. n - 1 \in 0..k
      BY <2>2
    <3>2. <<n, a[n - 1]>> \in (1..k) \X G
      BY <2>5, <3>1
    <3>3. F[<<n, a[n - 1]>>] = Op(a[n - 1], seq[n])
      BY <2>1, <3>2
    <3> QED
      BY <2>5, <3>3
  <2>7. PICK h : h = [n \in 0..k |-> {a[n]}]
    OBVIOUS
  <2>8. ASSUME NEW n \in 0..k
        PROVE  h[n] = IF n = 0 THEN {base} ELSE {Op(acc, seq[n]) : acc \in h[n - 1]}
    <3>1. CASE n = 0
      BY <2>5, <2>7, <3>1
    <3>2. CASE n # 0
      <4>1. n \in 1..k /\ n - 1 \in 0..k
        BY <2>2, <3>2
      <4>2. h[n] = {Op(a[n - 1], seq[n])} /\ h[n - 1] = {a[n - 1]}
        BY <2>6, <2>7, <4>1
      <4> QED
        BY <3>2, <4>2
    <3> QED
      BY <3>1, <3>2
  <2>9. h = [n \in 0..k |-> h[n]]
    BY <2>7
  <2>10. h = [n \in 0..k |-> IF n = 0 THEN {base} ELSE {Op(acc, seq[n]) : acc \in h[n - 1]}]
    BY <2>8, <2>9
  <2> QED
    BY <2>1, <2>10
<1>8. Folded(f, Len(seq), base, seq)
  <2> HIDE DEF Folded
  <2> QED
    BY <1>5, <1>7
<1>9. Value(f[Len(seq)]) \in G
  <2> HIDE DEF Op
  <2>1. Len(seq) \in Nat /\ One(f[0], G)
    <3>1. Len(seq) \in Nat
      BY <1>2
    <3>2. f[0] = {base}
      BY <1>8, <3>1
    <3> QED
      BY <1>3, <3>1, <3>2 DEF One
  <2>2. ASSUME NEW n \in Nat, n + 1 <= Len(seq), One(f[n], G)
        PROVE  One(f[n + 1], G)
    <3>0. PICK x \in G : f[n] = {x}
      BY <2>2 DEF One
    <3>1. n + 1 \in 1..Len(seq) /\ n + 1 \in 0..Len(seq) /\ n + 1 # 0 /\ (n + 1) - 1 = n
      BY <2>1, <2>2
    <3>2. f[n + 1] = {Op(acc, seq[n + 1]) : acc \in f[n]}
      BY <1>8, <3>1
    <3>3. f[n + 1] = {Op(x, seq[n + 1])}
      BY <3>0, <3>2
    <3>4. seq[n + 1] \in Indices
      BY <1>2, <3>1
    <3> QED
      BY <1>4, <3>3, <3>4 DEF One
  <2> QED
    BY <2>1, <2>2, FoldsTo
<1> QED
  BY <1>6, <1>9

\* And its type.
LEMMA FetchPendingType ==
    ASSUME ChainInv, NEW contract \in Contracts, NEW chunk \in Nat \ {0}, NEW cursor \in Cursors,
           NEW buffer \in Seq(PageEvents)
    PROVE  FetchPendingEvents(contract, chunk, cursor, buffer) \in Pages
BY FetchPendingIs DEF GoOn

\* A page of katana, with the pending block at its end or without.
LEMMA UpToPendingType ==
    ASSUME ChainInv, NEW from \in Nat, NEW contract \in Contracts, NEW chunk \in Nat \ {0},
           NEW token \in SUBSET Cursors, NEW hasPending
    PROVE  EventsUpToPending(from, contract, chunk, token, hasPending) \in Pages
<1>1. token # None => Value(token) \in Cursors
  BY ValueIn DEF None
<1>2. Cursor(from, 0, 0) \in Cursors /\ Cursor(Latest + 1, 0, 0) \in Cursors
  BY PendingCursors DEF Cursor, Cursors
<1>3. PICK first : first = FirstBlock(from, token)
  OBVIOUS
<1>4. first \in Cursors
  BY <1>1, <1>2, <1>3 DEF FirstBlock
<1>5. PICK mined : mined = FetchEventsAtBlocks(contract, chunk, first, Latest)
  OBVIOUS
<1>6. mined \in Pages
  BY <1>4, <1>5, FetchEventsType
<1>7. mined.buffer \in Seq(PageEvents)
  BY <1>6 DEF Pages
<1>8. PICK cursor : cursor = IF token = None THEN Cursor(Latest + 1, 0, 0) ELSE Value(token)
  OBVIOUS
<1>9. cursor \in Cursors
  BY <1>1, <1>2, <1>8
<1>10. FetchPendingEvents(contract, chunk, cursor, mined.buffer) \in Pages
  BY <1>7, <1>9, FetchPendingType
<1>11. [buffer |-> mined.buffer, cursor |-> {Cursor(Latest + 1, 0, 0)}] \in Pages
  BY <1>2, <1>7, PageIs
<1>12. PICK page : page = EventsUpToPending(from, contract, chunk, token, hasPending)
  OBVIOUS
<1>13. \/ page = mined
       \/ page = FetchPendingEvents(contract, chunk, cursor, mined.buffer)
       \/ page = [buffer |-> mined.buffer, cursor |-> {Cursor(Latest + 1, 0, 0)}]
  BY <1>3, <1>5, <1>8, <1>12 DEF EventsUpToPending, EventsUpTo
<1> QED
  BY <1>6, <1>10, <1>11, <1>12, <1>13

\* The events of a contract in the mined blocks.
LEMMA MinedEventsType ==
    ASSUME ChainInv, NEW from \in Nat, NEW contract \in Contracts
    PROVE  MinedEvents(from, Latest, contract) \in Seq(PageEvents)
<1>1. Latest \in Nat
  BY PendingCursors
<1> DEFINE Row(n) == FlattenSeq([j \in DOMAIN Block(n) |-> Filtered(Block(n)[j], n, contract)])
<1>2. ASSUME NEW n \in Nat, n <= Latest PROVE Row(n) \in Seq(PageEvents)
  <2>1. PICK blk : blk = Block(n)
    OBVIOUS
  <2>2. blk \in Seq(MinedTxs) /\ n \in -1..MaxBlocks
    BY <1>2, <2>1, BlockType
  <2>3. Len(blk) \in Nat /\ DOMAIN blk = 1..Len(blk)
    BY <2>2
  <2>4. ASSUME NEW j \in 1..Len(blk) PROVE Filtered(blk[j], n, contract) \in Seq(PageEvents)
    <3>1. blk[j] \in MinedTxs
      BY <2>2
    <3>2. blk[j].hash \in 1..MaxTxs /\ blk[j].events \in Shapes
      BY <3>1 DEF MinedTxs
    <3> QED
      BY <2>2, <3>2, FilteredType
  <2>5. PICK ss : ss = [j \in 1..Len(blk) |-> Filtered(blk[j], n, contract)]
    OBVIOUS
  <2>6. ss \in Seq(Seq(PageEvents))
    BY <2>3, <2>4, <2>5
  <2>7. Row(n) = FlattenSeq(ss)
    BY <2>1, <2>3, <2>5
  <2> QED
    BY <2>6, <2>7, FlattenType
<1>3. PICK w : w = Latest - from + 1
  OBVIOUS
<1>4. PICK ss : ss = [k \in 1..w |-> Row(from + k - 1)]
  OBVIOUS
<1>5. MinedEvents(from, Latest, contract) = FlattenSeq(ss)
  BY <1>3, <1>4 DEF MinedEvents
<1>6. ss \in Seq(Seq(PageEvents))
  <2> HIDE DEF Row
  <2>1. ASSUME NEW k \in 1..w PROVE ss[k] \in Seq(PageEvents)
    <3>1. from + k - 1 \in Nat /\ from + k - 1 <= Latest
      BY <1>1, <1>3
    <3> QED
      BY <1>2, <1>4, <3>1
  <2>2. CASE w <= 0
    <3>1. 1..w = 1..0
      BY <1>1, <1>3, <2>2
    <3>2. ss = [k \in 1..0 |-> ss[k]]
      BY <1>4, <3>1
    <3> QED
      BY <3>2, IsASeq
  <2>3. CASE w > 0
    <3>1. w \in Nat
      BY <1>1, <1>3, <2>3
    <3>2. ss = [k \in 1..w |-> ss[k]]
      BY <1>4
    <3> QED
      BY <2>1, <3>1, <3>2, IsASeq
  <2> QED
    BY <1>1, <1>3, <2>2, <2>3
<1> QED
  BY <1>5, <1>6, FlattenType

\* The tokens of the node.
TokensOf(c) == IF c.node = "other" THEN Nat ELSE Cursors

\* What any node answers to a request.
LEMMA EventsPageType ==
    ASSUME ChainInv, config \in Configs, NEW from \in Nat, NEW contract \in Contracts,
           NEW token \in SUBSET TokensOf(config)
    PROVE  /\ EventsPage(from, contract, token).buffer \in Seq(PageEvents)
           /\ EventsPage(from, contract, token).cursor \in SUBSET TokensOf(config)
<1>1. config.page \in Nat \ {0}
  BY IndexerAssumption
<1>2. CASE config.node = "other"
  <2>1. PICK all, done : all = MinedEvents(from, Latest, contract)
                         /\ done = (IF token = None THEN 0 ELSE Value(token))
    OBVIOUS
  <2>2. all \in Seq(PageEvents) /\ Len(all) \in Nat
    <3>1. all \in Seq(PageEvents)
      BY <2>1, MinedEventsType
    <3> QED
      BY <3>1
  <2>3. done \in Nat
    BY <1>2, <2>1, ValueIn DEF TokensOf, None
  <2>4. PICK end : end = Smaller(done + config.page, Len(all))
    OBVIOUS
  <2>5. end \in Nat /\ end <= Len(all)
    BY <1>1, <2>2, <2>3, <2>4 DEF Smaller
  <2>6. SubSeq(all, done + 1, end) \in Seq(PageEvents)
    <3>1. \A i \in (done + 1)..end : all[i] \in PageEvents
      BY <2>2, <2>3, <2>5
    <3> QED
      BY <2>3, <2>5, <3>1, SubSeqProperties
  <2>7. EventsPage(from, contract, token)
        = [buffer |-> SubSeq(all, done + 1, end), cursor |-> IF end < Len(all) THEN {end} ELSE None]
    BY <1>2, <2>1, <2>4 DEF EventsPage, OtherPage
  <2> QED
    BY <1>2, <2>5, <2>6, <2>7 DEF TokensOf, None
<1>3. CASE config.node # "other"
  <2>1. EventsPage(from, contract, token)
        = EventsUpToPending(from, contract, config.page, token, config.node = "interval")
    BY <1>3 DEF EventsPage
  <2>2. token \in SUBSET Cursors
    BY <1>3 DEF TokensOf
  <2>3. EventsPage(from, contract, token) \in Pages
    BY <1>1, <2>1, <2>2, UpToPendingType
  <2> QED
    BY <1>3, <2>3 DEF Pages, TokensOf
<1> QED
  BY <1>2, <1>3

-----------------------------------------------------------------------------
(* The transactions that are processed *)

Todos == [hash : 1..MaxTxs, block : Nat, events : Seq(Events)]

\* What is kept of a page.
LEMMA KeptType ==
    ASSUME NEW events \in Seq(Events), NEW cursor
    PROVE  Kept(events, cursor) \in Seq(Events)
<1>1. PICK upTo : upTo = Where(events, LAMBDA e : e.block <= range.to)
  OBVIOUS
<1>2. upTo \in Seq(Events)
  BY <1>1, AmongType DEF Where
<1>3. PICK at : at = {i \in DOMAIN upTo : upTo[i].tx \in cursor}
  OBVIOUS
<1>4. PICK seen : seen = CHOOSE i \in at : \A j \in at : i <= j
  OBVIOUS
<1>5. ASSUME at # {} PROVE seen \in 1..Len(upTo)
  <2>1. at \in SUBSET Nat
    BY <1>2, <1>3
  <2>2. \E i \in at : \A j \in at : i <= j
    BY <1>5, <2>1, LeastElement
  <2>3. seen \in at
    BY <1>4, <2>2
  <2> QED
    BY <1>2, <1>3, <2>3
<1>6. PICK rest : rest = SubSeq(upTo, seen, Len(upTo))
  OBVIOUS
<1>7. ASSUME at # {} PROVE rest \in Seq(Events)
  <2>1. seen \in Int /\ Len(upTo) \in Int /\ \A i \in seen..Len(upTo) : upTo[i] \in Events
    BY <1>2, <1>5, <1>7
  <2> QED
    BY <1>6, <2>1, SubSeqProperties
<1>8. ASSUME at # {} PROVE Where(rest, LAMBDA e : e.tx \notin cursor) \in Seq(Events)
  BY <1>7, <1>8, AmongType DEF Where
<1>9. PICK w : w = Where(rest, LAMBDA e : e.tx \notin cursor)
  OBVIOUS
<1>10. Kept(events, cursor) = CASE cursor = None -> upTo [] cursor # None /\ at = {} -> <<>> [] OTHER -> w
  BY <1>1, <1>3, <1>4, <1>6, <1>9 DEF Kept
<1>11. \/ Kept(events, cursor) = upTo
       \/ Kept(events, cursor) = <<>>
       \/ at # {} /\ Kept(events, cursor) = w
  BY <1>10
<1>12. <<>> \in Seq(Events)
  OBVIOUS
<1> QED
  BY <1>2, <1>8, <1>9, <1>11, <1>12

\* a[n] are the transactions of the first n events.
Mets(a, seq) ==
    /\ a[0] = <<>>
    /\ \A n \in 0..Len(seq) : a[n] \in Seq(1..MaxTxs)
    /\ \A n \in 1..Len(seq) :
          a[n] = IF Contains(a[n - 1], seq[n].tx) THEN a[n - 1] ELSE Append(a[n - 1], seq[n].tx)

\* The transactions are met event by event.
LEMMA MetSteps ==
    ASSUME NEW seq \in Seq(Events)
    PROVE  \E a : Mets(a, seq) /\ Met(seq) = a[Len(seq)]
<1> DEFINE Op(acc, e) == IF Contains(acc, e.tx) THEN acc ELSE Append(acc, e.tx)
           Folded(g, k, base, q) ==
               g = [n \in 0..k |-> IF n = 0 THEN {base} ELSE {Op(acc, q[n]) : acc \in g[n - 1]}]
           Hashes == Seq(1..MaxTxs)
<1>1. PICK base : base = <<>>
  OBVIOUS
<1>2. seq \in Seq(Events)
  OBVIOUS
<1>3. base \in Hashes
  BY <1>1
<1>4. ASSUME NEW acc \in Hashes, NEW e \in Events PROVE Op(acc, e) \in Hashes
  <2>1. PICK D : D = 1..MaxTxs
    OBVIOUS
  <2>2. e.tx \in D /\ acc \in Seq(D)
    BY <2>1 DEF Events
  <2>3. Op(acc, e) \in Seq(D)
    BY <2>2
  <2> QED
    BY <2>1, <2>3
<1>5. PICK f : f = CHOOSE g : Folded(g, Len(seq), base, seq)
  OBVIOUS
<1>6. Met(seq) = Value(f[Len(seq)])
  BY <1>1, <1>5 DEF Met, Fold
<1> HIDE DEF Op, Hashes
<1>7. PICK k, F : k = Len(seq) /\ F = [p \in (1..k) \X Hashes |-> Op(p[2], seq[p[1]])]
  OBVIOUS
<1>8. k \in Nat /\ \A n \in 1..k : seq[n] \in Events
  BY <1>2, <1>7
<1>9. StepOf(F, k, Hashes)
  <2>1. ASSUME NEW p \in (1..k) \X Hashes PROVE Op(p[2], seq[p[1]]) \in Hashes
    <3>1. p[1] \in 1..k /\ p[2] \in Hashes
      OBVIOUS
    <3> QED
      BY <1>4, <1>8, <3>1
  <2> QED
    BY <1>7, <2>1 DEF StepOf
<1>10. PICK a : Iterated(a, F, base, k, Hashes)
  BY <1>3, <1>8, <1>9, Iterates
<1>11. a \in [0..k -> Hashes] /\ a[0] = base /\ \A n \in 1..k : a[n] = F[<<n, a[n - 1]>>]
  BY <1>10 DEF Iterated
<1>12. ASSUME NEW n \in 1..k PROVE a[n] = Op(a[n - 1], seq[n])
  <2>1. n - 1 \in 0..k
    BY <1>8
  <2>2. <<n, a[n - 1]>> \in (1..k) \X Hashes
    BY <1>11, <2>1
  <2>3. F[<<n, a[n - 1]>>] = Op(a[n - 1], seq[n])
    BY <1>7, <2>2
  <2> QED
    BY <1>11, <2>3
<1>13. \E g : Folded(g, Len(seq), base, seq)
  <2>7. PICK h : h = [n \in 0..k |-> {a[n]}]
    OBVIOUS
  <2>8. ASSUME NEW n \in 0..k
        PROVE  h[n] = IF n = 0 THEN {base} ELSE {Op(acc, seq[n]) : acc \in h[n - 1]}
    <3>1. CASE n = 0
      BY <1>11, <2>7, <3>1
    <3>2. CASE n # 0
      <4>1. n \in 1..k /\ n - 1 \in 0..k
        BY <1>8, <3>2
      <4>2. h[n] = {Op(a[n - 1], seq[n])} /\ h[n - 1] = {a[n - 1]}
        BY <1>12, <2>7, <4>1
      <4> QED
        BY <3>2, <4>2
    <3> QED
      BY <3>1, <3>2
  <2>9. h = [n \in 0..k |-> h[n]]
    BY <2>7
  <2>10. h = [n \in 0..k |-> IF n = 0 THEN {base} ELSE {Op(acc, seq[n]) : acc \in h[n - 1]}]
    BY <2>8, <2>9
  <2> QED
    BY <1>7, <2>10
<1>14. Folded(f, Len(seq), base, seq)
  <2> HIDE DEF Folded
  <2> QED
    BY <1>5, <1>13
<1>15. Value(f[k]) = a[k]
  <2>1. f[0] = {a[0]}
    <3>1. f[0] = {base}
      BY <1>14, <1>7, <1>8
    <3> QED
      BY <1>11, <3>1
  <2>2. ASSUME NEW n \in Nat, n + 1 <= k, f[n] = {a[n]} PROVE f[n + 1] = {a[n + 1]}
    <3>1. n + 1 \in 1..k /\ n + 1 \in 0..k /\ n + 1 # 0 /\ (n + 1) - 1 = n
      BY <1>8, <2>2
    <3>2. f[n + 1] = {Op(acc, seq[n + 1]) : acc \in f[n]}
      BY <1>14, <1>7, <3>1
    <3>3. a[n + 1] = Op(a[n], seq[n + 1])
      BY <1>12, <3>1
    <3> QED
      BY <2>2, <3>2, <3>3
  <2>3. Along(f, a, k)
    BY <2>1, <2>2 DEF Along
  <2> QED
    BY <1>8, <2>3, FoldsAlong
<1>16. Mets(a, seq)
  BY <1>1, <1>7, <1>11, <1>12 DEF Mets, Op, Hashes
<1> QED
  BY <1>1, <1>6, <1>15, <1>16, <1>7

\* The transactions that are met.
LEMMA MetType ==
    ASSUME NEW seq \in Seq(Events)
    PROVE  Met(seq) \in Seq(1..MaxTxs)
<1>1. PICK a : Mets(a, seq) /\ Met(seq) = a[Len(seq)]
  BY MetSteps
<1>2. Len(seq) \in 0..Len(seq)
  OBVIOUS
<1> QED
  BY <1>1, <1>2 DEF Mets

\* The transactions of a block.
LEMMA GroupedType ==
    ASSUME NEW events \in Seq(Events), NEW block \in Nat
    PROVE  Grouped(events, block) \in Seq(Todos)
<1>1. PICK met, D : met = Met(events) /\ D = 1..MaxTxs
  OBVIOUS
<1>2. met \in Seq(D)
  BY <1>1, MetType
<1>3. Len(met) \in Nat /\ DOMAIN met = 1..Len(met)
  BY <1>2
<1> DEFINE Entry(j) == [hash |-> met[j], block |-> block, events |-> OfTx(events, met[j])]
<1>4. ASSUME NEW j \in 1..Len(met) PROVE Entry(j) \in Todos
  <2>1. met[j] \in D
    BY <1>2
  <2>2. OfTx(events, met[j]) \in Seq(Events)
    BY AmongType DEF OfTx, Where
  <2> QED
    BY <1>1, <2>1, <2>2 DEF Todos
<1>5. [j \in 1..Len(met) |-> Entry(j)] \in Seq(Todos)
  <2> HIDE DEF Entry
  <2> QED
    BY <1>3, <1>4
<1> QED
  BY <1>1, <1>3, <1>5 DEF Grouped

\* The transactions of a range.
LEMMA TxsOfType ==
    ASSUME range.to \in 0..MaxBlocks, NEW events \in Seq(Events)
    PROVE  TxsOf(events) \in Seq(Todos)
<1>1. PICK w : w = range.to + 1
  OBVIOUS
<1>2. w \in Nat
  BY <1>1, IndexerAssumption
<1> DEFINE Row(k) == Grouped(InBlock(events, k - 1), k - 1)
<1>3. ASSUME NEW k \in 1..w PROVE Row(k) \in Seq(Todos)
  <2>1. InBlock(events, k - 1) \in Seq(Events)
    BY AmongType DEF InBlock, Where
  <2>2. k - 1 \in Nat
    BY <1>2
  <2> QED
    BY <2>1, <2>2, GroupedType
<1>4. PICK ss : ss = [k \in 1..w |-> Row(k)]
  OBVIOUS
<1>5. TxsOf(events) = FlattenSeq(ss)
  BY <1>1, <1>4 DEF TxsOf
<1>6. ss \in Seq(Seq(Todos))
  <2> HIDE DEF Row
  <2> QED
    BY <1>2, <1>3, <1>4
<1> QED
  BY <1>5, <1>6, FlattenType

\* The transactions of the pending block that are left.
LEMMA AfterTxType ==
    ASSUME NEW block \in Seq(PendingTxs), NEW cursor
    PROVE  AfterTx(block, cursor) \in Seq(PendingTxs)
<1>1. PICK at : at = {i \in DOMAIN block : block[i].hash \in cursor}
  OBVIOUS
<1>2. at \in SUBSET (1..Len(block)) /\ Len(block) \in Nat
  BY <1>1
<1>3. ASSUME at # {} PROVE SubSeq(block, Value(at) + 1, Len(block)) \in Seq(PendingTxs)
  <2>1. Value(at) \in 1..Len(block)
    BY <1>2, <1>3, ValueIn
  <2>2. PICK v : v = Value(at)
    OBVIOUS
  <2>3. v + 1 \in Int /\ Len(block) \in Int /\ \A i \in (v + 1)..Len(block) : block[i] \in PendingTxs
    BY <1>2, <2>1, <2>2
  <2> QED
    BY <2>2, <2>3, SubSeqProperties
<1>4. \/ AfterTx(block, cursor) = block
      \/ AfterTx(block, cursor) = <<>>
      \/ at # {} /\ AfterTx(block, cursor) = SubSeq(block, Value(at) + 1, Len(block))
  BY <1>1 DEF AfterTx
<1>5. <<>> \in Seq(PendingTxs)
  OBVIOUS
<1> QED
  BY <1>3, <1>4, <1>5

\* The events of a transaction of the pending block.
LEMMA AllEventsType ==
    ASSUME NEW tx \in PendingTxs, NEW block \in 0..(MaxBlocks + 1)
    PROVE  AllEvents(tx, block) \in Todos
<1>1. PICK ev : ev = tx.events
  OBVIOUS
<1>2. ev \in Seq(ToSet(ev)) /\ Len(ev) \in Nat /\ DOMAIN ev = 1..Len(ev)
  BY <1>1, ShapeIs DEF PendingTxs
<1>3. PICK all : all = [i \in DOMAIN ev |->
                    [block |-> block, tx |-> tx.hash, at |-> i, from |-> ev[i]]]
  OBVIOUS
<1> DEFINE A == [block : {block}, tx : {tx.hash}, at : Nat \ {0}, from : ToSet(ev)]
           S == {e \in ToSet(all) : e.from \in Contracts}
<1>4. all \in Seq(A)
  <2>1. ASSUME NEW i \in 1..Len(ev) PROVE all[i] \in A
    <3>1. ev[i] \in ToSet(ev) /\ i \in Nat \ {0} /\ i \in DOMAIN ev
      BY <1>2
    <3> QED
      BY <1>3, <3>1
  <2>2. all = [i \in 1..Len(ev) |-> all[i]]
    BY <1>2, <1>3
  <2> HIDE DEF A
  <2> QED
    BY <1>2, <2>1, <2>2, IsASeq
<1>5. tx.hash \in 1..MaxTxs /\ block \in Nat
  BY IndexerAssumption DEF PendingTxs
<1>6. A \cap S \subseteq Events
  BY <1>5 DEF Events
<1>7. Among(all, S) \in Seq(A \cap S)
  <2> HIDE DEF A, S
  <2> QED
    BY <1>4, AmongType
<1>8. Among(all, S) \in Seq(Events)
  <2> HIDE DEF A, S
  <2> QED
    BY <1>6, <1>7, SeqMonotonic
<1>9. AllEvents(tx, block) = [hash |-> tx.hash, block |-> block, events |-> Among(all, S)]
  BY <1>1, <1>3 DEF AllEvents, Where
<1> HIDE DEF A, S
<1> QED
  BY <1>5, <1>8, <1>9 DEF Todos

-----------------------------------------------------------------------------
(* The types *)

Requests(c) == [contract : Contracts, token : SUBSET TokensOf(c)]
Ranges(c) ==
    [latest : 0..MaxBlocks, from : Nat, to : 0..MaxBlocks, requests : Seq(Requests(c)),
     next : Seq(Requests(c)), events : Seq(Events)]

\* The node and how torii was started.
NodeInv == ChainInv /\ config \in Configs /\ txs \in 0..MaxTxs /\ messages \in Nat

\* The database, what waits to be written or published, and what was published.
StoreInv ==
    /\ db \in Dbs /\ open \in Dbs
    /\ queue \in Seq(Events) /\ published \in Seq(Events) /\ cache \in Seq(Events)

\* The locals of the engine: there are requests as long as pages are fetched.
EngineInv ==
    /\ pc \in {"loop", "pages", "blocks", "pending", "process", "commit", "down"}
    /\ order \in Seq(Contracts) /\ order # <<>>
    /\ range \in Ranges(config) /\ (pc = "pages" => range.requests # <<>>)
    /\ todo \in Seq(Todos) /\ last \in SUBSET (1..MaxTxs)
    /\ touched \in [DOMAIN touched -> 1..MaxTxs]
    /\ tasks \in Seq(Events)

IndexerInv == NodeInv /\ StoreInv /\ EngineInv

\* A database and its parts.
LEMMA DbIs ==
    ASSUME NEW d
    PROVE  d \in Dbs <=>
               /\ d = [head |-> d.head, pendingTx |-> d.pendingTx, contractTx |-> d.contractTx,
                       events |-> d.events, balances |-> d.balances]
               /\ d.head \in SUBSET (0..MaxBlocks) /\ d.pendingTx \in SUBSET (1..MaxTxs)
               /\ d.contractTx \in [Contracts -> SUBSET (1..MaxTxs)]
               /\ d.events \in Seq(Events) /\ d.balances \in Seq(Events)
BY DEF Dbs

\* Events are written to a database.
LEMMA WriteType ==
    ASSUME NEW d \in Dbs, NEW events \in Seq(Events)
    PROVE  /\ Write(d, events) \in Dbs
           /\ Write(d, events).events = d.events \o events
           /\ Write(d, events).balances = d.balances
<1>1. PICK ev : ev = d.events \o events
  OBVIOUS
<1>2. d.events \in Seq(Events)
  BY DbIs
<1>3. ev \in Seq(Events)
  BY <1>1, <1>2
<1>4. Write(d, events) = [head |-> d.head, pendingTx |-> d.pendingTx, contractTx |-> d.contractTx,
                          events |-> ev, balances |-> d.balances]
  <2>1. PICK h, p, c, e, b : d = [head |-> h, pendingTx |-> p, contractTx |-> c, events |-> e,
                                  balances |-> b]
    BY DbIs
  <2>2. Write(d, events) = [d EXCEPT !.events = ev]
    BY <1>1 DEF Write
  <2>3. [d EXCEPT !.events = ev]
        = [head |-> h, pendingTx |-> p, contractTx |-> c, events |-> ev, balances |-> b]
    BY ONLY <2>1
  <2>4. d.head = h /\ d.pendingTx = p /\ d.contractTx = c /\ d.balances = b
    BY ONLY <2>1
  <2> QED
    BY <2>2, <2>3, <2>4
<1> QED
  BY <1>1, <1>3, <1>4, DbIs DEF Dbs

\* The cursors are written to a database.
LEMMA CursorsType ==
    ASSUME EngineInv, NEW d \in Dbs, NEW head \in 0..MaxBlocks, NEW tx \in SUBSET (1..MaxTxs)
    PROVE  /\ UpdateCursors(d, head, tx) \in Dbs
           /\ UpdateCursors(d, head, tx).events = d.events
           /\ UpdateCursors(d, head, tx).balances = d.balances
<1>1. PICK ct : ct = [c \in Contracts |->
                        IF c \notin DOMAIN touched THEN d.contractTx[c]
                        ELSE IF tx = None THEN None ELSE {touched[c]}]
  OBVIOUS
<1>2. ct \in [Contracts -> SUBSET (1..MaxTxs)]
  BY <1>1 DEF EngineInv, None, Dbs
<1>3. UpdateCursors(d, head, tx)
      = [head |-> {head}, pendingTx |-> tx, contractTx |-> ct, events |-> d.events,
         balances |-> d.balances]
  BY <1>1 DEF UpdateCursors
<1>4. {head} \in SUBSET (0..MaxBlocks) /\ d.events \in Seq(Events) /\ d.balances \in Seq(Events)
  BY DbIs
<1> QED
  BY <1>2, <1>3, <1>4, DbIs

\* The transfers among some events.
LEMMA MovesType == ASSUME NEW s \in Seq(Events) PROVE Moves(s) \in Seq(Events)
BY AmongType DEF Moves, Where

\* The events that are processed at once, and those that are left to the tasks.
AtOnce(events) == Where(events, LAMBDA e : e.from \notin Parallel)
Later(events) == Where(events, LAMBDA e : e.from \in Parallel)

\* Both are sequences of events.
LEMMA PartsType ==
    ASSUME NEW s \in Seq(Events)
    PROVE  AtOnce(s) \in Seq(Events) /\ Later(s) \in Seq(Events)
<1>1. AtOnce(s) \in Seq(Events)
  BY AmongType DEF AtOnce, Where
<1>2. Later(s) \in Seq(Events)
  BY AmongType DEF Later, Where
<1> QED
  BY <1>1, <1>2

\* A range and its parts.
LEMMA RangeIs ==
    ASSUME NEW c, NEW r
    PROVE  r \in Ranges(c) <=>
               /\ r = [latest |-> r.latest, from |-> r.from, to |-> r.to, requests |-> r.requests,
                       next |-> r.next, events |-> r.events]
               /\ r.latest \in 0..MaxBlocks /\ r.from \in Nat /\ r.to \in 0..MaxBlocks
               /\ r.requests \in Seq(Requests(c)) /\ r.next \in Seq(Requests(c))
               /\ r.events \in Seq(Events)
BY DEF Ranges

\* The contracts in the order of the engine's map.
LEMMA OrderType == ASSUME NEW s \in SetToSeqs(Contracts) PROVE s \in Seq(Contracts) /\ s # <<>>
<1>1. Cardinality(Contracts) \in Nat /\ Cardinality(Contracts) # 0
  BY IndexerAssumption, FS_CardinalityType, FS_EmptySet
<1>2. s \in [1..Cardinality(Contracts) -> Contracts]
  BY DEF SetToSeqs
<1> QED
  BY <1>1, <1>2

\* The initial states have their types.
LEMMA InitTypes == Init => IndexerInv
<1> SUFFICES ASSUME Init PROVE IndexerInv
  OBVIOUS
<1>1. NodeInv
  <2>1. <<>> \in Seq(MinedTxs) /\ <<>> \in Seq(PendingTxs)
    OBVIOUS
  <2>2. chain \in Seq(Seq(MinedTxs)) /\ Len(chain) = 1
    BY <2>1 DEF Init
  <2>3. pending \in Seq(PendingTxs) /\ config \in Configs /\ txs = 0 /\ messages = 0
    BY <2>1 DEF Init
  <2> QED
    BY <2>2, <2>3, IndexerAssumption DEF NodeInv, ChainInv
<1>2. StoreInv
  <2>1. NoDb \in Dbs
    BY DEF NoDb, Dbs, None
  <2>2. <<>> \in Seq(Events)
    OBVIOUS
  <2> QED
    BY <2>1, <2>2 DEF Init, StoreInv
<1>3. EngineInv
  <2>1. NoRange \in Ranges(config)
    <3>1. <<>> \in Seq(Requests(config)) /\ <<>> \in Seq(Events) /\ 0 \in 0..MaxBlocks
      BY IndexerAssumption
    <3> QED
      BY <3>1 DEF NoRange, Ranges
  <2>2. <<>> \in Seq(Todos) /\ <<>> \in Seq(Events) /\ None \in SUBSET (1..MaxTxs)
        /\ <<>> \in [DOMAIN <<>> -> 1..MaxTxs]
    BY DEF None
  <2>3. order \in Seq(Contracts) /\ order # <<>>
    BY OrderType DEF Init
  <2> QED
    BY <2>1, <2>2, <2>3 DEF Init, EngineInv
<1> QED
  BY <1>1, <1>2, <1>3 DEF IndexerInv

\* What is mined of the pending block.
LEMMA MinedType == ASSUME ChainInv PROVE Mined(pending) \in Seq(MinedTxs)
<1>1. PICK r : r = Receipts(pending)
  OBVIOUS
<1>2. r \in Seq(PendingTxs)
  BY <1>1, ReceiptsType
<1>3. Len(r) \in Nat /\ DOMAIN r = 1..Len(r)
  BY <1>2
<1> DEFINE M(i) == [hash |-> r[i].hash, events |-> r[i].events]
<1>4. ASSUME NEW i \in 1..Len(r) PROVE M(i) \in MinedTxs
  <2>1. r[i] \in PendingTxs
    BY <1>2
  <2> QED
    BY <2>1 DEF PendingTxs, MinedTxs
<1>5. [i \in 1..Len(r) |-> M(i)] \in Seq(MinedTxs)
  <2> HIDE DEF M
  <2> QED
    BY <1>3, <1>4
<1> QED
  BY <1>1, <1>3, <1>5 DEF Mined

\* The steps of the node.
LEMMA NodeTypes ==
    ASSUME IndexerInv, ExecuteTx \/ MineBlock
    PROVE  IndexerInv'
<1>1. UNCHANGED <<config, storeVars, writeVars, engineVars, messages>>
  BY DEF ExecuteTx, MineBlock, countVars
<1>2. StoreInv' /\ EngineInv'
  BY <1>1 DEF IndexerInv, StoreInv, EngineInv, storeVars, writeVars, engineVars, Ranges, Requests, TokensOf
<1>3. ChainInv /\ MaxBlocks \in Nat /\ MaxTxs \in Nat /\ txs \in 0..MaxTxs
  BY IndexerAssumption DEF IndexerInv, NodeInv
<1>4. CASE ExecuteTx
  <2>1. txs < MaxTxs /\ txs' = txs + 1
    BY <1>4 DEF ExecuteTx
  <2>2. txs' \in 0..MaxTxs /\ txs + 1 \in 1..MaxTxs
    BY <1>3, <2>1
  <2>3. PICK shape \in Shapes :
            \/ /\ Latest < MaxBlocks
               /\ chain' = Append(chain, <<[hash |-> txs + 1, events |-> shape]>>)
               /\ pending' = pending
            \/ /\ \E ok \in BOOLEAN :
                     pending' = Append(pending, [hash |-> txs + 1, events |-> shape, ok |-> ok])
               /\ chain' = chain
    BY <1>4 DEF ExecuteTx
  <2>4. <<[hash |-> txs + 1, events |-> shape]>> \in Seq(MinedTxs)
    BY <2>2 DEF MinedTxs
  <2>5. \A ok \in BOOLEAN : [hash |-> txs + 1, events |-> shape, ok |-> ok] \in PendingTxs
    BY <2>2 DEF PendingTxs
  <2>6. ChainInv'
    <3>1. CASE /\ Latest < MaxBlocks
               /\ chain' = Append(chain, <<[hash |-> txs + 1, events |-> shape]>>)
               /\ pending' = pending
      BY <1>3, <2>4, <3>1 DEF ChainInv, Latest
    <3>2. CASE /\ \E ok \in BOOLEAN :
                     pending' = Append(pending, [hash |-> txs + 1, events |-> shape, ok |-> ok])
               /\ chain' = chain
      BY <1>3, <2>5, <3>2 DEF ChainInv
    <3> QED
      BY <2>3, <3>1, <3>2
  <2> QED
    BY <1>1, <1>2, <2>2, <2>6 DEF IndexerInv, NodeInv
<1>5. CASE MineBlock
  <2>1. Latest < MaxBlocks /\ chain' = Append(chain, Mined(pending)) /\ pending' = <<>> /\ txs' = txs
    BY <1>5 DEF MineBlock, countVars
  <2>2. Mined(pending) \in Seq(MinedTxs)
    BY <1>3, MinedType
  <2>3. ChainInv'
    BY <1>3, <2>1, <2>2 DEF ChainInv, Latest
  <2> QED
    BY <1>1, <1>2, <1>3, <2>1, <2>3 DEF IndexerInv, NodeInv
<1> QED
  BY <1>4, <1>5

\* The block that the engine goes on from.
LEMMA FromType == ASSUME StoreInv PROVE From \in Nat
<1>1. db.head \in SUBSET (0..MaxBlocks)
  BY DbIs DEF StoreInv
<1>2. db.head # None => Value(db.head) \in 0..MaxBlocks
  BY <1>1, ValueIn DEF None
<1> QED
  BY <1>2, IndexerAssumption DEF From

\* The request of a contract and its parts.
LEMMA RequestIs ==
    ASSUME NEW c, NEW r
    PROVE  /\ r \in Requests(c) => r.contract \in Contracts /\ r.token \in SUBSET TokensOf(c)
           /\ \A k \in Contracts, t \in SUBSET TokensOf(c) : [contract |-> k, token |-> t] \in Requests(c)
BY DEF Requests

\* A step of the engine that only changes its locals.
LEMMA EngineFrame ==
    ASSUME IndexerInv, UNCHANGED <<chainVars, config, storeVars, writeVars, txs, messages>>, EngineInv'
    PROVE  IndexerInv'
<1>1. NodeInv' /\ StoreInv'
  BY DEF IndexerInv, NodeInv, StoreInv, ChainInv, chainVars, storeVars, writeVars
<1> QED
  BY <1>1 DEF IndexerInv

\* The engine asks for blocks.
LEMMA FetchTypes ==
    ASSUME IndexerInv, FetchRange \/ FetchLatest
    PROVE  IndexerInv'
<1>1. UNCHANGED <<chainVars, config, storeVars, writeVars, txs, messages>>
      /\ UNCHANGED <<order, todo, last, touched, tasks>>
  BY DEF FetchRange, FetchLatest, countVars
<1>2. NodeInv /\ StoreInv /\ EngineInv /\ ChainInv
  BY DEF IndexerInv, NodeInv
<1>3. Latest \in 0..MaxBlocks /\ From \in Nat /\ BlocksChunk \in Nat /\ MaxBlocks \in Nat
  BY <1>2, PendingCursors, FromType, IndexerAssumption
<1>4. <<>> \in Seq(Requests(config)) /\ <<>> \in Seq(Events)
  OBVIOUS
<1>5. range' \in Ranges(config) /\ pc' \in {"pages", "pending"} /\ (pc' = "pages" => range'.requests # <<>>)
  <2>1. CASE FetchRange
    <3>1. PICK to, from : to = Smaller(Latest, From + BlocksChunk) /\ from = IF From = 0 THEN 0 ELSE From + 1
      OBVIOUS
    <3>2. to \in 0..MaxBlocks /\ from \in Nat
      BY <1>3, <3>1 DEF Smaller
    <3>3. PICK reqs : reqs = [i \in DOMAIN order |-> [contract |-> order[i], token |-> None]]
      OBVIOUS
    <3>4. order \in Seq(Contracts) /\ order # <<>>
      BY <1>2 DEF EngineInv
    <3>5. Len(order) \in Nat /\ DOMAIN order = 1..Len(order) /\ Len(order) # 0
      BY <3>4
    <3>6. ASSUME NEW i \in 1..Len(order) PROVE [contract |-> order[i], token |-> None] \in Requests(config)
      <4>1. order[i] \in Contracts /\ None \in SUBSET TokensOf(config)
        BY <3>4 DEF None
      <4> QED
        BY <4>1, RequestIs
    <3>7. reqs \in Seq(Requests(config)) /\ Len(reqs) = Len(order)
      BY <3>3, <3>5, <3>6
    <3>8. reqs # <<>>
      BY <3>5, <3>7
    <3>9. range' = [latest |-> Latest, from |-> from, to |-> to, requests |-> reqs,
                    next |-> <<>>, events |-> <<>>] /\ pc' = "pages"
      BY <2>1, <3>1, <3>3 DEF FetchRange
    <3> QED
      BY <1>3, <1>4, <3>2, <3>7, <3>8, <3>9 DEF Ranges
  <2>2. CASE FetchLatest
    <3>1. range' = [latest |-> Latest, from |-> 0, to |-> Latest, requests |-> <<>>,
                    next |-> <<>>, events |-> <<>>] /\ pc' = "pending"
      BY <2>2 DEF FetchLatest, NoRange
    <3> QED
      BY <1>3, <1>4, <3>1 DEF Ranges
  <2> QED
    BY <2>1, <2>2
<1>6. EngineInv'
  BY <1>1, <1>2, <1>5 DEF EngineInv, Ranges, Requests, TokensOf
<1> QED
  BY <1>1, <1>6, EngineFrame

\* The pending block is fetched.
LEMMA FetchPendingTypes ==
    ASSUME IndexerInv, FetchPending
    PROVE  IndexerInv'
<1>1. UNCHANGED <<chainVars, config, storeVars, writeVars, txs, messages>>
      /\ UNCHANGED <<order, range, tasks>> /\ touched' = <<>> /\ pc' \in {"loop", "process"}
  BY DEF FetchPending, countVars
<1>2. NodeInv /\ StoreInv /\ EngineInv /\ ChainInv
  BY DEF IndexerInv, NodeInv
<1>3. <<>> \in [DOMAIN <<>> -> 1..MaxTxs]
  OBVIOUS
<1>4. PICK receipts : receipts = AfterTx(Receipts(pending), db.pendingTx)
  OBVIOUS
<1>5. receipts \in Seq(PendingTxs)
  BY <1>2, <1>4, ReceiptsType, AfterTxType
<1>6. Len(receipts) \in Nat /\ DOMAIN receipts = 1..Len(receipts)
  BY <1>5
<1>7. range.latest + 1 \in 0..(MaxBlocks + 1)
  <2>1. range.latest \in 0..MaxBlocks
    BY <1>2, RangeIs DEF EngineInv
  <2> QED
    BY <2>1, IndexerAssumption
<1>8. ASSUME NEW i \in 1..Len(receipts) PROVE AllEvents(receipts[i], range.latest + 1) \in Todos
  <2>1. receipts[i] \in PendingTxs
    BY <1>5
  <2> QED
    BY <1>7, <2>1, AllEventsType
<1>9. [i \in 1..Len(receipts) |-> AllEvents(receipts[i], range.latest + 1)] \in Seq(Todos)
  BY <1>6, <1>8
<1>10. db.pendingTx \in SUBSET (1..MaxTxs)
  BY <1>2, DbIs DEF StoreInv
<1>11. receipts # <<>> => {receipts[Len(receipts)].hash} \in SUBSET (1..MaxTxs)
  <2> SUFFICES ASSUME receipts # <<>> PROVE receipts[Len(receipts)].hash \in 1..MaxTxs
    OBVIOUS
  <2>1. receipts[Len(receipts)] \in PendingTxs
    BY <1>5
  <2> QED
    BY <2>1 DEF PendingTxs
<1>12. \/ todo' = todo /\ last' = last
       \/ /\ todo' = [i \in 1..Len(receipts) |-> AllEvents(receipts[i], range.latest + 1)]
          /\ last' = IF receipts = <<>> THEN db.pendingTx ELSE {receipts[Len(receipts)].hash}
  BY <1>4, <1>6 DEF FetchPending
<1>13. todo' \in Seq(Todos) /\ last' \in SUBSET (1..MaxTxs)
  BY <1>2, <1>9, <1>10, <1>11, <1>12 DEF EngineInv
<1>14. EngineInv'
  BY <1>1, <1>2, <1>3, <1>13 DEF EngineInv, Ranges, Requests, TokensOf
<1> QED
  BY <1>1, <1>14, EngineFrame

\* A page of contract c is fetched with token t: what is kept of it, and the next batch so far.
Fetched(c, t, page, kept, next) ==
    /\ c = Head(range.requests).contract /\ t = Head(range.requests).token
    /\ page = EventsPage(range.from, c, t)
    /\ kept = Kept(page.buffer, db.contractTx[c])
    /\ next = range.next \o IF Continues(page) THEN <<[contract |-> c, token |-> page.cursor]>> ELSE <<>>
    /\ range' = [latest |-> range.latest, from |-> range.from, to |-> range.to,
                 requests |-> IF Tail(range.requests) = <<>> THEN next ELSE Tail(range.requests),
                 next |-> IF Tail(range.requests) = <<>> THEN <<>> ELSE next,
                 events |-> range.events \o kept]
    /\ pc' = IF Tail(range.requests) = <<>> /\ next = <<>> THEN "blocks" ELSE "pages"

\* And the types of these.
FetchedTypes(c, t, page, kept, next) ==
    /\ c \in Contracts /\ t \in SUBSET TokensOf(config)
    /\ Head(range.requests) \in Requests(config) /\ Tail(range.requests) \in Seq(Requests(config))
    /\ page.buffer \in Seq(PageEvents) /\ page.buffer \in Seq(Events)
    /\ page.cursor \in SUBSET TokensOf(config)
    /\ kept \in Seq(Events) /\ next \in Seq(Requests(config))
    /\ range.events \o kept \in Seq(Events)

\* A page is fetched.
LEMMA FetchPageIs ==
    ASSUME IndexerInv, FetchPage
    PROVE  \E c, t, page, kept, next :
              Fetched(c, t, page, kept, next) /\ FetchedTypes(c, t, page, kept, next)
<1>1. UNCHANGED <<chainVars, config, storeVars, writeVars, txs, messages>>
      /\ UNCHANGED <<order, todo, last, touched, tasks>> /\ pc = "pages"
  BY DEF FetchPage, countVars
<1>2. NodeInv /\ StoreInv /\ EngineInv /\ ChainInv /\ config \in Configs
  BY DEF IndexerInv, NodeInv
<1>3. range \in Ranges(config) /\ range.requests # <<>>
  BY <1>1, <1>2 DEF EngineInv
<1>4. PICK lt, fr, to, reqs, nx, evs : range = [latest |-> lt, from |-> fr, to |-> to, requests |-> reqs,
                                               next |-> nx, events |-> evs]
  BY <1>3, RangeIs
<1>5. /\ range.latest = lt /\ range.from = fr /\ range.to = to /\ range.requests = reqs
      /\ range.next = nx /\ range.events = evs
  BY ONLY <1>4
<1>6. /\ lt \in 0..MaxBlocks /\ fr \in Nat /\ to \in 0..MaxBlocks
      /\ reqs \in Seq(Requests(config)) /\ nx \in Seq(Requests(config)) /\ evs \in Seq(Events)
      /\ reqs # <<>>
  BY <1>3, <1>5, RangeIs
<1>7. Head(reqs) \in Requests(config) /\ Tail(reqs) \in Seq(Requests(config))
  BY <1>6
<1>8. PICK c, t : c = Head(reqs).contract /\ t = Head(reqs).token
  OBVIOUS
<1>9. c \in Contracts /\ t \in SUBSET TokensOf(config)
  BY <1>7, <1>8, RequestIs
<1>10. PICK page : page = Page
  OBVIOUS
<1>11. page = EventsPage(fr, c, t)
  BY <1>5, <1>8, <1>10 DEF Page
<1>12. page.buffer \in Seq(PageEvents) /\ page.cursor \in SUBSET TokensOf(config)
  BY <1>2, <1>6, <1>9, <1>11, EventsPageType
<1>13. PICK next : next = nx \o IF Continues(page) THEN <<[contract |-> c, token |-> page.cursor]>> ELSE <<>>
  OBVIOUS
<1>14. next \in Seq(Requests(config))
  <2>1. [contract |-> c, token |-> page.cursor] \in Requests(config)
    BY <1>9, <1>12, RequestIs
  <2>2. PICK more : more = IF Continues(page) THEN <<[contract |-> c, token |-> page.cursor]>> ELSE <<>>
    OBVIOUS
  <2>3. more \in Seq(Requests(config))
    BY <2>1, <2>2
  <2> QED
    BY <1>6, <1>13, <2>2, <2>3
<1>15. PICK kept : kept = Kept(page.buffer, db.contractTx[c])
  OBVIOUS
<1>16. /\ \A i \in DOMAIN page.buffer : page.buffer[i].block # NoBlock
       /\ range' = [range EXCEPT !.events = evs \o kept,
                        !.requests = IF Tail(reqs) = <<>> THEN next ELSE Tail(reqs),
                        !.next = IF Tail(reqs) = <<>> THEN <<>> ELSE next]
       /\ pc' = IF Tail(reqs) = <<>> /\ next = <<>> THEN "blocks" ELSE "pages"
  BY <1>5, <1>8, <1>10, <1>13, <1>15 DEF FetchPage
<1>17. page.buffer \in Seq(Events)
  <2>1. PICK b : b = page.buffer
    OBVIOUS
  <2>2. b \in Seq(PageEvents) /\ \A i \in DOMAIN b : b[i].block # -1
    BY <1>12, <1>16, <2>1 DEF NoBlock
  <2>3. ASSUME NEW i \in 1..Len(b) PROVE b[i] \in Events
    <3>1. b[i] \in PageEvents /\ b[i].block # -1
      BY <2>2
    <3>2. b[i].block \in 0..(MaxBlocks + 1)
      BY <3>1, IndexerAssumption DEF PageEvents
    <3> QED
      BY <3>1, <3>2 DEF PageEvents, Events
  <2> QED
    BY <2>1, <2>2, <2>3
<1>18. kept \in Seq(Events)
  BY <1>15, <1>17, KeptType
<1>19. PICK evs2, reqs2, nx2 : /\ evs2 = evs \o kept
                               /\ reqs2 = (IF Tail(reqs) = <<>> THEN next ELSE Tail(reqs))
                               /\ nx2 = (IF Tail(reqs) = <<>> THEN <<>> ELSE next)
  OBVIOUS
<1>20. evs2 \in Seq(Events) /\ reqs2 \in Seq(Requests(config)) /\ nx2 \in Seq(Requests(config))
       /\ (pc' = "pages" => reqs2 # <<>>) /\ pc' \in {"pages", "blocks"}
  BY <1>6, <1>7, <1>14, <1>16, <1>18, <1>19
<1>21. range' = [range EXCEPT !.events = evs2, !.requests = reqs2, !.next = nx2]
  BY <1>16, <1>19
<1>22. range' = [latest |-> lt, from |-> fr, to |-> to, requests |-> reqs2, next |-> nx2, events |-> evs2]
  BY ONLY <1>4, <1>21
<1>23. Fetched(c, t, page, kept, next)
  BY <1>5, <1>8, <1>11, <1>13, <1>15, <1>16, <1>19, <1>22 DEF Fetched
<1>24. FetchedTypes(c, t, page, kept, next)
  BY <1>5, <1>7, <1>9, <1>12, <1>14, <1>17, <1>18, <1>19, <1>20 DEF FetchedTypes
<1> QED
  BY <1>23, <1>24

\* The types after a page was fetched.
LEMMA FetchPageTypes ==
    ASSUME IndexerInv, FetchPage
    PROVE  IndexerInv'
<1>1. UNCHANGED <<chainVars, config, storeVars, writeVars, txs, messages>>
      /\ UNCHANGED <<order, todo, last, touched, tasks>> /\ pc = "pages"
  BY DEF FetchPage, countVars
<1>2. EngineInv /\ range \in Ranges(config)
  BY DEF IndexerInv, EngineInv
<1>3. PICK c, t, page, kept, next : Fetched(c, t, page, kept, next) /\ FetchedTypes(c, t, page, kept, next)
  BY FetchPageIs
<1>4. PICK reqs, nx, evs : /\ reqs = (IF Tail(range.requests) = <<>> THEN next ELSE Tail(range.requests))
                           /\ nx = (IF Tail(range.requests) = <<>> THEN <<>> ELSE next)
                           /\ evs = range.events \o kept
  OBVIOUS
<1>5. reqs \in Seq(Requests(config)) /\ nx \in Seq(Requests(config)) /\ evs \in Seq(Events)
  BY <1>3, <1>4 DEF FetchedTypes
<1>6. pc' \in {"pages", "blocks"} /\ (pc' = "pages" => reqs # <<>>)
  BY <1>3, <1>4 DEF Fetched
<1>7. range' = [latest |-> range.latest, from |-> range.from, to |-> range.to, requests |-> reqs,
                next |-> nx, events |-> evs]
  BY <1>3, <1>4 DEF Fetched
<1>8. range.latest \in 0..MaxBlocks /\ range.from \in Nat /\ range.to \in 0..MaxBlocks
  BY <1>2, RangeIs
<1>9. range' \in Ranges(config) /\ range'.requests = reqs
  BY <1>5, <1>7, <1>8 DEF Ranges
<1>10. EngineInv'
  BY <1>1, <1>2, <1>6, <1>9 DEF EngineInv, Ranges, Requests, TokensOf
<1> QED
  BY <1>1, <1>10, EngineFrame

\* The blocks of the events are fetched, or a request fails.
LEMMA FetchBlocksTypes ==
    ASSUME IndexerInv, FetchBlocks \/ FetchFails
    PROVE  IndexerInv'
<1>1. UNCHANGED <<chainVars, config, storeVars, writeVars, txs, messages>>
      /\ UNCHANGED <<order, range, tasks>> /\ pc' \in {"loop", "process"}
  BY DEF FetchBlocks, FetchFails, countVars
<1>2. StoreInv /\ EngineInv
  BY DEF IndexerInv
<1>3. todo' \in Seq(Todos) /\ last' \in SUBSET (1..MaxTxs) /\ touched' \in [DOMAIN touched' -> 1..MaxTxs]
  <2>1. CASE FetchBlocks
    <3>1. range.to \in 0..MaxBlocks /\ range.events \in Seq(Events)
      BY <1>2, RangeIs DEF EngineInv
    <3>2. TxsOf(range.events) \in Seq(Todos)
      BY <3>1, TxsOfType
    <3>3. <<>> \in [DOMAIN <<>> -> 1..MaxTxs]
      OBVIOUS
    <3> QED
      BY <2>1, <3>2, <3>3 DEF FetchBlocks, None
  <2>2. CASE FetchFails
    BY <1>2, <2>2 DEF FetchFails, EngineInv
  <2> QED
    BY <2>1, <2>2
<1>4. EngineInv'
  BY <1>1, <1>2, <1>3 DEF EngineInv, Ranges, Requests, TokensOf
<1> QED
  BY <1>1, <1>4, EngineFrame

\* A step of the engine or the executor that leaves the node and the locals in their types.
LEMMA StoreFrame ==
    ASSUME IndexerInv, UNCHANGED <<chainVars, config, txs>>, messages' \in Nat, StoreInv', EngineInv'
    PROVE  IndexerInv'
BY DEF IndexerInv, NodeInv, ChainInv, chainVars

\* The events of the next transaction.
LEMMA HeadType ==
    ASSUME EngineInv, todo # <<>>
    PROVE  /\ Tail(todo) \in Seq(Todos) /\ Head(todo).hash \in 1..MaxTxs
           /\ Head(todo).events \in Seq(Events)
           /\ AtOnce(Head(todo).events) \in Seq(Events) /\ Later(Head(todo).events) \in Seq(Events)
<1>1. todo \in Seq(Todos)
  BY DEF EngineInv
<1>2. Head(todo) \in Todos /\ Tail(todo) \in Seq(Todos)
  BY <1>1
<1>3. Head(todo).hash \in 1..MaxTxs /\ Head(todo).events \in Seq(Events)
  BY <1>2 DEF Todos
<1> QED
  BY <1>2, <1>3, PartsType

\* A transaction is processed.
LEMMA ProcessTypes ==
    ASSUME IndexerInv, ProcessTransaction
    PROVE  IndexerInv'
<1>1. UNCHANGED <<chainVars, config, storeVars, txs, messages>>
      /\ UNCHANGED <<pc, order, range, last>> /\ todo # <<>> /\ todo' = Tail(todo)
  BY DEF ProcessTransaction, countVars
<1>2. StoreInv /\ EngineInv /\ messages \in Nat
  BY DEF IndexerInv, NodeInv
<1>3. PICK tx, now, later : tx = Head(todo) /\ now = AtOnce(tx.events) /\ later = Later(tx.events)
  OBVIOUS
<1>4. Tail(todo) \in Seq(Todos) /\ tx.hash \in 1..MaxTxs /\ now \in Seq(Events) /\ later \in Seq(Events)
  BY <1>1, <1>2, <1>3, HeadType
<1>5. /\ tasks' = tasks \o later /\ open' = Write(open, now)
      /\ queue' = queue \o now /\ cache' = cache \o Moves(now)
  BY <1>3 DEF ProcessTransaction, ProcessEvents, AtOnce, Later
<1>6. open' \in Dbs
  BY <1>2, <1>4, <1>5, WriteType DEF StoreInv
<1>7. Moves(now) \in Seq(Events)
  BY <1>4, MovesType
<1>8. StoreInv'
  BY <1>1, <1>2, <1>4, <1>5, <1>6, <1>7 DEF StoreInv, storeVars
<1>9. touched' \in [DOMAIN touched' -> 1..MaxTxs]
  <2>1. PICK E : E = Emitters(tx)
    OBVIOUS
  <2>2. touched' = [c \in E \cup DOMAIN touched |-> IF c \in E THEN tx.hash ELSE touched[c]]
    BY <1>3, <2>1 DEF ProcessTransaction
  <2>3. touched \in [DOMAIN touched -> 1..MaxTxs]
    BY <1>2 DEF EngineInv
  <2> QED
    BY <1>4, <2>2, <2>3
<1>10. EngineInv'
  BY <1>1, <1>2, <1>4, <1>5, <1>9 DEF EngineInv, Ranges, Requests, TokensOf
<1> QED
  BY <1>1, <1>2, <1>8, <1>10, StoreFrame

\* Processing fails.
LEMMA FailsTypes ==
    ASSUME IndexerInv, ProcessFails
    PROVE  IndexerInv'
<1>1. UNCHANGED <<chainVars, config, storeVars, txs, messages>>
      /\ UNCHANGED <<order, range, todo, last, touched>> /\ todo # <<>> /\ pc' = "loop"
      /\ open' = db /\ queue' = <<>>
  BY DEF ProcessFails
<1>2. StoreInv /\ EngineInv /\ messages \in Nat
  BY DEF IndexerInv, NodeInv
<1>3. PICK tx, now, later : tx = Head(todo) /\ now = AtOnce(tx.events) /\ later = Later(tx.events)
  OBVIOUS
<1>4. now \in Seq(Events) /\ later \in Seq(Events) /\ <<>> \in Seq(Events)
  BY <1>1, <1>2, <1>3, HeadType
<1>5. tasks' = tasks \o later /\ cache' = cache \o Moves(now)
  BY <1>3 DEF ProcessFails, AtOnce, Later
<1>6. Moves(now) \in Seq(Events)
  BY <1>4, MovesType
<1>7. StoreInv'
  BY <1>1, <1>2, <1>4, <1>5, <1>6 DEF StoreInv, storeVars
<1>8. EngineInv'
  BY <1>1, <1>2, <1>4, <1>5 DEF EngineInv, Ranges, Requests, TokensOf
<1> QED
  BY <1>1, <1>2, <1>7, <1>8, StoreFrame

\* The tasks are processed and the cursors written.
LEMMA TasksTypes ==
    ASSUME IndexerInv, ProcessTasks
    PROVE  IndexerInv'
<1>1. UNCHANGED <<chainVars, config, storeVars, txs, messages>>
      /\ UNCHANGED <<order, range, todo, last, touched>> /\ pc' = "commit" /\ tasks' = <<>>
  BY DEF ProcessTasks, countVars
<1>2. StoreInv /\ EngineInv /\ messages \in Nat
  BY DEF IndexerInv, NodeInv
<1>3. tasks \in Seq(Events) /\ range.to \in 0..MaxBlocks /\ last \in SUBSET (1..MaxTxs)
      /\ <<>> \in Seq(Events) /\ open \in Dbs
  BY <1>2, RangeIs DEF EngineInv, StoreInv
<1>4. Write(open, tasks) \in Dbs /\ Moves(tasks) \in Seq(Events)
  BY <1>3, WriteType, MovesType
<1>5. UpdateCursors(Write(open, tasks), range.to, last) \in Dbs
  BY <1>2, <1>3, <1>4, CursorsType
<1>6. /\ open' = UpdateCursors(Write(open, tasks), range.to, last)
      /\ queue' = queue \o tasks /\ cache' = cache \o Moves(tasks)
  BY DEF ProcessTasks
<1>7. StoreInv'
  BY <1>1, <1>2, <1>3, <1>4, <1>5, <1>6 DEF StoreInv, storeVars
<1>8. EngineInv'
  BY <1>1, <1>2, <1>3 DEF EngineInv, Ranges, Requests, TokensOf
<1> QED
  BY <1>1, <1>2, <1>7, <1>8, StoreFrame

\* The balances are written to a database.
LEMMA BalancesType ==
    ASSUME NEW d \in Dbs, NEW moves \in Seq(Events)
    PROVE  /\ [d EXCEPT !.balances = d.balances \o moves] \in Dbs
           /\ [d EXCEPT !.balances = d.balances \o moves].events = d.events
           /\ [d EXCEPT !.balances = d.balances \o moves].balances = d.balances \o moves
<1>1. PICK bs : bs = d.balances \o moves
  OBVIOUS
<1>2. d.balances \in Seq(Events)
  BY DbIs
<1>3. bs \in Seq(Events)
  BY <1>1, <1>2
<1>4. PICK h, p, c, e, b : d = [head |-> h, pendingTx |-> p, contractTx |-> c, events |-> e,
                                balances |-> b]
  BY DbIs
<1>5. [d EXCEPT !.balances = bs]
      = [head |-> h, pendingTx |-> p, contractTx |-> c, events |-> e, balances |-> bs]
  BY ONLY <1>4
<1>6. d.head = h /\ d.pendingTx = p /\ d.contractTx = c /\ d.events = e
  BY ONLY <1>4
<1>7. [d EXCEPT !.balances = bs] \in Dbs /\ [d EXCEPT !.balances = bs].events = d.events
      /\ [d EXCEPT !.balances = bs].balances = bs
  BY <1>3, <1>5, <1>6, DbIs
<1> QED
  BY <1>1, <1>7

\* The executor commits.
LEMMA CommitTypes ==
    ASSUME IndexerInv, Commit \/ RelayMessage
    PROVE  IndexerInv'
<1>1. StoreInv /\ EngineInv /\ messages \in Nat
  BY DEF IndexerInv, NodeInv
<1>2. PICK store : db' = store /\ open' = store /\ store \in Dbs
  <2>1. open \in Dbs /\ [open EXCEPT !.balances = open.balances \o cache] \in Dbs
    BY <1>1, BalancesType DEF StoreInv
  <2>2. CASE Commit
    BY <2>1, <2>2 DEF Commit, Execute
  <2>3. CASE RelayMessage
    BY <2>1, <2>3 DEF RelayMessage, Execute
  <2> QED
    BY <2>2, <2>3
<1>3. published' = published \o queue /\ queue' = <<>> /\ (cache' = cache \/ cache' = <<>>)
  BY DEF Commit, RelayMessage, Execute
<1>4. UNCHANGED <<chainVars, config, txs>> /\ UNCHANGED <<order, range, todo, last, touched, tasks>>
      /\ (pc' = pc \/ pc' = "loop")
  BY DEF Commit, RelayMessage, engineVars, countVars
<1>5. messages' \in Nat
  BY <1>1 DEF Commit, RelayMessage, countVars
<1>6. <<>> \in Seq(Events)
  OBVIOUS
<1>7. StoreInv'
  <2>1. published \o queue \in Seq(Events)
    BY <1>1 DEF StoreInv
  <2>2. cache' \in Seq(Events)
    BY <1>1, <1>3, <1>6 DEF StoreInv
  <2> QED
    BY <1>2, <1>3, <1>6, <2>1, <2>2 DEF StoreInv
<1>8. EngineInv'
  BY <1>1, <1>4 DEF EngineInv, Ranges, Requests, TokensOf
<1> QED
  BY <1>4, <1>5, <1>7, <1>8, StoreFrame

\* Torii ends, and is started again.
LEMMA LostTypes ==
    ASSUME IndexerInv, Crash \/ Panics \/ Restart
    PROVE  IndexerInv'
<1>1. StoreInv /\ EngineInv /\ messages \in Nat
  BY DEF IndexerInv, NodeInv
<1>2. <<>> \in Seq(Events)
  OBVIOUS
<1>3. CASE Crash \/ Panics
  <2>1. Lost
    BY <1>3 DEF Crash, Panics
  <2>2. StoreInv' /\ EngineInv'
    BY <1>1, <1>2, <2>1 DEF Lost, StoreInv, EngineInv, storeVars, Ranges, Requests, TokensOf
  <2> QED
    BY <1>1, <2>1, <2>2, StoreFrame DEF Lost
<1>4. CASE Restart
  <2>1. order' \in Seq(Contracts) /\ order' # <<>>
    BY <1>4, OrderType DEF Restart
  <2>2. EngineInv'
    BY <1>1, <1>4, <2>1 DEF Restart, EngineInv, Ranges, Requests, TokensOf
  <2> QED
    BY <1>4, <2>2, EngineFrame DEF Restart, countVars
<1> QED
  BY <1>3, <1>4

\* Every step keeps the types.
LEMMA NextTypes == IndexerInv /\ [Next]_vars => IndexerInv'
<1> SUFFICES ASSUME IndexerInv, [Next]_vars PROVE IndexerInv'
  OBVIOUS
<1>1. CASE UNCHANGED vars
  <2>1. UNCHANGED <<chainVars, config, storeVars, writeVars, txs, messages>> /\ UNCHANGED engineVars
    BY <1>1 DEF vars, countVars
  <2>2. EngineInv'
    BY <2>1 DEF IndexerInv, EngineInv, engineVars, Ranges, Requests, TokensOf
  <2> QED
    BY <2>1, <2>2, EngineFrame
<1>2. CASE Next
  <2>1. \/ ExecuteTx \/ MineBlock
        \/ FetchRange \/ FetchLatest
        \/ FetchPending
        \/ FetchPage
        \/ FetchBlocks \/ FetchFails
        \/ ProcessTransaction
        \/ ProcessFails
        \/ ProcessTasks
        \/ Commit \/ RelayMessage
        \/ Crash \/ Panics \/ Restart
    BY <1>2 DEF Next, Engine
  <2> QED
    BY <2>1, NodeTypes, FetchTypes, FetchPendingTypes, FetchPageTypes, FetchBlocksTypes, ProcessTypes,
       FailsTypes, TasksTypes, CommitTypes, LostTypes
<1> QED
  BY <1>1, <1>2

\* The inductive invariant IndexerInv of the types: of the chain, the requests, the pages, the
\* transactions to be processed and the database.
THEOREM IndexerInvHolds == Spec => []IndexerInv
<1> QED
  BY InitTypes, NextTypes, PTL DEF Spec

\* Whatever the node answers and whenever torii ends, the head is never beyond the chain's
\* bound and nothing that belongs to no block gets past fetch_events_recursive.
THEOREM TypeCorrect == Spec => []TypeInv
<1>1. IndexerInv => TypeInv
  <2> SUFFICES ASSUME IndexerInv PROVE TypeInv
    OBVIOUS
  <2>1. StoreInv /\ EngineInv
    BY DEF IndexerInv
  <2>2. range.events \in Seq(Events) /\ range.to \in 0..MaxBlocks /\ range.latest \in 0..MaxBlocks
    BY <2>1, RangeIs DEF EngineInv
  <2>3. {queue, published, cache, tasks, range.events} \subseteq Seq(Events)
    BY <2>1, <2>2 DEF StoreInv, EngineInv
  <2>4. ASSUME NEW i \in DOMAIN todo PROVE todo[i].events \in Seq(Events)
    <3>1. todo[i] \in Todos
      BY <2>1 DEF EngineInv
    <3> QED
      BY <3>1 DEF Todos
  <2> QED
    BY <2>1, <2>2, <2>3, <2>4 DEF TypeInv, StoreInv, EngineInv
<1> QED
  BY <1>1, IndexerInvHolds, PTL

-----------------------------------------------------------------------------
(* Subscribers and balances *)

\* The open transaction is what is committed and what waits to be published, in order.
PublishInv == published = db.events /\ open.events = db.events \o queue

\* The transfers of the open transaction are counted in the balances, or are in the cache.
BalanceInv ==
    /\ open.balances = db.balances
    /\ messages = 0 /\ ~config.transactions =>
          db.balances = Moves(db.events) /\ Moves(open.events) = db.balances \o cache

\* The transfers of some events and of others.
LEMMA MovesConcat ==
    ASSUME NEW s \in Seq(Events), NEW t \in Seq(Events)
    PROVE  Moves(s \o t) = Moves(s) \o Moves(t)
<1> DEFINE S == {e \in Events : e.from \in Tokens}
<1>1. ASSUME NEW r \in Seq(Events) PROVE Moves(r) = Among(r, S)
  <2>1. r \in Seq(ToSet(r)) /\ ToSet(r) \subseteq Events
    BY SeqToSet
  <2>2. PICK R : R = {e \in ToSet(r) : e.from \in Tokens}
    OBVIOUS
  <2>3. \A e \in ToSet(r) : e \in R <=> e \in S
    BY <2>1, <2>2
  <2>4. Moves(r) = Among(r, R)
    BY <2>2 DEF Moves, Where
  <2> HIDE DEF S
  <2>5. Among(r, R) = Among(r, S)
    BY <2>1, <2>3, AmongAgree
  <2> QED
    BY <2>4, <2>5
<1> HIDE DEF S
<1>2. s \o t \in Seq(Events)
  OBVIOUS
<1>3. Among(s \o t, S) = Among(s, S) \o Among(t, S)
  BY AmongConcat
<1> QED
  BY <1>1, <1>2, <1>3

\* Joining sequences of events is associative.
LEMMA EventsAssociate ==
    ASSUME NEW s \in Seq(Events), NEW t \in Seq(Events), NEW u \in Seq(Events)
    PROVE  (s \o t) \o u = s \o (t \o u)
<1>1. PICK T : T = Events
  OBVIOUS
<1>2. s \in Seq(T) /\ t \in Seq(T) /\ u \in Seq(T)
  BY <1>1
<1> QED
  BY ONLY <1>2, ConcatAssociative

\* Events are written to the open transaction, and wait to be published.
LEMMA Written ==
    ASSUME IndexerInv, PublishInv, BalanceInv, NEW events \in Seq(Events),
           open'.events = open.events \o events, open'.balances = open.balances,
           queue' = queue \o events, cache' = cache \o Moves(events),
           UNCHANGED <<config, db, published, messages>>
    PROVE  PublishInv' /\ BalanceInv'
<1>1. PICK de, oe, b, q, c : de = db.events /\ oe = open.events /\ b = db.balances /\ q = queue /\ c = cache
  OBVIOUS
<1>2. de \in Seq(Events) /\ oe \in Seq(Events) /\ b \in Seq(Events) /\ q \in Seq(Events) /\ c \in Seq(Events)
  BY <1>1, DbIs DEF IndexerInv, StoreInv
<1>3. oe = de \o q
  BY <1>1 DEF PublishInv
<1>4. (de \o q) \o events = de \o (q \o events)
  BY <1>2, EventsAssociate
<1>5. PublishInv'
  BY <1>1, <1>3, <1>4 DEF PublishInv
<1>6. Moves(events) \in Seq(Events) /\ Moves(oe \o events) = Moves(oe) \o Moves(events)
  BY <1>2, MovesType, MovesConcat
<1>7. PICK m : m = Moves(events)
  OBVIOUS
<1>8. (b \o c) \o m = b \o (c \o m)
  BY <1>2, <1>6, <1>7, EventsAssociate
<1>9. BalanceInv'
  <2>1. open'.balances = db'.balances
    BY DEF BalanceInv
  <2>2. ASSUME messages' = 0 /\ ~config'.transactions
        PROVE  db'.balances = Moves(db'.events) /\ Moves(open'.events) = db'.balances \o cache'
    <3>1. b = Moves(de) /\ Moves(oe) = b \o c
      BY <1>1, <2>2 DEF BalanceInv
    <3>2. Moves(open'.events) = Moves(oe) \o m
      BY <1>1, <1>6, <1>7
    <3>3. Moves(open'.events) = b \o (c \o m)
      BY <1>8, <3>1, <3>2
    <3> QED
      BY <1>1, <1>7, <3>1, <3>3
  <2> QED
    BY <2>1, <2>2 DEF BalanceInv
<1> QED
  BY <1>5, <1>9

\* What is not committed is given up.
LEMMA GivenUp ==
    ASSUME IndexerInv, PublishInv, BalanceInv, open' = db, queue' = <<>>,
           cache' = <<>> \/ config.transactions,
           UNCHANGED <<config, db, published, messages>>
    PROVE  PublishInv' /\ BalanceInv'
<1>1. PICK de, b : de = db.events /\ b = db.balances
  OBVIOUS
<1>2. de \in Seq(Events) /\ b \in Seq(Events)
  BY <1>1, DbIs DEF IndexerInv, StoreInv
<1>3. de \o <<>> = de /\ b \o <<>> = b
  BY <1>2, ConcatEmptySeq
<1>4. PublishInv'
  BY <1>1, <1>3 DEF PublishInv
<1>5. BalanceInv'
  BY <1>1, <1>3 DEF BalanceInv
<1> QED
  BY <1>4, <1>5

\* Neither the node nor the fetch touches the database.
LEMMA Unwritten ==
    ASSUME PublishInv, BalanceInv, UNCHANGED <<config, storeVars, writeVars, messages>>
    PROVE  PublishInv' /\ BalanceInv'
BY DEF PublishInv, BalanceInv, storeVars, writeVars

\* The engine or the relay commits.
LEMMA Committed ==
    ASSUME IndexerInv, PublishInv, BalanceInv, Commit \/ RelayMessage
    PROVE  PublishInv' /\ BalanceInv'
<1>1. PICK oe, b, c : oe = open.events /\ b = open.balances /\ c = cache
  OBVIOUS
<1>2. oe \in Seq(Events) /\ b \in Seq(Events) /\ c \in Seq(Events) /\ open \in Dbs /\ messages \in Nat
  BY <1>1, DbIs DEF IndexerInv, StoreInv, NodeInv
<1>3. oe \o <<>> = oe /\ (b \o c) \o <<>> = b \o c
  <2>1. b \o c \in Seq(Events)
    BY <1>2
  <2> QED
    BY <1>2, <2>1, ConcatEmptySeq
<1>4. published' = oe /\ queue' = <<>>
  BY <1>1 DEF PublishInv, Commit, RelayMessage, Execute
<1>5. CASE Commit
  <2>1. PICK store : store = [open EXCEPT !.balances = open.balances \o cache]
    OBVIOUS
  <2>2. store.events = oe /\ store.balances = b \o c
    BY <1>1, <1>2, <2>1, BalancesType
  <2>3. db' = store /\ open' = store /\ cache' = <<>> /\ UNCHANGED <<config, messages>>
    BY <1>5, <2>1 DEF Commit, Execute, countVars
  <2>4. PublishInv'
    BY <1>3, <1>4, <2>2, <2>3 DEF PublishInv
  <2>5. messages = 0 /\ ~config.transactions => Moves(oe) = b \o c
    BY <1>1 DEF BalanceInv
  <2>6. BalanceInv'
    BY <1>3, <2>2, <2>3, <2>5 DEF BalanceInv
  <2> QED
    BY <2>4, <2>6
<1>6. CASE RelayMessage
  <2>1. db' = open /\ open' = open /\ messages' = messages + 1
    BY <1>6 DEF RelayMessage, Execute
  <2>2. messages' # 0
    BY <1>2, <2>1
  <2> QED
    BY <1>1, <1>3, <1>4, <2>1, <2>2 DEF PublishInv, BalanceInv
<1> QED
  BY <1>5, <1>6

\* What waits to be published, and what the cache holds, keep up with the open transaction.
LEMMA NextPublished ==
    IndexerInv /\ PublishInv /\ BalanceInv /\ [Next]_vars => PublishInv' /\ BalanceInv'
<1> SUFFICES ASSUME IndexerInv, PublishInv, BalanceInv, [Next]_vars PROVE PublishInv' /\ BalanceInv'
  OBVIOUS
<1>1. StoreInv /\ EngineInv
  BY DEF IndexerInv
<1>2. CASE UNCHANGED vars
  BY <1>2, Unwritten DEF vars, countVars
<1>3. CASE \/ ExecuteTx \/ MineBlock \/ FetchRange \/ FetchLatest \/ FetchPending \/ FetchPage
           \/ FetchBlocks \/ FetchFails \/ Restart
  <2>1. UNCHANGED <<config, storeVars, writeVars, messages>>
    BY <1>3 DEF ExecuteTx, MineBlock, FetchRange, FetchLatest, FetchPending, FetchPage, FetchBlocks,
                FetchFails, Restart, countVars
  <2> QED
    BY <2>1, Unwritten
<1>4. CASE ProcessTransaction
  <2>1. PICK now : now = AtOnce(Head(todo).events)
    OBVIOUS
  <2>2. now \in Seq(Events) /\ open \in Dbs
    BY <1>1, <1>4, <2>1, HeadType DEF ProcessTransaction, StoreInv
  <2>3. /\ open' = Write(open, now) /\ queue' = queue \o now /\ cache' = cache \o Moves(now)
        /\ UNCHANGED <<config, db, published, messages>>
    BY <1>4, <2>1 DEF ProcessTransaction, ProcessEvents, AtOnce, storeVars, countVars
  <2>4. open'.events = open.events \o now /\ open'.balances = open.balances
    BY <2>2, <2>3, WriteType
  <2> QED
    BY <2>2, <2>3, <2>4, Written
<1>5. CASE ProcessTasks
  <2>1. tasks \in Seq(Events) /\ open \in Dbs /\ range.to \in 0..MaxBlocks /\ last \in SUBSET (1..MaxTxs)
    BY <1>1, RangeIs DEF EngineInv, StoreInv
  <2>2. PICK store : store = Write(open, tasks)
    OBVIOUS
  <2>3. store \in Dbs /\ store.events = open.events \o tasks /\ store.balances = open.balances
    BY <2>1, <2>2, WriteType
  <2>4. /\ open' = UpdateCursors(store, range.to, last)
        /\ queue' = queue \o tasks /\ cache' = cache \o Moves(tasks)
        /\ UNCHANGED <<config, db, published, messages>>
    BY <1>5, <2>2 DEF ProcessTasks, storeVars, countVars
  <2>5. open'.events = open.events \o tasks /\ open'.balances = open.balances
    BY <1>1, <2>1, <2>3, <2>4, CursorsType
  <2> QED
    BY <2>1, <2>4, <2>5, Written
<1>6. CASE ProcessFails \/ Crash \/ Panics
  <2>1. /\ open' = db /\ queue' = <<>> /\ (cache' = <<>> \/ config.transactions)
        /\ UNCHANGED <<config, db, published, messages>>
    BY <1>6 DEF ProcessFails, Crash, Panics, Lost, storeVars
  <2> QED
    BY <2>1, GivenUp
<1>7. CASE Commit \/ RelayMessage
  BY <1>7, Committed
<1> QED
  BY <1>2, <1>3, <1>4, <1>5, <1>6, <1>7 DEF Next, Engine

\* At first nothing is written.
LEMMA InitPublished == Init => PublishInv /\ BalanceInv
<1> SUFFICES ASSUME Init PROVE PublishInv /\ BalanceInv
  OBVIOUS
<1>1. /\ db.events = <<>> /\ db.balances = <<>> /\ open.events = <<>> /\ open.balances = <<>>
      /\ queue = <<>> /\ published = <<>> /\ cache = <<>>
  BY DEF Init, NoDb
<1>2. <<>> \o <<>> = <<>>
  OBVIOUS
<1>3. Moves(<<>>) = <<>>
  BY AmongNone DEF Moves, Where
<1> QED
  BY <1>1, <1>2, <1>3 DEF PublishInv, BalanceInv

\* PublishedCommitted: the broker has sent exactly what is committed and in its order, whatever
\* is rolled back, lost in a crash or committed by the relay in the middle of the engine's work.
THEOREM SubscribersSeeCommitted == Spec => []PublishedCommitted
<1>1. PublishInv => PublishedCommitted
  BY DEF PublishInv, PublishedCommitted
<1> QED
  BY <1>1, InitPublished, NextPublished, IndexerInvHolds, PTL DEF Spec

\* BalancesMatch: the balances are the transfers that are committed, each once, through failed
\* requests and crashes, as long as no message of the relay and no failed transaction separates
\* the cache from the open transaction.
THEOREM BalancesStayExact == Spec => []BalancesMatch
<1>1. BalanceInv => BalancesMatch
  BY DEF BalanceInv, BalancesMatch
<1> QED
  BY <1>1, InitPublished, NextPublished, IndexerInvHolds, PTL DEF Spec

-----------------------------------------------------------------------------
(* The pages of katana, exactly: what a transaction adds to a page *)

\* A transaction has as many events as are returned of it, or more.
LEMMA FilteredLen ==
    ASSUME NEW tx, tx.events \in Shapes, NEW block, NEW contract
    PROVE  Len(tx.events) \in Nat /\ Len(Filtered(tx, block, contract)) <= Len(tx.events)
<1>2. PICK ev : ev = tx.events
  OBVIOUS
<1>3. ev \in Seq(ToSet(ev)) /\ Len(ev) \in Nat /\ DOMAIN ev = 1..Len(ev)
  BY <1>2, ShapeIs
<1>4. PICK all : all = [i \in DOMAIN ev |->
                  [block |-> block, tx |-> tx.hash, at |-> i, from |-> ev[i]]]
  OBVIOUS
<1>5. all = [i \in 1..Len(ev) |-> all[i]]
  BY <1>3, <1>4
<1>6. PICK U : U = {all[i] : i \in 1..Len(ev)}
  OBVIOUS
<1>7. all \in Seq(U) /\ Len(all) = Len(ev)
  BY <1>3, <1>5, <1>6, IsASeq
<1>8. PICK S : S = {e \in ToSet(all) : e.from = contract}
  OBVIOUS
<1>9. Filtered(tx, block, contract) = Among(all, S)
  BY <1>2, <1>4, <1>8 DEF Filtered, Where
<1>10. Len(Among(all, S)) <= Len(all)
  BY <1>7, AmongLen
<1> QED
  BY <1>2, <1>3, <1>7, <1>9, <1>10

\* All that is left of a transaction from event next on is added to a page, or it is full.
Takes(fetched, all, chunk, buffer, next) ==
    \/ fetched.event = None /\ fetched.buffer = buffer \o Drop(all, next)
    \/ \E e \in Nat :
          /\ fetched.event = {e} /\ Len(fetched.buffer) >= chunk
          /\ fetched.buffer \o Drop(all, e) = buffer \o Drop(all, next)

\* A page is filled from a transaction: with all that is left of it, or up to the event to go on from.
LEMMA FetchTxExact ==
    ASSUME NEW tx, tx.hash \in 1..MaxTxs, tx.events \in Shapes,
           NEW block \in -1..MaxBlocks, NEW contract \in Contracts,
           NEW next \in Nat, NEW chunk \in Nat \ {0}, NEW buffer \in Seq(PageEvents)
    PROVE  Takes(FetchTxEvents(next, block, tx, contract, chunk, buffer),
                 Filtered(tx, block, contract), chunk, buffer, next)
<1>1. PICK m : m = Filtered(tx, block, contract)
  OBVIOUS
<1>2. m \in Seq(PageEvents) /\ Len(m) \in Nat /\ Len(tx.events) \in Nat /\ Len(m) <= Len(tx.events)
  <2>1. m \in Seq(PageEvents)
    BY <1>1, FilteredType
  <2> QED
    BY <1>1, <2>1, FilteredLen
<1>3. PICK len, room : len = Len(buffer) /\ room = IF len < chunk THEN chunk - len ELSE 0
  OBVIOUS
<1>4. len \in Nat /\ room \in Nat
  BY <1>3
<1>5. PICK end : end = Smaller(next + room, Len(m))
  OBVIOUS
<1>6. end \in Int /\ end <= Len(m) /\ end <= next + room /\ (end = Len(m) \/ end = next + room)
  BY <1>2, <1>4, <1>5, SmallerIs
<1>7. PICK taken : taken = SubSeq(m, next + 1, end)
  OBVIOUS
<1>8. /\ taken \in Seq(PageEvents)
      /\ Len(taken) = IF next + 1 <= end THEN end - next ELSE 0
      /\ \A i \in 1..(end - next) : taken[i] = m[next + i]
  <2>1. \A i \in (next + 1)..end : m[i] \in PageEvents
    BY <1>2, <1>6
  <2>2. /\ taken \in Seq(PageEvents)
        /\ Len(taken) = IF next + 1 <= end THEN end - (next + 1) + 1 ELSE 0
        /\ \A i \in 1..(end - (next + 1) + 1) : taken[i] = m[(next + 1) + i - 1]
    BY <1>6, <1>7, <2>1, SubSeqProperties
  <2>3. end - (next + 1) + 1 = end - next /\ \A i \in 1..(end - next) : (next + 1) + i - 1 = next + i
    BY <1>6
  <2> QED
    BY <2>2, <2>3
<1>9. Len(taken) \in Nat /\ (taken # <<>> <=> Len(taken) # 0)
  BY <1>8
<1>10. PICK goOn : goOn = next + (IF taken = <<>> THEN room ELSE Len(taken) - 1)
                     + (IF room = 0 THEN 0 ELSE 1)
  OBVIOUS
<1>11. PICK b : b = buffer \o taken
  OBVIOUS
<1>12. b \in Seq(PageEvents) /\ Len(b) = len + Len(taken)
  <2>1. taken \in Seq(PageEvents)
    BY <1>8
  <2> QED
    BY <1>3, <1>11, <2>1
<1>13. PICK fetched : fetched = FetchTxEvents(next, block, tx, contract, chunk, buffer)
  OBVIOUS
<1>14. fetched = [buffer |-> b, event |-> IF Len(b) >= chunk /\ goOn < Len(tx.events) THEN {goOn} ELSE None]
  BY <1>1, <1>3, <1>5, <1>7, <1>10, <1>11, <1>13 DEF FetchTxEvents
<1>15. fetched.buffer = b /\ fetched.event = IF Len(b) >= chunk /\ goOn < Len(tx.events) THEN {goOn} ELSE None
  BY <1>14
<1>16. /\ Drop(m, next) \in Seq(PageEvents)
       /\ next <= Len(m) => Len(Drop(m, next)) = Len(m) - next
       /\ next >= Len(m) => Drop(m, next) = <<>>
       /\ \A i \in 1..(Len(m) - next) : Drop(m, next)[i] = m[next + i]
  BY <1>2, DropIs
<1>17. buffer \o <<>> = buffer /\ b \o <<>> = b
  BY <1>12, ConcatEmptySeq
<1>18. ASSUME taken = <<>> PROVE b = buffer
  BY <1>11, <1>17, <1>18
<1> DEFINE Goal ==
       \/ fetched.event = None /\ fetched.buffer = buffer \o Drop(m, next)
       \/ \E e \in Nat :
             /\ fetched.event = {e} /\ Len(fetched.buffer) >= chunk
             /\ fetched.buffer \o Drop(m, e) = buffer \o Drop(m, next)
<1>19. ASSUME room = 0 PROVE Goal
  <2>1. Len(taken) = 0
    BY <1>4, <1>6, <1>8, <1>19
  <2>2. taken = <<>> /\ goOn = next /\ b = buffer /\ len >= chunk
    <3>1. taken = <<>>
      BY <1>9, <2>1
    <3>2. goOn = next + room + 0
      BY <1>10, <1>19, <3>1
    <3>3. len >= chunk
      BY <1>3, <1>4, <1>19
    <3> QED
      BY <1>18, <1>19, <3>1, <3>2, <3>3
  <2>3. Len(b) >= chunk
    BY <1>3, <2>2
  <2>4. CASE next < Len(tx.events)
    <3>1. fetched.event = {next}
      BY <1>15, <2>2, <2>3, <2>4
    <3> QED
      BY <1>1, <1>13, <1>15, <2>2, <2>3, <3>1
  <2>5. CASE ~(next < Len(tx.events))
    <3>1. fetched.event = None
      BY <1>15, <2>2, <2>5
    <3>2. Drop(m, next) = <<>>
      BY <1>2, <1>16, <2>5
    <3> QED
      BY <1>1, <1>13, <1>15, <1>17, <2>2, <3>1, <3>2
  <2> QED
    BY <2>4, <2>5
<1>20. ASSUME room # 0, taken = <<>> PROVE Goal
  <2>1. Len(b) = len /\ len < chunk /\ b = buffer
    BY <1>3, <1>9, <1>12, <1>18, <1>20
  <2>2. fetched.event = None
    BY <1>4, <1>15, <2>1
  <2>3. ~(next + 1 <= end)
    BY <1>4, <1>6, <1>8, <1>9, <1>20
  <2>4. Drop(m, next) = <<>>
    BY <1>2, <1>4, <1>6, <1>16, <1>20, <2>3
  <2> QED
    BY <1>1, <1>13, <1>15, <1>17, <2>1, <2>2, <2>4
<1>21. ASSUME room # 0, taken # <<>> PROVE Goal
  <2>1. next + 1 <= end /\ Len(taken) = end - next
    BY <1>8, <1>9, <1>21
  <2>2. goOn = end /\ end \in Nat
    BY <1>6, <1>10, <1>21, <2>1
  <2>3. /\ Drop(m, end) \in Seq(PageEvents)
        /\ Len(Drop(m, end)) = Len(m) - end
        /\ end >= Len(m) => Drop(m, end) = <<>>
        /\ \A i \in 1..(Len(m) - end) : Drop(m, end)[i] = m[end + i]
    BY <1>2, <1>6, <2>2, DropIs
  <2>4. taken \o Drop(m, end) = Drop(m, next)
    <3>1. PICK d, r : d = Drop(m, end) /\ r = Drop(m, next)
      OBVIOUS
    <3>2. PICK t : t = taken \o d
      OBVIOUS
    <3>3. t \in Seq(PageEvents) /\ Len(t) = Len(m) - next
          /\ \A i \in 1..Len(t) : t[i] = IF i <= end - next THEN taken[i] ELSE d[i - (end - next)]
      BY <1>2, <1>6, <1>8, <2>1, <2>2, <2>3, <3>1, <3>2
    <3>4. r \in Seq(PageEvents) /\ Len(r) = Len(m) - next
      BY <1>2, <1>6, <1>16, <2>1, <3>1
    <3>5. ASSUME NEW i \in 1..(Len(m) - next) PROVE t[i] = r[i]
      <4>1. r[i] = m[next + i]
        BY <1>16, <3>1
      <4>2. CASE i <= end - next
        <5>1. i \in 1..(end - next) /\ i \in 1..Len(t)
          BY <2>2, <3>3, <4>2
        <5> QED
          BY <1>8, <3>3, <4>1, <4>2, <5>1
      <4>3. CASE ~(i <= end - next)
        <5>1. i - (end - next) \in 1..(Len(m) - end) /\ i \in 1..Len(t)
              /\ end + (i - (end - next)) = next + i
          BY <1>2, <2>2, <3>3, <4>3
        <5>2. t[i] = d[i - (end - next)]
          BY <3>3, <4>3, <5>1
        <5>3. d[i - (end - next)] = m[end + (i - (end - next))]
          BY <2>3, <3>1, <5>1
        <5> QED
          BY <4>1, <5>1, <5>2, <5>3
      <4> QED
        BY <4>2, <4>3
    <3>6. t = r
      BY <3>3, <3>4, <3>5
    <3> QED
      BY <3>1, <3>2, <3>6
  <2>5. b \o Drop(m, end) = buffer \o Drop(m, next)
    <3>1. PICK d : d = Drop(m, end)
      OBVIOUS
    <3>2. d \in Seq(PageEvents) /\ taken \in Seq(PageEvents)
      BY <1>8, <2>3, <3>1
    <3>3. (buffer \o taken) \o d = buffer \o (taken \o d)
      BY <3>2, Associate
    <3> QED
      BY <1>11, <2>4, <3>1, <3>3
  <2>6. CASE Len(b) >= chunk /\ goOn < Len(tx.events)
    BY <1>1, <1>13, <1>15, <2>2, <2>5, <2>6
  <2>7. CASE ~(Len(b) >= chunk /\ goOn < Len(tx.events))
    <3>1. end >= Len(m)
      <4>1. CASE ~(Len(b) >= chunk)
        BY <1>2, <1>3, <1>4, <1>6, <1>12, <2>1, <4>1
      <4>2. CASE ~(goOn < Len(tx.events))
        BY <1>2, <2>2, <4>2
      <4> QED
        BY <2>7, <4>1, <4>2
    <3>2. b = buffer \o Drop(m, next)
      BY <1>17, <2>3, <2>5, <3>1
    <3> QED
      BY <1>1, <1>13, <1>15, <2>7, <3>2
  <2> QED
    BY <2>6, <2>7
<1>22. Goal
  BY <1>19, <1>20, <1>21
<1> QED
  BY <1>1, <1>13, <1>22 DEF Takes

-----------------------------------------------------------------------------
(* What is left to read from a position on *)

\* A sequence with an element more at its front.
LEMMA ConsIs ==
    ASSUME NEW T, NEW u \in Seq(T), NEW v \in Seq(T), Len(u) = Len(v) + 1,
           \A i \in 1..Len(v) : u[i + 1] = v[i]
    PROVE  u[1] \in T /\ u = <<u[1]>> \o v
<1>1. PICK k, w : k = Len(v) /\ w = <<u[1]>> \o v
  OBVIOUS
<1>2. k \in Nat /\ 1 \in 1..Len(u) /\ u[1] \in T
  BY <1>1
<1>3. w \in Seq(T) /\ Len(w) = k + 1 /\ w[1] = u[1]
  BY <1>1, <1>2
<1>4. ASSUME NEW i \in 1..(k + 1) PROVE w[i] = u[i]
  <2>1. CASE i = 1
    BY <1>3, <2>1
  <2>2. CASE i # 1
    <3>1. i - 1 \in 1..k /\ (i - 1) + 1 = i
      BY <1>2, <2>2
    <3>2. u[i] = v[i - 1]
      BY <1>1, <3>1
    <3>3. w[i] = v[i - 1]
      BY <1>1, <1>2, <2>2, <3>1
    <3> QED
      BY <3>2, <3>3
  <2> QED
    BY <2>1, <2>2
<1>5. w = u
  BY <1>1, <1>3, <1>4
<1> QED
  BY <1>1, <1>2, <1>5

\* A function of the numbers up to n is a sequence.
LEMMA UpToIs ==
    ASSUME NEW T, NEW n \in Int, NEW f, f = [i \in 1..n |-> f[i]], \A i \in 1..n : f[i] \in T
    PROVE  f \in Seq(T) /\ (n \in Nat => Len(f) = n) /\ (n <= 0 => f = <<>>)
<1>1. CASE n <= 0
  <2>1. 1..n = 1..0
    BY <1>1
  <2>2. f = [i \in 1..0 |-> f[i]]
    BY <2>1
  <2>3. f \in Seq(T) /\ Len(f) = 0
    <3>1. 0 \in Nat /\ \A i \in 1..0 : f[i] \in T
      OBVIOUS
    <3> QED
      BY ONLY <2>2, <3>1, IsASeq
  <2> QED
    BY <1>1, <2>3
<1>2. CASE n > 0
  BY <1>2, IsASeq
<1> QED
  BY <1>1, <1>2

\* How many transactions of block n there are from index idx on; their positions and their events.
LeftIn(n, idx) == IF idx < Len(Block(n)) THEN Len(Block(n)) - idx ELSE 0
Row(n, idx) == [j \in 1..LeftIn(n, idx) |-> <<n, idx + j - 1>>]
Content(p, c) == Filtered(Block(p[1])[p[2] + 1], p[1], c)
RowEvents(n, idx, c) == FlattenSeq([j \in 1..LeftIn(n, idx) |-> Content(<<n, idx + j - 1>>, c)])

\* The positions, and the events, from transaction idx of block n on.
At(n, idx) == Positions(Cursor(n, idx, 0), Latest)
EventsFrom(n, idx, c) ==
    IF n <= Latest THEN RowEvents(n, idx, c) \o MinedEvents(n + 1, Latest, c) ELSE <<>>

\* The events of c from a cursor on.
Rest(q, c) ==
    IF q.block <= Latest /\ q.idx < Len(Block(q.block))
    THEN Drop(Content(<<q.block, q.idx>>, c), q.event) \o EventsFrom(q.block, q.idx + 1, c)
    ELSE EventsFrom(q.block, q.idx, c)

\* The transactions of a block.
LEMMA LeftIs ==
    ASSUME ChainInv, NEW n \in Nat, n <= Latest, NEW idx \in Nat
    PROVE  /\ Len(Block(n)) \in Nat /\ LeftIn(n, idx) \in Nat
           /\ idx < Len(Block(n)) => LeftIn(n, idx) = LeftIn(n, idx + 1) + 1
           /\ ~(idx < Len(Block(n))) => LeftIn(n, idx) = 0
           /\ \A j \in 1..LeftIn(n, idx) : <<n, idx + j - 1>> \in Places
<1>1. PICK len : len = Len(Block(n))
  OBVIOUS
<1>2. len \in Nat
  <2>1. Block(n) \in Seq(MinedTxs)
    BY BlockType
  <2> QED
    BY <1>1, <2>1
<1>3. LeftIn(n, idx) = (IF idx < len THEN len - idx ELSE 0)
      /\ LeftIn(n, idx + 1) = (IF idx + 1 < len THEN len - (idx + 1) ELSE 0)
  BY <1>1 DEF LeftIn
<1>4. ASSUME NEW j \in 1..LeftIn(n, idx) PROVE <<n, idx + j - 1>> \in Places
  <2>1. idx + j - 1 \in Nat /\ idx + j - 1 < len
    BY <1>2, <1>3
  <2> QED
    BY <1>1, <2>1 DEF Places
<1>5. /\ LeftIn(n, idx) \in Nat
      /\ idx < len => LeftIn(n, idx) = LeftIn(n, idx + 1) + 1
      /\ ~(idx < len) => LeftIn(n, idx) = 0
  BY <1>2, <1>3
<1> QED
  BY <1>1, <1>2, <1>4, <1>5

\* What is returned of the transaction at a position.
LEMMA ContentType ==
    ASSUME ChainInv, NEW p \in Places, NEW c \in Contracts
    PROVE  /\ Content(p, c) \in Seq(PageEvents)
           /\ Block(p[1])[p[2] + 1] \in MinedTxs /\ p[1] \in -1..MaxBlocks
           /\ Len(Block(p[1])[p[2] + 1].events) \in Nat
           /\ Len(Content(p, c)) <= Len(Block(p[1])[p[2] + 1].events)
<1>1. p[1] \in Nat /\ p[2] \in Nat /\ p[1] <= Latest /\ p[2] < Len(Block(p[1]))
  BY DEF Places
<1>2. PICK blk, tx : blk = Block(p[1]) /\ tx = blk[p[2] + 1]
  OBVIOUS
<1>3. blk \in Seq(MinedTxs) /\ p[1] \in -1..MaxBlocks
  BY <1>1, <1>2, BlockType
<1>4. tx \in MinedTxs
  BY <1>1, <1>2, <1>3
<1>5. tx.hash \in 1..MaxTxs /\ tx.events \in Shapes
  BY <1>4 DEF MinedTxs
<1>6. Filtered(tx, p[1], c) \in Seq(PageEvents)
  BY <1>3, <1>5, FilteredType
<1>7. Len(tx.events) \in Nat /\ Len(Filtered(tx, p[1], c)) <= Len(tx.events)
  BY <1>5, FilteredLen
<1> QED
  BY <1>2, <1>3, <1>4, <1>6, <1>7 DEF Content

\* The events of a block from a transaction on.
LEMMA RowEventsIs ==
    ASSUME ChainInv, NEW n \in Nat, n <= Latest, NEW idx \in Nat, NEW c \in Contracts
    PROVE  /\ RowEvents(n, idx, c) \in Seq(PageEvents)
           /\ idx < Len(Block(n)) =>
                RowEvents(n, idx, c) = Content(<<n, idx>>, c) \o RowEvents(n, idx + 1, c)
           /\ ~(idx < Len(Block(n))) => RowEvents(n, idx, c) = <<>>
<1> DEFINE F(i) == [j \in 1..LeftIn(n, i) |-> Content(<<n, i + j - 1>>, c)]
<1>1. ASSUME NEW i \in Nat
      PROVE  F(i) \in Seq(Seq(PageEvents)) /\ Len(F(i)) = LeftIn(n, i)
             /\ (LeftIn(n, i) = 0 => F(i) = <<>>) /\ LeftIn(n, i) \in Nat
  <2>1. PICK k, f : k = LeftIn(n, i) /\ f = F(i)
    OBVIOUS
  <2>2. k \in Nat /\ \A j \in 1..k : <<n, i + j - 1>> \in Places
    BY <2>1, LeftIs
  <2>3. \A j \in 1..k : f[j] = Content(<<n, i + j - 1>>, c)
    BY <2>1
  <2>4. \A j \in 1..k : f[j] \in Seq(PageEvents)
    BY <2>2, <2>3, ContentType
  <2>5. f = [j \in 1..k |-> f[j]]
    BY <2>1
  <2>6. f \in Seq(Seq(PageEvents)) /\ (k \in Nat => Len(f) = k) /\ (k <= 0 => f = <<>>)
    <3>1. PICK T : T = Seq(PageEvents)
      OBVIOUS
    <3>2. \A j \in 1..k : f[j] \in T
      BY <2>4, <3>1
    <3>3. k \in Int
      BY <2>2
    <3> HIDE DEF F
    <3> QED
      BY ONLY <2>5, <3>1, <3>2, <3>3, UpToIs
  <2> QED
    BY <2>1, <2>2, <2>6
<1>2. \A i : RowEvents(n, i, c) = FlattenSeq(F(i))
  BY DEF RowEvents
<1>3. RowEvents(n, idx, c) \in Seq(PageEvents)
  <2> HIDE DEF F
  <2> QED
    BY <1>1, <1>2, FlattenType
<1>4. ASSUME idx < Len(Block(n))
      PROVE  RowEvents(n, idx, c) = Content(<<n, idx>>, c) \o RowEvents(n, idx + 1, c)
  <2>1. PICK u, v, k : u = F(idx) /\ v = F(idx + 1) /\ k = LeftIn(n, idx + 1)
    OBVIOUS
  <2>2. LeftIn(n, idx) = k + 1 /\ k \in Nat
    BY <1>1, <1>4, <2>1, LeftIs
  <2>3. u \in Seq(Seq(PageEvents)) /\ v \in Seq(Seq(PageEvents)) /\ Len(u) = k + 1 /\ Len(v) = k
    <3>1. F(idx) \in Seq(Seq(PageEvents)) /\ Len(F(idx)) = LeftIn(n, idx)
      BY <1>1
    <3>2. F(idx + 1) \in Seq(Seq(PageEvents)) /\ Len(F(idx + 1)) = LeftIn(n, idx + 1)
      BY <1>1
    <3> HIDE DEF F
    <3> QED
      BY <2>1, <2>2, <3>1, <3>2
  <2>4. u = [j \in 1..(k + 1) |-> Content(<<n, idx + j - 1>>, c)]
        /\ v = [j \in 1..k |-> Content(<<n, (idx + 1) + j - 1>>, c)]
    BY <2>1, <2>2
  <2>5. \A j \in 1..k : u[j + 1] = v[j]
    <3>1. \A j \in 1..k : j + 1 \in 1..(k + 1) /\ idx + (j + 1) - 1 = (idx + 1) + j - 1
      BY <2>2
    <3> QED
      BY <2>4, <3>1
  <2>6. u[1] = Content(<<n, idx>>, c)
    <3>1. 1 \in 1..(k + 1) /\ idx + 1 - 1 = idx
      BY <2>2
    <3> QED
      BY <2>4, <3>1
  <2> HIDE DEF F
  <2>7. u[1] \in Seq(PageEvents) /\ u = <<u[1]>> \o v
    BY <2>3, <2>5, ConsIs
  <2>8. FlattenSeq(u) = u[1] \o FlattenSeq(v)
    BY <2>3, <2>7, FlattenCons
  <2> QED
    BY <1>2, <2>1, <2>6, <2>8
<1>5. ASSUME ~(idx < Len(Block(n))) PROVE RowEvents(n, idx, c) = <<>>
  <2>1. LeftIn(n, idx) = 0
    BY <1>5, LeftIs
  <2>2. F(idx) = <<>>
    BY <1>1, <2>1
  <2> HIDE DEF F
  <2> QED
    BY <1>2, <2>2, FlattenNone
<1> QED
  BY <1>3, <1>4, <1>5

\* The events of the blocks from n on, and of block n alone.
LEMMA MinedEventsIs ==
    ASSUME ChainInv, NEW n \in Nat, NEW c \in Contracts
    PROVE  /\ MinedEvents(n, Latest, c) \in Seq(PageEvents)
           /\ n <= Latest =>
                MinedEvents(n, Latest, c) = RowEvents(n, 0, c) \o MinedEvents(n + 1, Latest, c)
           /\ n > Latest => MinedEvents(n, Latest, c) = <<>>
<1>0. Latest \in Nat /\ MinedEvents(n, Latest, c) \in Seq(PageEvents)
  BY PendingCursors, MinedEventsType
<1> DEFINE R(m) == FlattenSeq([j \in DOMAIN Block(m) |-> Filtered(Block(m)[j], m, c)])
           F(i) == [k \in 1..(Latest - i + 1) |-> R(i + k - 1)]
<1>1. \A i : MinedEvents(i, Latest, c) = FlattenSeq(F(i))
  BY DEF MinedEvents
<1>2. ASSUME NEW m \in Nat, m <= Latest PROVE R(m) = RowEvents(m, 0, c)
  <2>1. PICK blk : blk = Block(m)
    OBVIOUS
  <2>2. blk \in Seq(MinedTxs)
    BY <1>2, <2>1, BlockType
  <2>3. LeftIn(m, 0) = Len(blk) /\ Len(blk) \in Nat /\ DOMAIN blk = 1..Len(blk)
    BY <2>1, <2>2 DEF LeftIn
  <2>4. \A j \in 1..Len(blk) : 0 + j - 1 + 1 = j
    BY <2>3
  <2>5. [j \in 1..Len(blk) |-> Filtered(blk[j], m, c)]
        = [j \in 1..Len(blk) |-> Filtered(blk[0 + j - 1 + 1], m, c)]
    BY <2>4
  <2>6. \A j : Content(<<m, 0 + j - 1>>, c) = Filtered(blk[0 + j - 1 + 1], m, c)
    BY <2>1 DEF Content
  <2>7. [j \in 1..Len(blk) |-> Content(<<m, 0 + j - 1>>, c)]
        = [j \in 1..Len(blk) |-> Filtered(blk[0 + j - 1 + 1], m, c)]
    BY <2>6
  <2> QED
    BY <2>1, <2>3, <2>5, <2>7 DEF RowEvents
<1>3. ASSUME NEW i \in Nat
      PROVE  /\ F(i) \in Seq(Seq(PageEvents))
             /\ i <= Latest => Len(F(i)) = Latest - i + 1
             /\ i > Latest => F(i) = <<>>
             /\ i = Latest + 1 => Len(F(i)) = 0
  <2>1. PICK k, f : k = Latest - i + 1 /\ f = F(i)
    OBVIOUS
  <2>2. k \in Int /\ \A j \in 1..k : i + j - 1 \in Nat /\ i + j - 1 <= Latest
    BY <1>0, <2>1
  <2>3. \A j \in 1..k : f[j] = R(i + j - 1)
    BY <2>1
  <2>4. \A j \in 1..k : f[j] \in Seq(PageEvents)
    <3> SUFFICES ASSUME NEW j \in 1..k PROVE f[j] \in Seq(PageEvents)
      OBVIOUS
    <3>1. PICK m : m = i + j - 1
      OBVIOUS
    <3>2. m \in Nat /\ m <= Latest
      BY <2>2, <3>1
    <3>3. R(m) = RowEvents(m, 0, c) /\ RowEvents(m, 0, c) \in Seq(PageEvents)
      BY <1>2, <3>2, RowEventsIs
    <3> HIDE DEF R, F
    <3> QED
      BY <2>3, <3>1, <3>3
  <2>5. f = [j \in 1..k |-> f[j]]
    BY <2>1
  <2>6. f \in Seq(Seq(PageEvents)) /\ (k \in Nat => Len(f) = k) /\ (k <= 0 => f = <<>>)
    <3>1. PICK T : T = Seq(PageEvents)
      OBVIOUS
    <3>2. \A j \in 1..k : f[j] \in T
      BY <2>4, <3>1
    <3> HIDE DEF F, R
    <3> QED
      BY ONLY <2>2, <2>5, <3>1, <3>2, UpToIs
  <2> HIDE DEF F, R
  <2> QED
    BY <1>0, <2>1, <2>6
<1>4. ASSUME n <= Latest
      PROVE  MinedEvents(n, Latest, c) = RowEvents(n, 0, c) \o MinedEvents(n + 1, Latest, c)
  <2>1. PICK u, v, k : u = F(n) /\ v = F(n + 1) /\ k = Latest - n
    OBVIOUS
  <2>2. k \in Nat /\ Latest - n + 1 = k + 1 /\ Latest - (n + 1) + 1 = k
    BY <1>0, <1>4, <2>1
  <2>3. u \in Seq(Seq(PageEvents)) /\ v \in Seq(Seq(PageEvents)) /\ Len(u) = k + 1 /\ Len(v) = k
    <3>1. F(n) \in Seq(Seq(PageEvents)) /\ Len(F(n)) = k + 1
      BY <1>3, <1>4, <2>2
    <3>2. F(n + 1) \in Seq(Seq(PageEvents)) /\ Len(F(n + 1)) = k
      <4>1. n + 1 \in Nat /\ (n + 1 <= Latest \/ n + 1 = Latest + 1)
        BY <1>0, <1>4
      <4>2. n + 1 = Latest + 1 => k = 0
        BY <1>0, <2>1
      <4> HIDE DEF F, R
      <4> QED
        BY <1>3, <2>2, <4>1, <4>2
    <3> HIDE DEF F, R
    <3> QED
      BY <2>1, <3>1, <3>2
  <2>4. u = [j \in 1..(k + 1) |-> R(n + j - 1)] /\ v = [j \in 1..k |-> R((n + 1) + j - 1)]
    BY <2>1, <2>2
  <2> HIDE DEF F, R
  <2>5. \A j \in 1..k : u[j + 1] = v[j]
    <3>1. \A j \in 1..k : j + 1 \in 1..(k + 1) /\ n + (j + 1) - 1 = (n + 1) + j - 1
      BY <2>2
    <3> QED
      BY <2>4, <3>1
  <2>6. u[1] = R(n)
    <3>1. 1 \in 1..(k + 1) /\ n + 1 - 1 = n
      BY <2>2
    <3> QED
      BY <2>4, <3>1
  <2>7. u[1] \in Seq(PageEvents) /\ u = <<u[1]>> \o v
    BY <2>3, <2>5, ConsIs
  <2>8. FlattenSeq(u) = u[1] \o FlattenSeq(v)
    BY <2>3, <2>7, FlattenCons
  <2> QED
    BY <1>1, <1>2, <1>4, <2>1, <2>6, <2>8
<1>5. ASSUME n > Latest PROVE MinedEvents(n, Latest, c) = <<>>
  <2>1. F(n) = <<>>
    BY <1>3, <1>5
  <2> HIDE DEF F, R
  <2> QED
    BY <1>1, <2>1, FlattenNone
<1> QED
  BY <1>0, <1>4, <1>5

\* The events from a transaction on: those of the transaction, and those after it.
LEMMA EventsFromIs ==
    ASSUME ChainInv, NEW n \in Nat, NEW idx \in Nat, NEW c \in Contracts
    PROVE  /\ EventsFrom(n, idx, c) \in Seq(PageEvents)
           /\ n <= Latest /\ idx < Len(Block(n)) =>
                EventsFrom(n, idx, c) = Content(<<n, idx>>, c) \o EventsFrom(n, idx + 1, c)
           /\ n <= Latest /\ ~(idx < Len(Block(n))) =>
                EventsFrom(n, idx, c) = EventsFrom(n + 1, 0, c)
           /\ n > Latest => EventsFrom(n, idx, c) = <<>>
           /\ EventsFrom(n, 0, c) = MinedEvents(n, Latest, c)
<1>0. Latest \in Nat
  BY PendingCursors
<1>1. PICK more : more = MinedEvents(n + 1, Latest, c)
  OBVIOUS
<1>2. more \in Seq(PageEvents)
  BY <1>1, MinedEventsIs
<1>3. ASSUME NEW m \in Nat PROVE EventsFrom(m, 0, c) = MinedEvents(m, Latest, c)
  <2>1. m <= Latest => MinedEvents(m, Latest, c) = RowEvents(m, 0, c) \o MinedEvents(m + 1, Latest, c)
    BY MinedEventsIs
  <2>2. m > Latest => MinedEvents(m, Latest, c) = <<>>
    BY MinedEventsIs
  <2>3. m <= Latest \/ m > Latest
    BY <1>0
  <2> QED
    BY <1>0, <2>1, <2>2, <2>3 DEF EventsFrom
<1>4. EventsFrom(n + 1, 0, c) = more /\ EventsFrom(n, 0, c) = MinedEvents(n, Latest, c)
  <2>1. n + 1 \in Nat
    OBVIOUS
  <2> QED
    BY <1>1, <1>3, <2>1
<1>5. CASE n > Latest
  <2>1. EventsFrom(n, idx, c) = <<>> /\ <<>> \in Seq(PageEvents) /\ ~(n <= Latest)
    BY <1>0, <1>5 DEF EventsFrom
  <2> QED
    BY <1>4, <2>1
<1>6. CASE n <= Latest
  <2>1. PICK r : r = RowEvents(n, idx, c)
    OBVIOUS
  <2>2. r \in Seq(PageEvents) /\ EventsFrom(n, idx, c) = r \o more /\ ~(n > Latest)
    <3>1. r \in Seq(PageEvents)
      BY <1>6, <2>1, RowEventsIs
    <3>2. EventsFrom(n, idx, c) = r \o more
      BY <1>1, <1>6, <2>1 DEF EventsFrom
    <3> QED
      BY <1>0, <1>6, <3>1, <3>2
  <2>3. EventsFrom(n, idx, c) \in Seq(PageEvents)
    BY <1>2, <2>2
  <2>4. ASSUME idx < Len(Block(n))
        PROVE  EventsFrom(n, idx, c) = Content(<<n, idx>>, c) \o EventsFrom(n, idx + 1, c)
    <3>1. PICK x, s : x = Content(<<n, idx>>, c) /\ s = RowEvents(n, idx + 1, c)
      OBVIOUS
    <3>2. r = x \o s /\ s \in Seq(PageEvents)
      <4>1. idx + 1 \in Nat
        OBVIOUS
      <4>2. RowEvents(n, idx + 1, c) \in Seq(PageEvents)
        BY <1>6, <4>1, RowEventsIs
      <4>3. RowEvents(n, idx, c) = Content(<<n, idx>>, c) \o RowEvents(n, idx + 1, c)
        BY <1>6, <2>4, RowEventsIs
      <4> QED
        BY <2>1, <3>1, <4>2, <4>3
    <3>3. x \in Seq(PageEvents)
      <4>1. <<n, idx>> \in Places
        BY <1>6, <2>4 DEF Places
      <4> QED
        BY <3>1, <4>1, ContentType
    <3>4. (x \o s) \o more = x \o (s \o more)
      BY <1>2, <3>2, <3>3, Associate
    <3>5. EventsFrom(n, idx + 1, c) = s \o more
      BY <1>1, <1>6, <3>1 DEF EventsFrom
    <3> QED
      BY <2>2, <3>1, <3>2, <3>4, <3>5
  <2>5. ASSUME ~(idx < Len(Block(n))) PROVE EventsFrom(n, idx, c) = EventsFrom(n + 1, 0, c)
    <3>1. r = <<>>
      BY <1>6, <2>1, <2>5, RowEventsIs
    <3>2. <<>> \o more = more
      BY <1>2, ConcatEmptySeq
    <3> QED
      BY <1>4, <2>2, <3>1, <3>2
  <2> QED
    BY <1>4, <2>2, <2>3, <2>4, <2>5
<1>7. n > Latest \/ n <= Latest
  BY <1>0
<1> QED
  BY <1>5, <1>6, <1>7

\* The positions in a block from a transaction on.
LEMMA RowIs ==
    ASSUME ChainInv, NEW n \in Nat, n <= Latest, NEW idx \in Nat
    PROVE  /\ Row(n, idx) \in Seq(Places)
           /\ idx < Len(Block(n)) => Row(n, idx) = <<<<n, idx>>>> \o Row(n, idx + 1)
           /\ ~(idx < Len(Block(n))) => Row(n, idx) = <<>>
<1>1. ASSUME NEW i \in Nat
      PROVE  /\ Row(n, i) \in Seq(Places) /\ Len(Row(n, i)) = LeftIn(n, i) /\ LeftIn(n, i) \in Nat
             /\ LeftIn(n, i) = 0 => Row(n, i) = <<>>
  <2>1. PICK k, f : k = LeftIn(n, i) /\ f = Row(n, i)
    OBVIOUS
  <2>2. k \in Nat /\ \A j \in 1..k : <<n, i + j - 1>> \in Places
    BY <2>1, LeftIs
  <2>3. f = [j \in 1..k |-> <<n, i + j - 1>>]
    BY <2>1 DEF Row
  <2>4. \A j \in 1..k : f[j] \in Places
    BY <2>2, <2>3
  <2>5. f = [j \in 1..k |-> f[j]]
    BY <2>3
  <2>6. f \in Seq(Places) /\ (k \in Nat => Len(f) = k) /\ (k <= 0 => f = <<>>)
    <3>1. PICK T : T = Places
      OBVIOUS
    <3>2. \A j \in 1..k : f[j] \in T
      BY <2>4, <3>1
    <3>3. k \in Int
      BY <2>2
    <3> QED
      BY ONLY <2>5, <3>1, <3>2, <3>3, UpToIs
  <2> QED
    BY <2>1, <2>2, <2>6
<1>2. ASSUME idx < Len(Block(n)) PROVE Row(n, idx) = <<<<n, idx>>>> \o Row(n, idx + 1)
  <2>1. PICK u, v, k : u = Row(n, idx) /\ v = Row(n, idx + 1) /\ k = LeftIn(n, idx + 1)
    OBVIOUS
  <2>2. LeftIn(n, idx) = k + 1 /\ k \in Nat
    BY <1>1, <1>2, <2>1, LeftIs
  <2>3. u \in Seq(Places) /\ v \in Seq(Places) /\ Len(u) = k + 1 /\ Len(v) = k
    <3>1. Row(n, idx) \in Seq(Places) /\ Len(Row(n, idx)) = LeftIn(n, idx)
      BY <1>1
    <3>2. Row(n, idx + 1) \in Seq(Places) /\ Len(Row(n, idx + 1)) = LeftIn(n, idx + 1)
      BY <1>1
    <3> QED
      BY <2>1, <2>2, <3>1, <3>2
  <2>4. u = [j \in 1..(k + 1) |-> <<n, idx + j - 1>>] /\ v = [j \in 1..k |-> <<n, (idx + 1) + j - 1>>]
    BY <2>1, <2>2 DEF Row
  <2>5. \A j \in 1..k : u[j + 1] = v[j]
    <3>1. \A j \in 1..k : j + 1 \in 1..(k + 1) /\ idx + (j + 1) - 1 = (idx + 1) + j - 1
      BY <2>2
    <3> QED
      BY <2>4, <3>1
  <2>6. u[1] = <<n, idx>>
    <3>1. 1 \in 1..(k + 1) /\ idx + 1 - 1 = idx
      BY <2>2
    <3> QED
      BY <2>4, <3>1
  <2>7. u[1] \in Places /\ u = <<u[1]>> \o v
    BY <2>3, <2>5, ConsIs
  <2> QED
    BY <2>1, <2>6, <2>7
<1>3. ASSUME ~(idx < Len(Block(n))) PROVE Row(n, idx) = <<>>
  BY <1>1, <1>3, LeftIs
<1> QED
  BY <1>1, <1>2, <1>3

\* The positions from a transaction on: those in its block, and those in the blocks after it.
LEMMA AtRow ==
    ASSUME ChainInv, NEW n \in Nat, NEW idx \in Nat
    PROVE  /\ At(n, idx) \in Seq(Places)
           /\ n <= Latest => At(n, idx) = Row(n, idx) \o At(n + 1, 0)
           /\ n > Latest => At(n, idx) = <<>>
<1>0. Latest \in Nat
  BY PendingCursors
<1>1. ASSUME NEW m \in Nat, NEW i \in Nat PROVE At(m, i) \in Seq(Places)
  <2>1. Cursor(m, i, 0) \in Cursors
    BY DEF Cursor, Cursors
  <2> QED
    BY <2>1, PositionsType DEF At
<1> DEFINE F(m, i) == [k \in 1..(Latest - m + 1) |-> Row(m + k - 1, IF m + k - 1 = m THEN i ELSE 0)]
<1>2. \A m, i : At(m, i) = FlattenSeq(F(m, i))
  BY DEF At, Positions, Cursor, Row, LeftIn
<1>3. ASSUME NEW m \in Nat, NEW i \in Nat
      PROVE  /\ F(m, i) \in Seq(Seq(Places))
             /\ m <= Latest => Len(F(m, i)) = Latest - m + 1
             /\ m > Latest => F(m, i) = <<>>
             /\ m = Latest + 1 => Len(F(m, i)) = 0
  <2>1. PICK k, f : k = Latest - m + 1 /\ f = F(m, i)
    OBVIOUS
  <2>2. k \in Int /\ \A j \in 1..k : m + j - 1 \in Nat /\ m + j - 1 <= Latest
    BY <1>0, <2>1
  <2>3. \A j \in 1..k : f[j] = Row(m + j - 1, IF m + j - 1 = m THEN i ELSE 0)
    BY <2>1
  <2>4. \A j \in 1..k : f[j] \in Seq(Places)
    <3> SUFFICES ASSUME NEW j \in 1..k PROVE f[j] \in Seq(Places)
      OBVIOUS
    <3>1. PICK b, x : b = m + j - 1 /\ x = IF b = m THEN i ELSE 0
      OBVIOUS
    <3>2. b \in Nat /\ b <= Latest /\ x \in Nat
      BY <2>2, <3>1
    <3>3. Row(b, x) \in Seq(Places)
      BY <3>2, RowIs
    <3> HIDE DEF F
    <3> QED
      BY <2>3, <3>1, <3>3
  <2>5. f = [j \in 1..k |-> f[j]]
    BY <2>1
  <2>6. f \in Seq(Seq(Places)) /\ (k \in Nat => Len(f) = k) /\ (k <= 0 => f = <<>>)
    <3>1. PICK T : T = Seq(Places)
      OBVIOUS
    <3>2. \A j \in 1..k : f[j] \in T
      BY <2>4, <3>1
    <3> HIDE DEF F
    <3> QED
      BY ONLY <2>2, <2>5, <3>1, <3>2, UpToIs
  <2> HIDE DEF F
  <2> QED
    BY <1>0, <2>1, <2>6
<1>4. ASSUME n <= Latest PROVE At(n, idx) = Row(n, idx) \o At(n + 1, 0)
  <2>1. PICK u, v, k : u = F(n, idx) /\ v = F(n + 1, 0) /\ k = Latest - n
    OBVIOUS
  <2>2. k \in Nat /\ Latest - n + 1 = k + 1 /\ Latest - (n + 1) + 1 = k
    BY <1>0, <1>4, <2>1
  <2>3. u \in Seq(Seq(Places)) /\ v \in Seq(Seq(Places)) /\ Len(u) = k + 1 /\ Len(v) = k
    <3>1. F(n, idx) \in Seq(Seq(Places)) /\ Len(F(n, idx)) = k + 1
      BY <1>3, <1>4, <2>2
    <3>2. F(n + 1, 0) \in Seq(Seq(Places)) /\ Len(F(n + 1, 0)) = k
      <4>1. n + 1 \in Nat /\ (n + 1 <= Latest \/ n + 1 = Latest + 1)
        BY <1>0, <1>4
      <4>2. n + 1 = Latest + 1 => k = 0
        BY <1>0, <2>1
      <4> HIDE DEF F
      <4> QED
        BY <1>3, <2>2, <4>1, <4>2
    <3> HIDE DEF F
    <3> QED
      BY <2>1, <3>1, <3>2
  <2>4. /\ u = [j \in 1..(k + 1) |-> Row(n + j - 1, IF n + j - 1 = n THEN idx ELSE 0)]
        /\ v = [j \in 1..k |-> Row((n + 1) + j - 1, IF (n + 1) + j - 1 = n + 1 THEN 0 ELSE 0)]
    BY <2>1, <2>2
  <2> HIDE DEF F
  <2>5. \A j \in 1..k : u[j + 1] = v[j]
    <3> SUFFICES ASSUME NEW j \in 1..k PROVE u[j + 1] = v[j]
      OBVIOUS
    <3>1. j + 1 \in 1..(k + 1) /\ n + (j + 1) - 1 = (n + 1) + j - 1 /\ n + (j + 1) - 1 # n
      BY <2>2
    <3>2. u[j + 1] = Row((n + 1) + j - 1, 0)
      BY <2>4, <3>1
    <3> QED
      BY <2>4, <3>2
  <2>6. u[1] = Row(n, idx)
    <3>1. 1 \in 1..(k + 1) /\ n + 1 - 1 = n
      BY <2>2
    <3> QED
      BY <2>4, <3>1
  <2>7. u[1] \in Seq(Places) /\ u = <<u[1]>> \o v
    BY <2>3, <2>5, ConsIs
  <2>8. FlattenSeq(u) = u[1] \o FlattenSeq(v)
    BY <2>3, <2>7, FlattenCons
  <2> QED
    BY <1>2, <2>1, <2>6, <2>8
<1>5. ASSUME n > Latest PROVE At(n, idx) = <<>>
  <2>1. F(n, idx) = <<>>
    BY <1>3, <1>5
  <2> HIDE DEF F
  <2> QED
    BY <1>2, <2>1, FlattenNone
<1> HIDE DEF F
<1> QED
  BY <1>1, <1>4, <1>5

\* The positions from a transaction on: it, and those after it.
LEMMA AtIs ==
    ASSUME ChainInv, NEW n \in Nat, NEW idx \in Nat
    PROVE  /\ At(n, idx) \in Seq(Places)
           /\ n <= Latest /\ idx < Len(Block(n)) => At(n, idx) = <<<<n, idx>>>> \o At(n, idx + 1)
           /\ n <= Latest /\ ~(idx < Len(Block(n))) => At(n, idx) = At(n + 1, 0)
           /\ n > Latest => At(n, idx) = <<>>
<1>1. ASSUME NEW m \in Nat, NEW i \in Nat PROVE At(m, i) \in Seq(Places)
  BY AtRow
<1>4. ASSUME n <= Latest PROVE At(n, idx) = Row(n, idx) \o At(n + 1, 0)
  BY <1>4, AtRow
<1>5. ASSUME n > Latest PROVE At(n, idx) = <<>>
  BY <1>5, AtRow
<1>6. ASSUME n <= Latest, idx < Len(Block(n)) PROVE At(n, idx) = <<<<n, idx>>>> \o At(n, idx + 1)
  <2>1. PICK r, s, more : r = Row(n, idx) /\ s = Row(n, idx + 1) /\ more = At(n + 1, 0)
    OBVIOUS
  <2>2. idx + 1 \in Nat /\ n + 1 \in Nat /\ 0 \in Nat
    OBVIOUS
  <2>3. r = <<<<n, idx>>>> \o s
    BY <1>6, <2>1, RowIs
  <2>4. s \in Seq(Places) /\ more \in Seq(Places)
    <3>1. Row(n, idx + 1) \in Seq(Places)
      BY <1>6, <2>2, RowIs
    <3>2. At(n + 1, 0) \in Seq(Places)
      BY <1>1, <2>2
    <3> QED
      BY <2>1, <3>1, <3>2
  <2>5. <<<<n, idx>>>> \in Seq(Places)
    <3>1. <<n, idx>> \in Places
      BY <1>6 DEF Places
    <3> QED
      BY <3>1
  <2>6. (<<<<n, idx>>>> \o s) \o more = <<<<n, idx>>>> \o (s \o more)
    BY <2>4, <2>5, Associate
  <2>7. At(n, idx) = r \o more
    BY <1>4, <1>6, <2>1
  <2>8. At(n, idx + 1) = s \o more
    <3>1. ASSUME NEW i \in Nat PROVE At(n, i) = Row(n, i) \o At(n + 1, 0)
      BY <1>6, AtRow
    <3> QED
      BY <2>1, <2>2, <3>1
  <2> QED
    BY <2>3, <2>6, <2>7, <2>8
<1>7. ASSUME n <= Latest, ~(idx < Len(Block(n))) PROVE At(n, idx) = At(n + 1, 0)
  <2>1. Row(n, idx) = <<>>
    BY <1>7, RowIs
  <2>2. At(n + 1, 0) \in Seq(Places)
    BY <1>1
  <2>3. <<>> \o At(n + 1, 0) = At(n + 1, 0)
    BY <2>2, ConcatEmptySeq
  <2> QED
    BY <1>4, <1>7, <2>1, <2>3
<1> QED
  BY <1>1, <1>5, <1>6, <1>7

-----------------------------------------------------------------------------
(* A page is filled, position by position *)

\* From transaction idx of block n on there is nothing, or the first transaction there is at p.
LeadsTo(n, idx, c, p) ==
    /\ p \in Places
    /\ At(n, idx) = <<p>> \o At(p[1], p[2] + 1)
    /\ EventsFrom(n, idx, c) = EventsFrom(p[1], p[2], c)
    /\ p = <<n, idx>> \/ (p[1] > n /\ ~(n <= Latest /\ idx < Len(Block(n))))
Skips(n, idx, c) ==
    \/ At(n, idx) = <<>> /\ EventsFrom(n, idx, c) = <<>> /\ ~(n <= Latest /\ idx < Len(Block(n)))
    \/ \E p : LeadsTo(n, idx, c, p)

\* Blocks with no transaction left are skipped.
LEMMA SkipBlocks ==
    ASSUME ChainInv, NEW n \in Nat, NEW idx \in Nat, NEW c \in Contracts
    PROVE  Skips(n, idx, c)
<1>0. Latest \in Nat
  BY PendingCursors
<1> DEFINE N == {d \in Nat : \A m, i \in Nat : Latest + 1 <= m + d => Skips(m, i, c)}
<1>1. ASSUME NEW m \in Nat, NEW i \in Nat, m > Latest PROVE Skips(m, i, c)
  <2>1. At(m, i) = <<>>
    BY <1>1, AtIs
  <2>2. EventsFrom(m, i, c) = <<>>
    BY <1>1, EventsFromIs
  <2>3. ~(m <= Latest)
    BY <1>0, <1>1
  <2> QED
    BY <2>1, <2>2, <2>3 DEF Skips
<1>2. 0 \in N
  <2>1. \A m \in Nat : Latest + 1 <= m + 0 => m > Latest
    BY <1>0
  <2> QED
    BY <1>1, <2>1
<1>3. ASSUME NEW d \in Nat, d \in N PROVE d + 1 \in N
  <2> SUFFICES ASSUME NEW m \in Nat, NEW i \in Nat, Latest + 1 <= m + (d + 1) PROVE Skips(m, i, c)
    OBVIOUS
  <2>1. CASE m > Latest
    BY <1>1, <2>1
  <2>2. CASE m <= Latest /\ i < Len(Block(m))
    <3>1. PICK p : p = <<m, i>>
      OBVIOUS
    <3>2. p \in Places /\ p[1] = m /\ p[2] = i
      BY <2>2, <3>1 DEF Places
    <3>3. At(m, i) = <<<<m, i>>>> \o At(m, i + 1)
      BY <2>2, AtIs
    <3>4. LeadsTo(m, i, c, p)
      BY <3>1, <3>2, <3>3 DEF LeadsTo
    <3> QED
      BY <3>4 DEF Skips
  <2>3. CASE m <= Latest /\ ~(i < Len(Block(m)))
    <3>1. m + 1 \in Nat /\ 0 \in Nat /\ Latest + 1 <= (m + 1) + d
      BY <1>0
    <3>2. Skips(m + 1, 0, c)
      BY <1>3, <3>1
    <3>3. At(m, i) = At(m + 1, 0)
      BY <2>3, AtIs
    <3>4. EventsFrom(m, i, c) = EventsFrom(m + 1, 0, c)
      BY <2>3, EventsFromIs
    <3>5. CASE At(m + 1, 0) = <<>> /\ EventsFrom(m + 1, 0, c) = <<>>
      BY <2>3, <3>3, <3>4, <3>5 DEF Skips
    <3>6. CASE \E p : LeadsTo(m + 1, 0, c, p)
      <4>1. PICK p : LeadsTo(m + 1, 0, c, p)
        BY <3>6
      <4>2. p \in Places /\ (p = <<m + 1, 0>> \/ p[1] > m + 1)
        BY <4>1 DEF LeadsTo
      <4>3. p[1] > m
        <5>1. p[1] \in Nat
          BY <4>2 DEF Places
        <5> QED
          BY <4>2, <5>1
      <4>4. LeadsTo(m, i, c, p)
        BY <2>3, <3>3, <3>4, <4>1, <4>3 DEF LeadsTo
      <4> QED
        BY <4>4 DEF Skips
    <3> QED
      BY <3>2, <3>5, <3>6 DEF Skips
  <2> QED
    BY <1>0, <2>1, <2>2, <2>3
<1>4. \A d \in Nat : d \in N => d + 1 \in N
  BY <1>3
<1>5. Nat \subseteq N
  <2> HIDE DEF N
  <2> QED
    BY <1>2, <1>4, SetInduction
<1>6. Latest + 1 \in Nat /\ Latest + 1 <= n + (Latest + 1)
  BY <1>0
<1> QED
  BY <1>5, <1>6

\* Where the reader of the positions P from transaction idx of block n on is after k of them.
After(P, k, n, idx) == IF k = 0 THEN <<n, idx>> ELSE <<P[k][1], P[k][2] + 1>>
Reached(P, k, n, idx) ==
    LET q == After(P, k, n, idx)
    IN  /\ q \in Nat \X Nat /\ Drop(P, k) = At(q[1], q[2])
        /\ q[1] > n \/ (q[1] = n /\ q[2] >= idx /\ (k # 0 => q[2] > idx))

\* The reader goes from position to position.
LEMMA ReachesAll ==
    ASSUME ChainInv, NEW n \in Nat, NEW idx \in Nat, NEW P, P = At(n, idx)
    PROVE  P \in Seq(Places) /\ Len(P) \in Nat /\ \A k \in 0..Len(P) : Reached(P, k, n, idx)
<1>1. PICK len : len = Len(P)
  OBVIOUS
<1>2. P \in Seq(Places) /\ len \in Nat
  <2>1. P \in Seq(Places)
    BY AtIs
  <2> QED
    BY <1>1, <2>1
<1>7. ASSUME NEW m \in Nat, m <= len
      PROVE  /\ Drop(P, m) \in Seq(Places) /\ Len(Drop(P, m)) = len - m
             /\ \A i \in 1..(len - m) : Drop(P, m)[i] = P[m + i]
  <2>1. Drop(P, m) \in Seq(Places)
    BY <1>2, DropIs
  <2>2. Len(Drop(P, m)) = len - m
    BY <1>1, <1>2, <1>7, DropIs
  <2>3. \A i \in 1..(Len(P) - m) : Drop(P, m)[i] = P[m + i]
    BY <1>2, DropIs
  <2> QED
    BY <1>1, <2>1, <2>2, <2>3
<1> DEFINE N == {k \in Nat : k <= len => Reached(P, k, n, idx)}
<1>3. 0 \in N
  <2>1. Drop(P, 0) = P
    BY <1>2, DropIs
  <2> QED
    BY <2>1 DEF Reached, After
<1>4. ASSUME NEW k \in Nat, k \in N PROVE k + 1 \in N
  <2> SUFFICES ASSUME k + 1 <= len PROVE Reached(P, k + 1, n, idx)
    OBVIOUS
  <2>1. PICK q, r : q = After(P, k, n, idx) /\ r = P[k + 1]
    OBVIOUS
  <2>2. /\ q \in Nat \X Nat /\ Drop(P, k) = At(q[1], q[2])
        /\ q[1] > n \/ (q[1] = n /\ q[2] >= idx)
    BY <1>2, <1>4, <2>1 DEF Reached
  <2>3. /\ Drop(P, k) \in Seq(Places) /\ Len(Drop(P, k)) = len - k
        /\ \A i \in 1..(len - k) : Drop(P, k)[i] = P[k + i]
    <3>1. k <= len
      BY <1>2
    <3> QED
      BY <1>7, <3>1
  <2>4. /\ Drop(P, k + 1) \in Seq(Places) /\ Len(Drop(P, k + 1)) = len - (k + 1)
        /\ \A i \in 1..(len - (k + 1)) : Drop(P, k + 1)[i] = P[(k + 1) + i]
    <3>1. PICK m : m = k + 1
      OBVIOUS
    <3>2. m \in Nat /\ m <= len
      BY <3>1
    <3>3. /\ Drop(P, m) \in Seq(Places) /\ Len(Drop(P, m)) = len - m
          /\ \A i \in 1..(len - m) : Drop(P, m)[i] = P[m + i]
      BY <1>7, <3>2
    <3> QED
      BY <3>1, <3>3
  <2>5. At(q[1], q[2]) # <<>>
    BY <1>2, <2>2, <2>3
  <2>6. PICK c \in Contracts : TRUE
    BY IndexerAssumption
  <2>7. PICK p : LeadsTo(q[1], q[2], c, p)
    <3>1. Skips(q[1], q[2], c)
      BY <2>2, SkipBlocks
    <3> QED
      BY <2>5, <3>1 DEF Skips
  <2>8. /\ p \in Places /\ At(q[1], q[2]) = <<p>> \o At(p[1], p[2] + 1)
        /\ p = <<q[1], q[2]>> \/ p[1] > q[1]
    BY <2>7 DEF LeadsTo
  <2>9. p[1] \in Nat /\ p[2] \in Nat /\ p[2] + 1 \in Nat
    BY <2>8 DEF Places
  <2>10. PICK d, e, rest : d = Drop(P, k) /\ e = Drop(P, k + 1) /\ rest = At(p[1], p[2] + 1)
    OBVIOUS
  <2>11. rest \in Seq(Places) /\ d = <<p>> \o rest /\ d \in Seq(Places) /\ e \in Seq(Places)
    BY <2>2, <2>3, <2>4, <2>8, <2>9, <2>10, AtIs
  <2>12. d[1] = p /\ Len(d) = Len(rest) + 1 /\ \A i \in 1..Len(rest) : d[i + 1] = rest[i]
    BY <2>8, <2>11
  <2>13. d[1] = P[k + 1]
    BY <1>2, <2>3, <2>10
  <2>14. e = rest
    <3>1. Len(e) = Len(rest) /\ Len(rest) = len - (k + 1)
      BY <1>2, <2>3, <2>4, <2>10, <2>11, <2>12
    <3>2. ASSUME NEW i \in 1..Len(rest) PROVE e[i] = rest[i]
      <4>1. i + 1 \in 1..(len - k) /\ i \in 1..(len - (k + 1)) /\ k + (i + 1) = (k + 1) + i
        BY <1>2, <3>1
      <4>2. d[i + 1] = P[k + (i + 1)] /\ e[i] = P[(k + 1) + i]
        BY <2>3, <2>4, <2>10, <4>1
      <4> QED
        BY <2>12, <4>1, <4>2
    <3> QED
      BY <2>11, <3>1, <3>2
  <2>15. After(P, k + 1, n, idx) = <<p[1], p[2] + 1>>
    BY <2>12, <2>13 DEF After
  <2>16. p[1] > n \/ (p[1] = n /\ p[2] + 1 > idx)
    <3>1. q[1] \in Nat /\ q[2] \in Nat
      BY <2>2
    <3>2. CASE p = <<q[1], q[2]>>
      BY <2>2, <2>9, <3>1, <3>2
    <3>3. CASE p[1] > q[1]
      BY <2>2, <2>9, <3>1, <3>3
    <3> QED
      BY <2>8, <3>2, <3>3
  <2> QED
    BY <2>9, <2>10, <2>14, <2>15, <2>16 DEF Reached
<1>5. \A k \in Nat : k \in N => k + 1 \in N
  BY <1>4
<1>6. Nat \subseteq N
  <2> HIDE DEF N
  <2> QED
    BY <1>3, <1>5, SetInduction
<1> QED
  BY <1>1, <1>2, <1>6

Onward(P, k, n, idx, c, q) ==
    /\ q \in Nat \X Nat
    /\ k < Len(P) => LeadsTo(q[1], q[2], c, P[k + 1]) /\ (k # 0 => P[k + 1] # <<n, idx>>)
    /\ k = Len(P) => EventsFrom(q[1], q[2], c) = <<>> /\ ~(q[1] <= Latest /\ q[2] < Len(Block(q[1])))

\* The next position, if there is one.
LEMMA NextPosition ==
    ASSUME ChainInv, NEW n \in Nat, NEW idx \in Nat, NEW P, P = At(n, idx),
           NEW k \in 0..Len(P), NEW c \in Contracts, NEW q, q = After(P, k, n, idx)
    PROVE  Onward(P, k, n, idx, c, q)
<1>1. PICK len : len = Len(P)
  OBVIOUS
<1>2. P \in Seq(Places) /\ len \in Nat /\ Reached(P, k, n, idx)
  BY <1>1, ReachesAll
<1>3. /\ q \in Nat \X Nat /\ Drop(P, k) = At(q[1], q[2])
      /\ q[1] > n \/ (q[1] = n /\ q[2] >= idx /\ (k # 0 => q[2] > idx))
  BY <1>2 DEF Reached
<1>4. k \in Nat /\ k <= len /\ Skips(q[1], q[2], c)
  BY <1>1, <1>2, <1>3, SkipBlocks
<1>5. /\ Drop(P, k) \in Seq(Places) /\ Len(Drop(P, k)) = len - k
      /\ \A i \in 1..(len - k) : Drop(P, k)[i] = P[k + i]
  BY <1>1, <1>2, <1>4, DropIs
<1>6. ASSUME NEW p, LeadsTo(q[1], q[2], c, p)
      PROVE  k < len /\ p = P[k + 1] /\ (k # 0 => p # <<n, idx>>)
  <2>1. /\ p \in Places /\ At(q[1], q[2]) = <<p>> \o At(p[1], p[2] + 1)
        /\ p = <<q[1], q[2]>> \/ p[1] > q[1]
    BY <1>6 DEF LeadsTo
  <2>2. p[1] \in Nat /\ p[2] + 1 \in Nat
    BY <2>1 DEF Places
  <2>3. PICK d, rest : d = Drop(P, k) /\ rest = At(p[1], p[2] + 1)
    OBVIOUS
  <2>4. rest \in Seq(Places) /\ d = <<p>> \o rest
    BY <1>3, <2>1, <2>2, <2>3, AtIs
  <2>5. Len(d) > 0 /\ d[1] = p
    BY <2>1, <2>4
  <2>6. k < len
    BY <1>2, <1>4, <1>5, <2>3, <2>5
  <2>7. d[1] = P[k + 1]
    BY <1>2, <1>4, <1>5, <2>3, <2>6
  <2>8. ASSUME k # 0, p = <<n, idx>> PROVE FALSE
    <3>1. q[1] \in Nat /\ q[2] \in Nat /\ p[1] = n /\ p[2] = idx
      BY <1>3, <2>8
    <3> QED
      BY <1>3, <2>1, <2>8, <3>1
  <2> QED
    BY <2>5, <2>6, <2>7, <2>8
<1>7. ASSUME k = len, NEW p, LeadsTo(q[1], q[2], c, p) PROVE FALSE
  BY <1>2, <1>6, <1>7
<1>8. ASSUME k < len, At(q[1], q[2]) = <<>> PROVE FALSE
  BY <1>2, <1>3, <1>4, <1>5, <1>8
<1> QED
  BY <1>1, <1>3, <1>4, <1>6, <1>7, <1>8 DEF Skips, Onward

\* The event of the transaction at p that a reader with this cursor begins with.
Enters(p, cursor) == IF p = <<cursor.block, cursor.idx>> THEN cursor.event ELSE 0
Adds(page, p, c, chunk, buffer, next) ==
    \/ page.cursor = None /\ page.buffer = buffer \o Drop(Content(p, c), next)
    \/ \E e \in Nat :
          /\ page.cursor = {Cursor(p[1], p[2], e)} /\ Len(page.buffer) >= chunk
          /\ page.buffer \o Drop(Content(p, c), e) = buffer \o Drop(Content(p, c), next)

\* The transaction at p adds to a page all that is left of it, or the page ends in it.
LEMMA FetchAtExact ==
    ASSUME ChainInv, NEW c \in Contracts, NEW chunk \in Nat \ {0}, NEW cursor \in Cursors,
           NEW acc \in Pages, acc.cursor = None, NEW p \in Places
    PROVE  Adds(FetchAt(c, chunk, cursor, acc, p), p, c, chunk, acc.buffer, Enters(p, cursor))
<1>0. PICK next : next = Enters(p, cursor)
  OBVIOUS
<1>1. PICK tx, all, b : tx = Block(p[1])[p[2] + 1] /\ all = Content(p, c) /\ b = acc.buffer
  OBVIOUS
<1>2. /\ tx \in MinedTxs /\ p[1] \in -1..MaxBlocks /\ all \in Seq(PageEvents)
      /\ Len(tx.events) \in Nat /\ Len(all) <= Len(tx.events)
  BY <1>1, ContentType
<1>3. tx.hash \in 1..MaxTxs /\ tx.events \in Shapes /\ all = Filtered(tx, p[1], c)
  BY <1>1, <1>2 DEF MinedTxs, Content
<1>4. b \in Seq(PageEvents) /\ cursor.event \in Nat /\ next \in Nat
  BY <1>0, <1>1 DEF Pages, Cursors, Enters
<1>5. p = <<cursor.block, cursor.idx>> <=> p[1] = cursor.block /\ p[2] = cursor.idx
  BY DEF Places
<1>6. PICK fetched : fetched = FetchTxEvents(next, p[1], tx, c, chunk, b)
  OBVIOUS
<1>7. Takes(fetched, all, chunk, b, next)
  BY <1>2, <1>3, <1>4, <1>6, FetchTxExact
<1>8. PICK page : page = FetchAt(c, chunk, cursor, acc, p)
  OBVIOUS
<1>9. CASE p = <<cursor.block, cursor.idx>> /\ cursor.event >= Len(tx.events)
  <2>1. page = acc
    BY <1>1, <1>5, <1>8, <1>9 DEF FetchAt
  <2>2. Drop(all, next) = <<>>
    <3>1. next >= Len(all) /\ Len(all) \in Nat
      BY <1>0, <1>2, <1>4, <1>9 DEF Enters
    <3> QED
      BY <1>2, <1>4, <3>1, DropNone
  <2>3. b \o <<>> = b
    BY <1>4, ConcatEmptySeq
  <2> QED
    BY <1>0, <1>1, <1>8, <2>1, <2>2, <2>3 DEF Adds
<1>10. CASE ~(p = <<cursor.block, cursor.idx>> /\ cursor.event >= Len(tx.events))
  <2>1. page = [buffer |-> fetched.buffer, cursor |-> {Cursor(p[1], p[2], e) : e \in fetched.event}]
    BY <1>0, <1>1, <1>5, <1>6, <1>8, <1>10 DEF FetchAt, Enters
  <2>2. page.buffer = fetched.buffer /\ page.cursor = {Cursor(p[1], p[2], e) : e \in fetched.event}
    BY <2>1
  <2>3. CASE fetched.event = None /\ fetched.buffer = b \o Drop(all, next)
    BY <1>0, <1>1, <1>8, <2>2, <2>3 DEF None, Adds
  <2>4. CASE \E e \in Nat :
                /\ fetched.event = {e} /\ Len(fetched.buffer) >= chunk
                /\ fetched.buffer \o Drop(all, e) = b \o Drop(all, next)
    <3>1. PICK e \in Nat : /\ fetched.event = {e} /\ Len(fetched.buffer) >= chunk
                           /\ fetched.buffer \o Drop(all, e) = b \o Drop(all, next)
      BY <2>4
    <3>2. page.cursor = {Cursor(p[1], p[2], e)}
      BY <2>2, <3>1
    <3> QED
      BY <1>0, <1>1, <1>8, <2>2, <3>1, <3>2 DEF Adds
  <2> QED
    BY <1>7, <2>3, <2>4 DEF Takes
<1> QED
  BY <1>9, <1>10

\* A page of the events of c from a cursor on: all of them, or the token is where they go on.
Ends(page, chunk, q, cursor, c) ==
    /\ q \in Cursors /\ q.block <= Latest /\ page.cursor = {q} /\ Len(page.buffer) >= chunk
    /\ page.buffer \o Rest(q, c) = Rest(cursor, c)
ReadsOn(page, chunk, cursor, c) ==
    \/ page.cursor = None /\ page.buffer = Rest(cursor, c)
    \/ \E q : Ends(page, chunk, q, cursor, c)

\* The events after a cursor.
LEMMA RestIs ==
    ASSUME ChainInv, NEW q \in Cursors, NEW c \in Contracts
    PROVE  /\ q.block \in Nat /\ q.idx \in Nat /\ q.event \in Nat
           /\ Rest(q, c) \in Seq(PageEvents)
           /\ q.block <= Latest /\ q.idx < Len(Block(q.block)) =>
                Rest(q, c) = Drop(Content(<<q.block, q.idx>>, c), q.event)
                             \o EventsFrom(q.block, q.idx + 1, c)
           /\ ~(q.block <= Latest /\ q.idx < Len(Block(q.block))) =>
                Rest(q, c) = EventsFrom(q.block, q.idx, c)
<1>1. q.block \in Nat /\ q.idx \in Nat /\ q.event \in Nat
  BY DEF Cursors
<1>2. ASSUME q.block <= Latest, q.idx < Len(Block(q.block)) PROVE Rest(q, c) \in Seq(PageEvents)
  <2>1. <<q.block, q.idx>> \in Places
    BY <1>1, <1>2 DEF Places
  <2>2. PICK d, e : d = Drop(Content(<<q.block, q.idx>>, c), q.event) /\ e = EventsFrom(q.block, q.idx + 1, c)
    OBVIOUS
  <2>3. Content(<<q.block, q.idx>>, c) \in Seq(PageEvents)
    BY <2>1, ContentType
  <2>4. d \in Seq(PageEvents)
    BY <1>1, <2>2, <2>3, DropIs
  <2>5. q.idx + 1 \in Nat
    BY <1>1
  <2>6. e \in Seq(PageEvents)
    BY <1>1, <2>2, <2>5, EventsFromIs
  <2>7. Rest(q, c) = d \o e
    BY <1>2, <2>2 DEF Rest
  <2> QED
    BY <2>4, <2>6, <2>7
<1>3. ASSUME ~(q.block <= Latest /\ q.idx < Len(Block(q.block))) PROVE Rest(q, c) \in Seq(PageEvents)
  <2>1. EventsFrom(q.block, q.idx, c) \in Seq(PageEvents)
    BY <1>1, EventsFromIs
  <2> QED
    BY <1>3, <2>1 DEF Rest
<1> QED
  BY <1>1, <1>2, <1>3 DEF Rest

\* What is still to be read after k of the positions P.
Ahead(P, k, cursor, c) ==
    IF k = 0 THEN Rest(cursor, c)
    ELSE EventsFrom(After(P, k, cursor.block, cursor.idx)[1],
                    After(P, k, cursor.block, cursor.idx)[2], c)
PageSoFar(page, P, k, chunk, cursor, c) ==
    \/ page.cursor = None /\ page.buffer \o Ahead(P, k, cursor, c) = Rest(cursor, c)
    \/ \E q : Ends(page, chunk, q, cursor, c)

\* What is still to be read begins with what is left of the transaction at the next position.
LEMMA AheadIs ==
    ASSUME ChainInv, NEW c \in Contracts, NEW cursor \in Cursors,
           NEW P, P = At(cursor.block, cursor.idx), NEW k \in 0..Len(P)
    PROVE  /\ Ahead(P, k, cursor, c) \in Seq(PageEvents)
           /\ k < Len(P) =>
                /\ P[k + 1] \in Places
                /\ Ahead(P, k, cursor, c)
                   = Drop(Content(P[k + 1], c), Enters(P[k + 1], cursor)) \o Ahead(P, k + 1, cursor, c)
           /\ k = Len(P) => Ahead(P, k, cursor, c) = <<>>
<1>1. PICK n, idx : n = cursor.block /\ idx = cursor.idx
  OBVIOUS
<1>2. n \in Nat /\ idx \in Nat /\ cursor.event \in Nat /\ Rest(cursor, c) \in Seq(PageEvents)
  BY <1>1, RestIs
<1>3. P = At(n, idx)
  BY <1>1
<1>4. P \in Seq(Places) /\ Len(P) \in Nat
  BY <1>2, <1>3, ReachesAll
<1>5. PICK q : q = After(P, k, n, idx)
  OBVIOUS
<1>6. /\ q \in Nat \X Nat
      /\ k < Len(P) => LeadsTo(q[1], q[2], c, P[k + 1]) /\ (k # 0 => P[k + 1] # <<n, idx>>)
      /\ k = Len(P) => EventsFrom(q[1], q[2], c) = <<>>
                       /\ ~(q[1] <= Latest /\ q[2] < Len(Block(q[1])))
  <2>1. Onward(P, k, n, idx, c, q)
    BY <1>2, <1>3, <1>5, NextPosition
  <2> QED
    BY <2>1 DEF Onward
<1>7. EventsFrom(q[1], q[2], c) \in Seq(PageEvents)
  BY <1>6, EventsFromIs
<1>8. Ahead(P, k, cursor, c) = IF k = 0 THEN Rest(cursor, c) ELSE EventsFrom(q[1], q[2], c)
  BY <1>1, <1>5 DEF Ahead
<1>9. k = 0 => q = <<n, idx>> /\ q[1] = n /\ q[2] = idx
  BY <1>5 DEF After
<1>10. k = 0 /\ ~(n <= Latest /\ idx < Len(Block(n))) => Rest(cursor, c) = EventsFrom(n, idx, c)
  BY <1>1 DEF Rest
<1>11. ASSUME k < Len(P)
       PROVE  /\ P[k + 1] \in Places
              /\ Ahead(P, k, cursor, c)
                 = Drop(Content(P[k + 1], c), Enters(P[k + 1], cursor)) \o Ahead(P, k + 1, cursor, c)
  <2>1. PICK p : p = P[k + 1]
    OBVIOUS
  <2>2. LeadsTo(q[1], q[2], c, p) /\ (k # 0 => p # <<n, idx>>)
    BY <1>6, <1>11, <2>1
  <2>3. /\ p \in Places /\ EventsFrom(q[1], q[2], c) = EventsFrom(p[1], p[2], c)
        /\ p = <<q[1], q[2]>> \/ ~(q[1] <= Latest /\ q[2] < Len(Block(q[1])))
        /\ p = <<q[1], q[2]>> \/ p[1] > q[1]
    BY <2>2 DEF LeadsTo
  <2>4. p[1] \in Nat /\ p[2] \in Nat /\ p[1] <= Latest /\ p[2] < Len(Block(p[1])) /\ p = <<p[1], p[2]>>
    BY <2>3 DEF Places
  <2>5. k + 1 # 0 /\ After(P, k + 1, n, idx) = <<p[1], p[2] + 1>>
    BY <2>1 DEF After
  <2>6. Ahead(P, k + 1, cursor, c) = EventsFrom(p[1], p[2] + 1, c)
    BY <1>1, <2>5 DEF Ahead
  <2>7. CASE k = 0 /\ p = <<n, idx>>
    <3>1. Rest(cursor, c) = Drop(Content(<<n, idx>>, c), cursor.event) \o EventsFrom(n, idx + 1, c)
      <4>1. n <= Latest /\ idx < Len(Block(n))
        BY <2>4, <2>7
      <4> QED
        BY <1>1, <4>1 DEF Rest
    <3>2. Enters(p, cursor) = cursor.event
      BY <1>1, <2>7 DEF Enters
    <3>3. p[1] = n /\ p[2] = idx
      BY <2>7
    <3> QED
      BY <1>8, <2>1, <2>3, <2>6, <2>7, <3>1, <3>2, <3>3
  <2>8. CASE p # <<n, idx>>
    <3>1. Ahead(P, k, cursor, c) = EventsFrom(q[1], q[2], c)
      BY <1>8, <1>9, <1>10, <2>3, <2>8
    <3>2. Enters(p, cursor) = 0
      BY <1>1, <2>8 DEF Enters
    <3>3. EventsFrom(p[1], p[2], c) = Content(<<p[1], p[2]>>, c) \o EventsFrom(p[1], p[2] + 1, c)
      BY <2>4, EventsFromIs
    <3>4. Drop(Content(p, c), 0) = Content(p, c)
      <4>1. Content(p, c) \in Seq(PageEvents)
        BY <2>3, ContentType
      <4> QED
        BY <4>1, DropIs
    <3> QED
      BY <2>1, <2>3, <2>4, <2>6, <3>1, <3>2, <3>3, <3>4
  <2> QED
    BY <2>2, <2>7, <2>8
<1>12. ASSUME k = Len(P) PROVE Ahead(P, k, cursor, c) = <<>>
  <2>1. EventsFrom(q[1], q[2], c) = <<>> /\ ~(q[1] <= Latest /\ q[2] < Len(Block(q[1])))
    BY <1>6, <1>12
  <2>2. CASE k = 0
    BY <1>8, <1>9, <1>10, <2>1, <2>2
  <2>3. CASE k # 0
    BY <1>8, <2>1, <2>3
  <2> QED
    BY <2>2, <2>3
<1>13. Ahead(P, k, cursor, c) \in Seq(PageEvents)
  BY <1>2, <1>7, <1>8
<1> QED
  BY <1>11, <1>12, <1>13

\* A page of the mined blocks from a cursor on is exact: it is all there is, or what follows its
\* token is what is missing.
LEMMA PageExact ==
    ASSUME ChainInv, NEW c \in Contracts, NEW chunk \in Nat \ {0}, NEW cursor \in Cursors
    PROVE  ReadsOn(FetchEventsAtBlocks(c, chunk, cursor, Latest), chunk, cursor, c)
<1>1. PICK n, idx, P : n = cursor.block /\ idx = cursor.idx /\ P = At(n, idx)
  OBVIOUS
<1>2. n \in Nat /\ idx \in Nat /\ P = Positions(cursor, Latest)
  BY <1>1 DEF Cursors, At, Positions, Cursor
<1>3. P \in Seq(Places) /\ Len(P) \in Nat
  BY <1>1, <1>2, ReachesAll
<1>4. PICK a : /\ Filled(a, c, chunk, cursor, P)
               /\ FetchEventsAtBlocks(c, chunk, cursor, Latest) = a[Len(P)]
  BY <1>2, FetchEventsSteps
<1>5. /\ a[0] = [buffer |-> <<>>, cursor |-> None]
      /\ \A k \in 0..Len(P) : a[k] \in Pages
      /\ \A k \in 1..Len(P) : a[k] = FetchAt(c, chunk, cursor, a[k - 1], P[k])
  BY <1>4 DEF Filled
<1>6. PICK all : all = Rest(cursor, c)
  OBVIOUS
<1>7. all \in Seq(PageEvents)
  BY <1>6, RestIs
<1>8. P = At(cursor.block, cursor.idx)
  BY <1>1
<1> DEFINE N == {k \in Nat : k <= Len(P) => PageSoFar(a[k], P, k, chunk, cursor, c)}
<1>9. 0 \in N
  <2>1. a[0].buffer = <<>> /\ a[0].cursor = None
    BY <1>5
  <2>2. <<>> \o all = all
    BY <1>7, ConcatEmptySeq
  <2>3. Ahead(P, 0, cursor, c) = all
    BY <1>6 DEF Ahead
  <2> QED
    BY <1>6, <2>1, <2>2, <2>3 DEF PageSoFar
<1>10. ASSUME NEW k \in Nat, k \in N PROVE k + 1 \in N
  <2> SUFFICES ASSUME k + 1 <= Len(P) PROVE PageSoFar(a[k + 1], P, k + 1, chunk, cursor, c)
    OBVIOUS
  <2>1. k \in 0..Len(P) /\ k + 1 \in 1..Len(P) /\ k < Len(P) /\ (k + 1) - 1 = k /\ k + 1 \in 0..Len(P)
    BY <1>3
  <2>2. PICK x, y, p : x = a[k] /\ y = a[k + 1] /\ p = P[k + 1]
    OBVIOUS
  <2>3. x \in Pages /\ y \in Pages /\ y = FetchAt(c, chunk, cursor, x, p)
    BY <1>5, <2>1, <2>2
  <2>4. PageSoFar(x, P, k, chunk, cursor, c)
    BY <1>3, <1>10, <2>1, <2>2
  <2>5. CASE \E q : Ends(x, chunk, q, cursor, c)
    <3>1. PICK q : Ends(x, chunk, q, cursor, c)
      BY <2>5
    <3>2. x.cursor # None
      BY <3>1 DEF Ends, None
    <3>3. y = x
      BY <2>3, <3>2 DEF FetchAt
    <3> QED
      BY <2>2, <3>1, <3>3 DEF PageSoFar
  <2>6. CASE x.cursor = None /\ x.buffer \o Ahead(P, k, cursor, c) = all
    <3>1. PICK d, more, e0 : d = Content(p, c) /\ more = Ahead(P, k + 1, cursor, c) /\ e0 = Enters(p, cursor)
      OBVIOUS
    <3>2. p \in Places /\ Ahead(P, k, cursor, c) = Drop(d, e0) \o more
      BY <1>8, <2>1, <2>2, <3>1, AheadIs
    <3>3. more \in Seq(PageEvents)
      BY <1>8, <2>1, <3>1, AheadIs
    <3>4. d \in Seq(PageEvents) /\ e0 \in Nat
      BY <3>1, <3>2, ContentType DEF Enters, Cursors
    <3>5. Drop(d, e0) \in Seq(PageEvents) /\ x.buffer \in Seq(PageEvents) /\ y.buffer \in Seq(PageEvents)
      <4>1. Drop(d, e0) \in Seq(PageEvents)
        BY <3>4, DropIs
      <4> QED
        BY <2>3, <4>1 DEF Pages
    <3>6. Adds(y, p, c, chunk, x.buffer, e0)
      BY <2>3, <2>6, <3>1, <3>2, FetchAtExact
    <3>7. (x.buffer \o Drop(d, e0)) \o more = all
      <4>1. PICK s, t : s = x.buffer /\ t = Drop(d, e0)
        OBVIOUS
      <4>2. s \in Seq(PageEvents) /\ t \in Seq(PageEvents)
        BY <3>5, <4>1
      <4>3. (s \o t) \o more = s \o (t \o more)
        BY ONLY <3>3, <4>2, Associate
      <4> QED
        BY <2>6, <3>2, <4>1, <4>3
    <3>8. CASE y.cursor = None /\ y.buffer = x.buffer \o Drop(d, e0)
      BY <1>6, <2>2, <3>1, <3>7, <3>8 DEF PageSoFar
    <3>9. CASE \E e \in Nat :
                  /\ y.cursor = {Cursor(p[1], p[2], e)} /\ Len(y.buffer) >= chunk
                  /\ y.buffer \o Drop(d, e) = x.buffer \o Drop(d, e0)
      <4>1. PICK e \in Nat : /\ y.cursor = {Cursor(p[1], p[2], e)} /\ Len(y.buffer) >= chunk
                             /\ y.buffer \o Drop(d, e) = x.buffer \o Drop(d, e0)
        BY <3>9
      <4>2. PICK q : q = Cursor(p[1], p[2], e)
        OBVIOUS
      <4>3. p[1] \in Nat /\ p[2] \in Nat /\ p[1] <= Latest /\ p[2] < Len(Block(p[1])) /\ p = <<p[1], p[2]>>
        BY <3>2 DEF Places
      <4>4. q \in Cursors /\ q.block = p[1] /\ q.idx = p[2] /\ q.event = e
        BY <4>2, <4>3 DEF Cursor, Cursors
      <4>5. After(P, k + 1, cursor.block, cursor.idx) = <<p[1], p[2] + 1>>
        BY <2>2 DEF After
      <4>6. more = EventsFrom(p[1], p[2] + 1, c)
        BY <3>1, <4>5 DEF Ahead
      <4>7. Rest(q, c) = Drop(d, e) \o more
        BY <3>1, <4>3, <4>4, <4>6 DEF Rest
      <4>8. y.buffer \o Rest(q, c) = all
        <5>1. PICK s, t : s = y.buffer /\ t = Drop(d, e)
          OBVIOUS
        <5>2. s \in Seq(PageEvents) /\ t \in Seq(PageEvents)
          BY <3>4, <3>5, <5>1, DropIs
        <5>3. (s \o t) \o more = s \o (t \o more)
          BY ONLY <3>3, <5>2, Associate
        <5> QED
          BY <3>7, <4>1, <4>7, <5>1, <5>3
      <4>9. Ends(y, chunk, q, cursor, c)
        BY <1>6, <4>1, <4>2, <4>3, <4>4, <4>8 DEF Ends
      <4> QED
        BY <2>2, <4>9 DEF PageSoFar
    <3> QED
      BY <3>1, <3>6, <3>8, <3>9 DEF Adds
  <2> QED
    BY <1>6, <2>4, <2>5, <2>6 DEF PageSoFar
<1>11. \A k \in Nat : k \in N => k + 1 \in N
  BY <1>10
<1>12. PageSoFar(a[Len(P)], P, Len(P), chunk, cursor, c)
  <2>1. Nat \subseteq N
    <3> HIDE DEF N
    <3> QED
      BY <1>9, <1>11, SetInduction
  <2> QED
    BY <1>3, <2>1
<1>13. PICK page : page = a[Len(P)]
  OBVIOUS
<1>14. page.buffer \in Seq(PageEvents)
  <2>1. Len(P) \in 0..Len(P)
    BY <1>3
  <2> QED
    BY <1>5, <1>13, <2>1 DEF Pages
<1>15. Ahead(P, Len(P), cursor, c) = <<>>
  <2>1. Len(P) \in 0..Len(P)
    BY <1>3
  <2> QED
    BY <1>8, <2>1, AheadIs
<1>16. page.buffer \o <<>> = page.buffer
  BY <1>14, ConcatEmptySeq
<1> QED
  BY <1>4, <1>12, <1>13, <1>15, <1>16 DEF PageSoFar, ReadsOn
\* From the beginning of a block on there is everything.
LEMMA RestStart ==
    ASSUME ChainInv, NEW from \in Nat, NEW c \in Contracts
    PROVE  Rest(Cursor(from, 0, 0), c) = MinedEvents(from, Latest, c)
<1>1. PICK q : q = Cursor(from, 0, 0)
  OBVIOUS
<1>2. q.block = from /\ q.idx = 0 /\ q.event = 0
  BY <1>1 DEF Cursor
<1>3. EventsFrom(from, 0, c) = MinedEvents(from, Latest, c)
  BY EventsFromIs
<1>4. CASE from <= Latest /\ 0 < Len(Block(from))
  <2>1. <<from, 0>> \in Places
    BY <1>4 DEF Places
  <2>2. Content(<<from, 0>>, c) \in Seq(PageEvents)
    BY <2>1, ContentType
  <2>3. Drop(Content(<<from, 0>>, c), 0) = Content(<<from, 0>>, c)
    BY <2>2, DropIs
  <2>4. EventsFrom(from, 0, c) = Content(<<from, 0>>, c) \o EventsFrom(from, 0 + 1, c)
    BY <1>4, EventsFromIs
  <2> QED
    BY <1>1, <1>2, <1>3, <1>4, <2>3, <2>4 DEF Rest
<1>5. CASE ~(from <= Latest /\ 0 < Len(Block(from)))
  BY <1>1, <1>2, <1>3, <1>5 DEF Rest
<1> QED
  BY <1>4, <1>5

-----------------------------------------------------------------------------
(* All pages *)

\* A reader of pages: what it has read, and its token.
Readers == [events : Seq(PageEvents), token : SUBSET Cursors]
ReadPage(c, chunk, acc) ==
    IF acc.token = None THEN acc
    ELSE LET page == FetchEventsAtBlocks(c, chunk, Value(acc.token), Latest)
         IN  [events |-> acc.events \o page.buffer, token |-> page.cursor]
ReadUpTo(a, c, chunk, from, k) ==
    /\ a[0] = [events |-> <<>>, token |-> {Cursor(from, 0, 0)}]
    /\ \A n \in 0..k : a[n] \in Readers
    /\ \A n \in 1..k : a[n] = ReadPage(c, chunk, a[n - 1])

\* A page more.
LEMMA ReadPageType ==
    ASSUME ChainInv, NEW c \in Contracts, NEW chunk \in Nat \ {0}, NEW acc \in Readers
    PROVE  ReadPage(c, chunk, acc) \in Readers
<1>1. CASE acc.token = None
  BY <1>1 DEF ReadPage
<1>2. CASE acc.token # None
  <2>1. Value(acc.token) \in Cursors /\ acc.events \in Seq(PageEvents)
    BY <1>2, ValueIn DEF Readers, None
  <2>2. PICK page : page = FetchEventsAtBlocks(c, chunk, Value(acc.token), Latest)
    OBVIOUS
  <2>3. page \in Pages
    BY <2>1, <2>2, FetchEventsType
  <2>4. page.buffer \in Seq(PageEvents) /\ page.cursor \in SUBSET Cursors
    BY <2>3 DEF Pages
  <2>5. acc.events \o page.buffer \in Seq(PageEvents)
    BY <2>1, <2>4
  <2>6. ReadPage(c, chunk, acc) = [events |-> acc.events \o page.buffer, token |-> page.cursor]
    BY <1>2, <2>2 DEF ReadPage
  <2> QED
    BY <2>4, <2>5, <2>6 DEF Readers
<1> QED
  BY <1>1, <1>2

\* The pages are read one after the other.
LEMMA ReadPagesSteps ==
    ASSUME ChainInv, NEW c \in Contracts, NEW chunk \in Nat \ {0}, NEW from \in Nat, NEW k \in Nat
    PROVE  \E a : ReadUpTo(a, c, chunk, from, k) /\ ReadPages(from, Latest, c, chunk, k) = a[k]
<1> DEFINE Op(acc, n) == IF acc.token = None THEN acc
                         ELSE LET page == EventsUpTo(from, Latest, c, chunk, acc.token)
                              IN  [events |-> acc.events \o page.buffer, token |-> page.cursor]
           Folded(g, m, base, seq) ==
               g = [n \in 0..m |-> IF n = 0 THEN {base} ELSE {Op(acc, seq[n]) : acc \in g[n - 1]}]
<1>1. PICK seq, base : seq = [n \in 1..k |-> n] /\ base = [events |-> <<>>, token |-> {Cursor(from, 0, 0)}]
  OBVIOUS
<1>2. Len(seq) = k
  BY <1>1
<1>3. base \in Readers
  <2>1. <<>> \in Seq(PageEvents) /\ Cursor(from, 0, 0) \in Cursors
    BY DEF Cursor, Cursors
  <2> QED
    BY <1>1, <2>1 DEF Readers
<1>4. ASSUME NEW acc \in Readers, NEW n PROVE Op(acc, n) = ReadPage(c, chunk, acc) /\ Op(acc, n) \in Readers
  <2>1. Op(acc, n) = ReadPage(c, chunk, acc)
    BY DEF ReadPage, EventsUpTo, FirstBlock
  <2> HIDE DEF Op
  <2> QED
    BY <2>1, ReadPageType
<1>5. PICK f : f = CHOOSE g : Folded(g, Len(seq), base, seq)
  OBVIOUS
<1>6. ReadPages(from, Latest, c, chunk, k) = Value(f[Len(seq)])
  <2>1. FirstBlock(from, None) = Cursor(from, 0, 0)
    BY DEF FirstBlock
  <2> QED
    BY <1>1, <1>5, <2>1 DEF ReadPages, Fold
<1> HIDE DEF Op
<1>7. PICK F : F = [p \in (1..k) \X Readers |-> Op(p[2], seq[p[1]])]
  OBVIOUS
<1>8. StepOf(F, k, Readers)
  BY <1>4, <1>7 DEF StepOf
<1>9. PICK a : Iterated(a, F, base, k, Readers)
  BY <1>3, <1>8, Iterates
<1>10. a \in [0..k -> Readers] /\ a[0] = base /\ \A n \in 1..k : a[n] = F[<<n, a[n - 1]>>]
  BY <1>9 DEF Iterated
<1>11. ASSUME NEW n \in 1..k PROVE a[n] = Op(a[n - 1], seq[n]) /\ a[n - 1] \in Readers
  <2>1. n - 1 \in 0..k
    OBVIOUS
  <2>2. <<n, a[n - 1]>> \in (1..k) \X Readers
    BY <1>10, <2>1
  <2>3. F[<<n, a[n - 1]>>] = Op(a[n - 1], seq[n])
    BY <1>7, <2>2
  <2> QED
    BY <1>10, <2>1, <2>3
<1>12. \E g : Folded(g, k, base, seq)
  <2>1. PICK h : h = [n \in 0..k |-> {a[n]}]
    OBVIOUS
  <2>2. ASSUME NEW n \in 0..k
        PROVE  h[n] = IF n = 0 THEN {base} ELSE {Op(acc, seq[n]) : acc \in h[n - 1]}
    <3>1. CASE n = 0
      BY <1>10, <2>1, <3>1
    <3>2. CASE n # 0
      <4>1. n \in 1..k /\ n - 1 \in 0..k
        BY <3>2
      <4>2. h[n] = {Op(a[n - 1], seq[n])} /\ h[n - 1] = {a[n - 1]}
        BY <1>11, <2>1, <4>1
      <4> QED
        BY <3>2, <4>2
    <3> QED
      BY <3>1, <3>2
  <2>3. h = [n \in 0..k |-> h[n]]
    BY <2>1
  <2>4. h = [n \in 0..k |-> IF n = 0 THEN {base} ELSE {Op(acc, seq[n]) : acc \in h[n - 1]}]
    BY <2>2, <2>3
  <2> QED
    BY <2>4
<1>13. Folded(f, k, base, seq)
  <2> HIDE DEF Folded
  <2> QED
    BY <1>2, <1>5, <1>12
<1>14. Value(f[k]) = a[k]
  <2>1. f[0] = {a[0]}
    <3>1. f[0] = {base}
      BY <1>13
    <3> QED
      BY <1>10, <3>1
  <2>2. ASSUME NEW n \in Nat, n + 1 <= k, f[n] = {a[n]} PROVE f[n + 1] = {a[n + 1]}
    <3>1. n + 1 \in 1..k /\ n + 1 \in 0..k /\ n + 1 # 0 /\ (n + 1) - 1 = n
      BY <2>2
    <3>2. f[n + 1] = {Op(acc, seq[n + 1]) : acc \in f[n]}
      BY <1>13, <3>1
    <3>3. a[n + 1] = Op(a[n], seq[n + 1])
      BY <1>11, <3>1
    <3> QED
      BY <2>2, <3>2, <3>3
  <2>3. Along(f, a, k)
    BY <2>1, <2>2 DEF Along
  <2> QED
    BY <2>3, FoldsAlong
<1>15. ReadUpTo(a, c, chunk, from, k)
  <2>1. ASSUME NEW n \in 1..k PROVE a[n] = ReadPage(c, chunk, a[n - 1])
    BY <1>4, <1>11
  <2> QED
    BY <1>1, <1>10, <2>1 DEF ReadUpTo
<1> QED
  BY <1>2, <1>6, <1>14, <1>15

HasRead(acc, c, all, k) ==
    \/ acc.token = None /\ acc.events = all
    \/ \E q \in Cursors : acc.token = {q} /\ acc.events \o Rest(q, c) = all /\ Len(acc.events) >= k

\* A reader who stops when there is no token has read everything, after as many pages as there are events.
LEMMA PagesComplete ==
    ASSUME ChainInv, NEW c \in Contracts, NEW chunk \in Nat \ {0}, NEW from \in Nat
    PROVE  PagesAddUp(c, chunk, from)
<1>1. PICK all, k : all = MinedEvents(from, Latest, c) /\ k = Len(all) + 1
  OBVIOUS
<1>2. all \in Seq(PageEvents) /\ k \in Nat /\ Len(all) \in Nat
  <2>1. all \in Seq(PageEvents)
    BY <1>1, MinedEventsIs
  <2> QED
    BY <1>1, <2>1
<1>3. PICK a : ReadUpTo(a, c, chunk, from, k) /\ ReadPages(from, Latest, c, chunk, k) = a[k]
  BY <1>2, ReadPagesSteps
<1>4. /\ a[0] = [events |-> <<>>, token |-> {Cursor(from, 0, 0)}]
      /\ \A n \in 0..k : a[n] \in Readers
      /\ \A n \in 1..k : a[n] = ReadPage(c, chunk, a[n - 1])
  BY <1>3 DEF ReadUpTo
<1> DEFINE N == {n \in Nat : n <= k => HasRead(a[n], c, all, n)}
<1>5. 0 \in N
  <2>1. PICK q : q = Cursor(from, 0, 0)
    OBVIOUS
  <2>2. q \in Cursors /\ a[0].events = <<>> /\ a[0].token = {q} /\ Len(<<>>) >= 0
    BY <1>4, <2>1 DEF Cursors, Cursor
  <2>3. Rest(q, c) = all
    BY <1>1, <2>1, RestStart
  <2>4. <<>> \o all = all
    BY <1>2, ConcatEmptySeq
  <2> QED
    BY <2>2, <2>3, <2>4 DEF HasRead
<1>6. ASSUME NEW n \in Nat, n \in N PROVE n + 1 \in N
  <2> SUFFICES ASSUME n + 1 <= k PROVE HasRead(a[n + 1], c, all, n + 1)
    OBVIOUS
  <2>1. n \in 0..k /\ n + 1 \in 1..k /\ (n + 1) - 1 = n
    BY <1>2
  <2>2. PICK x, y : x = a[n] /\ y = a[n + 1]
    OBVIOUS
  <2>3. x \in Readers /\ y = ReadPage(c, chunk, x) /\ HasRead(x, c, all, n)
    BY <1>2, <1>4, <1>6, <2>1, <2>2
  <2>4. CASE x.token = None /\ x.events = all
    BY <2>2, <2>3, <2>4 DEF ReadPage, HasRead
  <2>5. CASE \E q \in Cursors : x.token = {q} /\ x.events \o Rest(q, c) = all /\ Len(x.events) >= n
    <3>1. PICK q \in Cursors : x.token = {q} /\ x.events \o Rest(q, c) = all /\ Len(x.events) >= n
      BY <2>5
    <3>2. PICK page, s, b : page = FetchEventsAtBlocks(c, chunk, q, Latest) /\ s = x.events /\ b = page.buffer
      OBVIOUS
    <3>3. y = [events |-> s \o b, token |-> page.cursor]
      <4>1. x.token # None /\ Value(x.token) = q
        BY <3>1, ValueOf DEF None
      <4> QED
        BY <2>3, <3>2, <4>1 DEF ReadPage
    <3>4. y.events = s \o b /\ y.token = page.cursor
      BY <3>3
    <3>5. s \in Seq(PageEvents) /\ b \in Seq(PageEvents)
      BY <2>3, <3>2, FetchEventsType DEF Readers, Pages
    <3>6. ReadsOn(page, chunk, q, c)
      BY <3>2, PageExact
    <3>7. CASE page.cursor = None /\ b = Rest(q, c)
      BY <2>2, <3>1, <3>2, <3>4, <3>7 DEF HasRead
    <3>8. CASE \E r : Ends(page, chunk, r, q, c)
      <4>1. PICK r : Ends(page, chunk, r, q, c)
        BY <3>8
      <4>2. r \in Cursors /\ page.cursor = {r} /\ Len(b) >= chunk /\ b \o Rest(r, c) = Rest(q, c)
        BY <3>2, <4>1 DEF Ends
      <4>3. PICK t : t = Rest(r, c)
        OBVIOUS
      <4>4. t \in Seq(PageEvents)
        BY <4>2, <4>3, RestIs
      <4>5. (s \o b) \o t = s \o (b \o t)
        BY ONLY <3>5, <4>4, Associate
      <4>6. y.events \o Rest(r, c) = all
        BY <3>1, <3>2, <3>4, <4>2, <4>3, <4>5
      <4>7. Len(y.events) >= n + 1
        <5>1. Len(s) \in Nat /\ Len(b) \in Nat /\ Len(s \o b) = Len(s) + Len(b)
          BY <3>5
        <5>2. Len(s) >= n /\ Len(b) >= chunk
          BY <3>1, <3>2, <4>2
        <5>3. Len(s) + Len(b) >= n + 1
          BY <5>1, <5>2
        <5> QED
          BY <3>4, <5>1, <5>3
      <4> QED
        BY <2>2, <3>4, <4>2, <4>6, <4>7 DEF HasRead
    <3> QED
      BY <3>2, <3>6, <3>7, <3>8 DEF ReadsOn
  <2> QED
    BY <2>3, <2>4, <2>5 DEF HasRead
<1>7. \A n \in Nat : n \in N => n + 1 \in N
  BY <1>6
<1>8. HasRead(a[k], c, all, k)
  <2>1. Nat \subseteq N
    <3> HIDE DEF N
    <3> QED
      BY <1>5, <1>7, SetInduction
  <2> QED
    BY <1>2, <2>1
<1>9. ASSUME NEW q \in Cursors, a[k].events \o Rest(q, c) = all, Len(a[k].events) >= k PROVE FALSE
  <2>1. PICK s, t : s = a[k].events /\ t = Rest(q, c)
    OBVIOUS
  <2>2. s \in Seq(PageEvents) /\ t \in Seq(PageEvents)
    <3>1. k \in 0..k
      BY <1>2
    <3>2. t \in Seq(PageEvents)
      BY <2>1, RestIs
    <3> QED
      BY <1>4, <2>1, <3>1, <3>2 DEF Readers
  <2>3. Len(s \o t) = Len(s) + Len(t) /\ Len(s) \in Nat /\ Len(t) \in Nat
    BY <2>2
  <2>4. Len(s) >= k /\ s \o t = all
    BY <1>9, <2>1
  <2>5. Len(all) = Len(s) + Len(t) /\ k = Len(all) + 1
    BY <1>1, <2>3, <2>4
  <2> QED
    BY <2>3, <2>4, <2>5
<1>10. a[k].token = None /\ a[k].events = all
  BY <1>8, <1>9 DEF HasRead
<1> QED
  BY <1>1, <1>3, <1>10 DEF PagesAddUp

\* Pages of any size, from any block on.
AllPagesExact ==
    \A c \in Contracts, chunk \in Nat \ {0}, from \in 0..Latest : PagesAddUp(c, chunk, from)

\* Whatever is mined, in whatever blocks, and however large a page of events is: who follows the
\* continuation tokens of katana gets the events of a contract, each once, and gets to the end.
THEOREM PagesOfAnySize == Spec => []AllPagesExact
<1>1. IndexerInv => AllPagesExact
  BY PagesComplete DEF IndexerInv, NodeInv, AllPagesExact
<1> QED
  BY <1>1, IndexerInvHolds, PTL

\* The pages of katana add up to the events of the range.
THEOREM PagesAreExact == Spec => []PagesExact
<1>1. AllPagesExact => PagesExact
  BY DEF AllPagesExact, PagesExact
<1> QED
  BY <1>1, PagesOfAnySize, PTL

-----------------------------------------------------------------------------
(* The events of a contract in a range of blocks *)

\* The events of c in the blocks lo..hi of a chain are in S.
Covers(ch, S, c, lo, hi) ==
    \A b \in lo..hi : \A j \in DOMAIN ch[b + 1] : \A i \in DOMAIN ch[b + 1][j].events :
        ch[b + 1][j].events[i] = c =>
            [block |-> b, tx |-> ch[b + 1][j].hash, at |-> i, from |-> c] \in S

\* The events of the contract are returned of a transaction.
LEMMA FilteredHas ==
    ASSUME NEW tx, tx.events \in Shapes, NEW block, NEW contract,
           NEW i \in DOMAIN tx.events, tx.events[i] = contract
    PROVE  [block |-> block, tx |-> tx.hash, at |-> i, from |-> contract]
               \in ToSet(Filtered(tx, block, contract))
<1>1. PICK ev : ev = tx.events
  OBVIOUS
<1>2. ev \in Seq(ToSet(ev)) /\ Len(ev) \in Nat /\ DOMAIN ev = 1..Len(ev)
  BY <1>1, ShapeIs
<1>3. PICK all : all = [n \in DOMAIN ev |->
                    [block |-> block, tx |-> tx.hash, at |-> n, from |-> ev[n]]]
  OBVIOUS
<1> DEFINE S == {e \in ToSet(all) : e.from = contract}
<1>4. all \in Seq(ToSet(all))
  <2>1. \A n \in 1..Len(ev) : all[n] \in ToSet(all)
    BY <1>2, <1>3 DEF ToSet
  <2>2. all = [n \in 1..Len(ev) |-> all[n]]
    BY <1>2, <1>3
  <2> QED
    BY <1>2, <2>1, <2>2, IsASeq
<1>5. Filtered(tx, block, contract) = Among(all, S)
  BY <1>1, <1>3 DEF Filtered, Where
<1>6. all[i] = [block |-> block, tx |-> tx.hash, at |-> i, from |-> contract]
  BY <1>1, <1>3
<1>7. all[i] \in ToSet(all) /\ all[i] \in S
  BY <1>1, <1>3, <1>6 DEF ToSet
<1>8. ToSet(Among(all, S)) = ToSet(all) \cap S
  <2> HIDE DEF S
  <2> QED
    BY <1>4, AmongSet
<1> QED
  BY <1>5, <1>6, <1>7, <1>8

\* What is returned of a block from a transaction on has what is returned of each one.
LEMMA RowHas ==
    ASSUME ChainInv, NEW n \in Nat, n <= Latest, NEW c \in Contracts, NEW j \in Nat, j < Len(Block(n)),
           NEW x, x \in ToSet(Content(<<n, j>>, c))
    PROVE  x \in ToSet(RowEvents(n, 0, c))
<1> DEFINE N == {d \in Nat : d <= j => x \in ToSet(RowEvents(n, j - d, c))}
<1>1. ASSUME NEW i \in Nat, i <= j
      PROVE  ToSet(RowEvents(n, i, c)) = ToSet(Content(<<n, i>>, c)) \cup ToSet(RowEvents(n, i + 1, c))
  <2>1. PICK len : len = Len(Block(n))
    OBVIOUS
  <2>2. len \in Nat
    BY <2>1, LeftIs
  <2>3. i < Len(Block(n)) /\ i + 1 \in Nat
    BY <1>1, <2>1, <2>2
  <2>4. RowEvents(n, i, c) = Content(<<n, i>>, c) \o RowEvents(n, i + 1, c)
    BY <2>3, RowEventsIs
  <2>5. RowEvents(n, i + 1, c) \in Seq(PageEvents)
    BY <2>3, RowEventsIs
  <2>6. <<n, i>> \in Places
    BY <2>3 DEF Places
  <2>7. Content(<<n, i>>, c) \in Seq(PageEvents)
    BY <2>6, ContentType
  <2> QED
    BY <2>4, <2>5, <2>7, ConcatSet
<1>2. 0 \in N
  <2>1. j - 0 = j
    OBVIOUS
  <2> QED
    BY <1>1, <2>1
<1>3. ASSUME NEW d \in Nat, d \in N PROVE d + 1 \in N
  <2> SUFFICES ASSUME d + 1 <= j PROVE x \in ToSet(RowEvents(n, j - (d + 1), c))
    OBVIOUS
  <2>1. PICK i : i = j - (d + 1)
    OBVIOUS
  <2>2. i \in Nat /\ i <= j /\ i + 1 = j - d
    BY <2>1
  <2>3. x \in ToSet(RowEvents(n, i + 1, c))
    BY <1>3, <2>2
  <2> QED
    BY <1>1, <2>1, <2>2, <2>3
<1>4. j \in N
  <2>1. \A d \in Nat : d \in N => d + 1 \in N
    BY <1>3
  <2> HIDE DEF N
  <2> QED
    BY <1>2, <2>1, SetInduction
<1>5. j - j = 0
  OBVIOUS
<1> QED
  BY <1>4, <1>5

\* What is returned of a range has what is returned of each block.
LEMMA MinedHas ==
    ASSUME ChainInv, NEW lo \in Nat, NEW c \in Contracts, NEW n \in Nat, lo <= n, n <= Latest,
           NEW x, x \in ToSet(RowEvents(n, 0, c))
    PROVE  x \in ToSet(MinedEvents(lo, Latest, c))
<1> DEFINE N == {d \in Nat : d <= n => x \in ToSet(MinedEvents(n - d, Latest, c))}
<1>0. Latest \in Nat
  BY PendingCursors
<1>1. ASSUME NEW i \in Nat, i <= n
      PROVE  ToSet(MinedEvents(i, Latest, c)) = ToSet(RowEvents(i, 0, c)) \cup ToSet(MinedEvents(i + 1, Latest, c))
  <2>1. i <= Latest /\ i + 1 \in Nat
    BY <1>0, <1>1
  <2>2. MinedEvents(i, Latest, c) = RowEvents(i, 0, c) \o MinedEvents(i + 1, Latest, c)
    BY <2>1, MinedEventsIs
  <2>3. MinedEvents(i + 1, Latest, c) \in Seq(PageEvents)
    BY <2>1, MinedEventsIs
  <2>4. RowEvents(i, 0, c) \in Seq(PageEvents)
    BY <2>1, RowEventsIs
  <2> QED
    BY <2>2, <2>3, <2>4, ConcatSet
<1>2. 0 \in N
  <2>1. n - 0 = n
    OBVIOUS
  <2> QED
    BY <1>1, <2>1
<1>3. ASSUME NEW d \in Nat, d \in N PROVE d + 1 \in N
  <2> SUFFICES ASSUME d + 1 <= n PROVE x \in ToSet(MinedEvents(n - (d + 1), Latest, c))
    OBVIOUS
  <2>1. PICK i : i = n - (d + 1)
    OBVIOUS
  <2>2. i \in Nat /\ i <= n /\ i + 1 = n - d
    BY <2>1
  <2>3. x \in ToSet(MinedEvents(i + 1, Latest, c))
    BY <1>3, <2>2
  <2> QED
    BY <1>1, <2>1, <2>2, <2>3
<1>4. n - lo \in N
  <2>1. \A d \in Nat : d \in N => d + 1 \in N
    BY <1>3
  <2>2. n - lo \in Nat
    OBVIOUS
  <2> HIDE DEF N
  <2> QED
    BY <1>2, <2>1, <2>2, SetInduction
<1>5. n - (n - lo) = lo /\ n - lo <= n
  OBVIOUS
<1> QED
  BY <1>4, <1>5

\* The events of c in a range of blocks are all its events there.
LEMMA MinedCovers ==
    ASSUME ChainInv, NEW lo \in Nat, NEW c \in Contracts
    PROVE  Covers(chain, ToSet(MinedEvents(lo, Latest, c)), c, lo, Latest)
<1>0. Latest \in Nat
  BY PendingCursors
<1> SUFFICES ASSUME NEW b \in lo..Latest, NEW j \in DOMAIN Block(b), NEW i \in DOMAIN Block(b)[j].events,
                    Block(b)[j].events[i] = c
             PROVE  [block |-> b, tx |-> Block(b)[j].hash, at |-> i, from |-> c]
                        \in ToSet(MinedEvents(lo, Latest, c))
  BY DEF Covers, Block
<1>1. PICK blk, tx, e : /\ blk = Block(b) /\ tx = blk[j]
                        /\ e = [block |-> b, tx |-> tx.hash, at |-> i, from |-> c]
  OBVIOUS
<1>2. b \in Nat /\ b <= Latest /\ lo <= b
  BY <1>0
<1>3. blk \in Seq(MinedTxs)
  BY <1>1, <1>2, BlockType
<1>4. j \in 1..Len(blk) /\ tx \in MinedTxs
  BY <1>1, <1>3
<1>5. j - 1 \in Nat /\ j - 1 < Len(Block(b)) /\ (j - 1) + 1 = j
  BY <1>1, <1>3, <1>4
<1>6. tx.events \in Shapes
  BY <1>4 DEF MinedTxs
<1>7. e \in ToSet(Filtered(tx, b, c))
  BY <1>1, <1>6, FilteredHas
<1>8. Content(<<b, j - 1>>, c) = Filtered(tx, b, c)
  BY <1>1, <1>5 DEF Content
<1>9. e \in ToSet(RowEvents(b, 0, c))
  BY <1>2, <1>5, <1>7, <1>8, RowHas
<1>10. e \in ToSet(MinedEvents(lo, Latest, c))
  BY <1>2, <1>9, MinedHas
<1> QED
  BY <1>1, <1>10

-----------------------------------------------------------------------------
(* A block more *)

\* What is returned of a block is of its transactions.
LEMMA RowOf ==
    ASSUME ChainInv, NEW n \in Nat, n <= Latest, NEW idx \in Nat, NEW c \in Contracts,
           NEW e \in ToSet(RowEvents(n, idx, c))
    PROVE  /\ e.block = n /\ e.from = c /\ e \in PageEvents
           /\ \E j \in Nat : idx <= j /\ j < Len(Block(n)) /\ e \in ToSet(Content(<<n, j>>, c))
<1> DEFINE F == [j \in 1..LeftIn(n, idx) |-> Content(<<n, idx + j - 1>>, c)]
<1>1. LeftIn(n, idx) \in Nat /\ Len(Block(n)) \in Nat
  BY LeftIs
<1>2. ASSUME NEW j \in 1..LeftIn(n, idx)
      PROVE  <<n, idx + j - 1>> \in Places /\ Content(<<n, idx + j - 1>>, c) \in Seq(PageEvents)
  BY LeftIs, ContentType
<1>3. PICK ss, T, U : ss = F /\ T = PageEvents /\ U = Seq(T)
  OBVIOUS
<1>4. ss \in Seq(Seq(T)) /\ DOMAIN ss = 1..LeftIn(n, idx)
  <2>1. \A j \in 1..LeftIn(n, idx) : ss[j] \in U
    BY <1>2, <1>3
  <2>2. ss = [j \in 1..LeftIn(n, idx) |-> ss[j]] /\ LeftIn(n, idx) \in Int
    BY <1>1, <1>3
  <2>3. ss \in Seq(U)
    BY ONLY <2>1, <2>2, UpToIs
  <2> QED
    BY <1>3, <2>2, <2>3
<1>5. e \in ToSet(FlattenSeq(ss))
  BY <1>3 DEF RowEvents
<1>6. PICK r \in ToSet(ss) : e \in ToSet(r)
  BY <1>4, <1>5, FlattenElements
<1>7. PICK j \in 1..LeftIn(n, idx) : r = Content(<<n, idx + j - 1>>, c)
  <2>1. PICK j \in DOMAIN ss : r = ss[j]
    BY <1>6 DEF ToSet
  <2> QED
    BY <1>3, <1>4, <2>1
<1>8. PICK k : k = idx + j - 1
  OBVIOUS
<1>9. k \in Nat /\ idx <= k /\ k < Len(Block(n)) /\ <<n, k>> \in Places
  <2>1. <<n, k>> \in Places
    BY <1>2, <1>8
  <2> QED
    BY <1>1, <1>8, <2>1 DEF Places
<1>10. PICK tx : tx = Block(n)[k + 1]
  OBVIOUS
<1>11. tx \in MinedTxs /\ n \in -1..MaxBlocks
  BY <1>9, <1>10, ContentType
<1>12. tx.hash \in 1..MaxTxs /\ tx.events \in Shapes
  BY <1>11 DEF MinedTxs
<1>13. Content(<<n, k>>, c) = Filtered(tx, n, c)
  BY <1>10 DEF Content
<1>14. e \in ToSet(Filtered(tx, n, c))
  BY <1>6, <1>7, <1>8, <1>13
<1>15. e.block = n /\ e.from = c
  BY <1>11, <1>12, <1>14, FilteredType
<1>16. e \in PageEvents
  BY <1>11, <1>12, <1>14, FilteredType, SeqToSet
<1> QED
  BY <1>9, <1>13, <1>14, <1>15, <1>16

\* The laws of the events of a chain, for the next state too.
RowLaw ==
    ChainInv => \A n \in Nat, idx \in Nat, c \in Contracts : n <= Latest =>
        /\ RowEvents(n, idx, c) \in Seq(PageEvents)
        /\ \A e \in ToSet(RowEvents(n, idx, c)) : e.block = n
MinedLaw ==
    ChainInv => \A n \in Nat, c \in Contracts :
        /\ MinedEvents(n, Latest, c) \in Seq(PageEvents)
        /\ n <= Latest =>
              MinedEvents(n, Latest, c) = RowEvents(n, 0, c) \o MinedEvents(n + 1, Latest, c)
        /\ n > Latest => MinedEvents(n, Latest, c) = <<>>

\* They hold in every state ...
LEMMA ChainLaws == RowLaw /\ MinedLaw
<1>1. RowLaw
  <2> SUFFICES ASSUME ChainInv, NEW n \in Nat, NEW idx \in Nat, NEW c \in Contracts, n <= Latest
               PROVE  /\ RowEvents(n, idx, c) \in Seq(PageEvents)
                      /\ \A e \in ToSet(RowEvents(n, idx, c)) : e.block = n
    BY DEF RowLaw
  <2>1. RowEvents(n, idx, c) \in Seq(PageEvents)
    BY RowEventsIs
  <2>2. \A e \in ToSet(RowEvents(n, idx, c)) : e.block = n
    BY RowOf
  <2> QED
    BY <2>1, <2>2
<1>2. MinedLaw
  BY MinedEventsIs DEF MinedLaw
<1> QED
  BY <1>1, <1>2

\* ... and so in the next one.
LEMMA ChainLawsNext == (RowLaw /\ MinedLaw)'
BY ChainLaws, PTL

\* A block more: the others stay as they are.
LEMMA RowStays ==
    ASSUME ChainInv, NEW x, chain' = Append(chain, x), NEW n \in Nat, n <= Latest, NEW idx \in Nat, NEW c
    PROVE  (RowEvents(n, idx, c))' = RowEvents(n, idx, c) /\ (Block(n))' = Block(n)
           /\ (LeftIn(n, idx))' = LeftIn(n, idx)
<1>1. (Block(n))' = Block(n)
  <2>1. n + 1 \in 1..Len(chain) /\ chain \in Seq(Seq(MinedTxs))
    BY DEF ChainInv, Latest
  <2>2. Append(chain, x)[n + 1] = chain[n + 1]
    BY <2>1
  <2> QED
    BY <2>2 DEF Block
<1>2. (LeftIn(n, idx))' = LeftIn(n, idx)
  BY <1>1 DEF LeftIn
<1>3. \A j : (Content(<<n, idx + j - 1>>, c))' = Content(<<n, idx + j - 1>>, c)
  BY <1>1 DEF Content
<1>4. (RowEvents(n, idx, c))' = FlattenSeq([j \in 1..(LeftIn(n, idx))' |-> (Content(<<n, idx + j - 1>>, c))'])
  BY DEF RowEvents
<1> QED
  BY <1>1, <1>2, <1>3, <1>4 DEF RowEvents

\* The number of the latest block.
LEMMA LatestGrows ==
    ASSUME ChainInv, NEW x, chain' = Append(chain, x)
    PROVE  Latest' = Latest + 1 /\ Latest \in Nat
<1>1. Len(chain) \in Nat /\ Len(chain) >= 1 /\ Len(chain') = Len(chain) + 1
  BY DEF ChainInv
<1> QED
  BY <1>1 DEF Latest

\* A block more: its events follow those of the range.
LEMMA MinedGrows ==
    ASSUME ChainInv, ChainInv', NEW x, chain' = Append(chain, x),
           NEW lo \in Nat, lo <= Latest + 1, NEW c \in Contracts
    PROVE  Grown((MinedEvents(lo, Latest, c))', MinedEvents(lo, Latest, c), Latest + 1)
<1>0. Latest' = Latest + 1 /\ Latest \in Nat
  BY LatestGrows
<1>1. PICK top : top = Latest + 1
  OBVIOUS
<1>2. top \in Nat
  BY <1>0, <1>1
<1> DEFINE N == {d \in Nat : d <= top =>
                    Grown((MinedEvents(top - d, Latest, c))', MinedEvents(top - d, Latest, c), top)}
<1>3. ASSUME NEW n \in Nat
      PROVE  /\ (MinedEvents(n, Latest, c))' \in Seq(PageEvents)
             /\ n <= top =>
                  (MinedEvents(n, Latest, c))' = (RowEvents(n, 0, c))' \o (MinedEvents(n + 1, Latest, c))'
             /\ n > top => (MinedEvents(n, Latest, c))' = <<>>
             /\ n <= top => (RowEvents(n, 0, c))' \in Seq(PageEvents)
             /\ n <= top => \A e \in ToSet((RowEvents(n, 0, c))') : e.block = n
  <2>1. /\ (MinedEvents(n, Latest, c))' \in Seq(PageEvents)
        /\ n <= top =>
             (MinedEvents(n, Latest, c))' = (RowEvents(n, 0, c))' \o (MinedEvents(n + 1, Latest, c))'
        /\ n > top => (MinedEvents(n, Latest, c))' = <<>>
    BY <1>0, <1>1, ChainLawsNext DEF MinedLaw
  <2>2. ASSUME n <= top
        PROVE  /\ (RowEvents(n, 0, c))' \in Seq(PageEvents)
               /\ \A e \in ToSet((RowEvents(n, 0, c))') : e.block = n
    BY <1>0, <1>1, <2>2, ChainLawsNext DEF RowLaw
  <2> QED
    BY <2>1, <2>2
<1>4. 0 \in N
  <2>1. top - 0 = top /\ top + 1 \in Nat /\ top + 1 > top /\ top > Latest
    BY <1>0, <1>1
  <2>2. PICK r, m : r = (RowEvents(top, 0, c))' /\ m = (MinedEvents(top, Latest, c))'
    OBVIOUS
  <2>3. r \in Seq(PageEvents) /\ \A e \in ToSet(r) : e.block = top
    BY <1>2, <1>3, <2>2
  <2>4. (MinedEvents(top + 1, Latest, c))' = <<>>
    BY <1>3, <2>1
  <2>5. m = r \o <<>>
    <3>1. (MinedEvents(top, Latest, c))' = (RowEvents(top, 0, c))' \o (MinedEvents(top + 1, Latest, c))'
      <4>1. top <= Latest' /\ MinedLaw'
        BY <1>0, <1>1, ChainLawsNext
      <4> QED
        BY <1>2, <4>1 DEF MinedLaw
    <3> QED
      BY <2>2, <2>4, <3>1
  <2>6. MinedEvents(top, Latest, c) = <<>>
    BY <1>2, <2>1, MinedEventsIs
  <2>7. m = <<>> \o r
    BY <2>3, <2>5, ConcatEmptySeq
  <2>8. Grown(m, <<>>, top)
    BY <2>3, <2>7 DEF Grown
  <2> QED
    BY <2>1, <2>2, <2>6, <2>8
<1>5. ASSUME NEW d \in Nat, d \in N PROVE d + 1 \in N
  <2> SUFFICES ASSUME d + 1 <= top
               PROVE  Grown((MinedEvents(top - (d + 1), Latest, c))', MinedEvents(top - (d + 1), Latest, c), top)
    OBVIOUS
  <2>1. PICK i : i = top - (d + 1)
    OBVIOUS
  <2>2. i \in Nat /\ i <= top /\ i <= Latest /\ i + 1 = top - d /\ i + 1 \in Nat /\ d <= top
    BY <1>0, <1>1, <2>1
  <2>3. PICK m2, m1 : m2 = (MinedEvents(i + 1, Latest, c))' /\ m1 = MinedEvents(i + 1, Latest, c)
    OBVIOUS
  <2>4. Grown(m2, m1, top)
    BY <1>5, <2>2, <2>3
  <2>5. PICK more \in Seq(PageEvents) : m2 = m1 \o more /\ \A e \in ToSet(more) : e.block = top
    BY <2>4 DEF Grown
  <2>6. PICK r : r = RowEvents(i, 0, c)
    OBVIOUS
  <2>7. r \in Seq(PageEvents) /\ m1 \in Seq(PageEvents)
    BY <2>2, <2>3, <2>6, RowEventsIs, MinedEventsIs
  <2>8. (RowEvents(i, 0, c))' = r
    BY <2>2, <2>6, RowStays
  <2>9. (MinedEvents(i, Latest, c))' = r \o m2
    BY <1>3, <2>2, <2>3, <2>8
  <2>10. MinedEvents(i, Latest, c) = r \o m1
    BY <2>2, <2>3, <2>6, MinedEventsIs
  <2>11. r \o (m1 \o more) = (r \o m1) \o more
    BY ONLY <2>7, more \in Seq(PageEvents), Associate
  <2> QED
    BY <2>1, <2>5, <2>9, <2>10, <2>11 DEF Grown
<1>6. Nat \subseteq N
  <2>1. \A d \in Nat : d \in N => d + 1 \in N
    BY <1>5
  <2> HIDE DEF N
  <2> QED
    BY <1>4, <2>1, SetInduction
<1>7. top - lo \in Nat /\ top - lo <= top /\ top - (top - lo) = lo
  BY <1>0, <1>1, <1>2
<1>8. top - lo \in N
  BY <1>6, <1>7
<1> QED
  BY <1>1, <1>7, <1>8

-----------------------------------------------------------------------------
(* Pages that hold a whole range *)

\* What follows a block is shorter than what follows the first one.
LEMMA MinedShorter ==
    ASSUME ChainInv, NEW lo \in Nat, NEW c \in Contracts
    PROVE  Len(MinedEvents(lo, Latest, c)) <= Len(MinedEvents(0, Latest, c))
<1> DEFINE N == {n \in Nat : Len(MinedEvents(n, Latest, c)) <= Len(MinedEvents(0, Latest, c))}
<1>0. Latest \in Nat
  BY PendingCursors
<1>1. ASSUME NEW n \in Nat
      PROVE  Len(MinedEvents(n, Latest, c)) \in Nat
             /\ Len(MinedEvents(n + 1, Latest, c)) <= Len(MinedEvents(n, Latest, c))
  <2>1. PICK m, k : m = MinedEvents(n, Latest, c) /\ k = MinedEvents(n + 1, Latest, c)
    OBVIOUS
  <2>2. m \in Seq(PageEvents) /\ k \in Seq(PageEvents)
    BY <2>1, MinedEventsIs
  <2>3. CASE n <= Latest
    <3>1. PICK r : r = RowEvents(n, 0, c)
      OBVIOUS
    <3>2. r \in Seq(PageEvents)
      BY <2>3, <3>1, RowEventsIs
    <3>3. m = r \o k
      BY <2>1, <2>3, <3>1, MinedEventsIs
    <3> QED
      BY <2>1, <2>2, <3>2, <3>3
  <2>4. CASE n > Latest
    <3>1. n + 1 > Latest /\ n + 1 \in Nat
      BY <1>0, <2>4
    <3>2. m = <<>> /\ k = <<>>
      BY <2>1, <2>4, <3>1, MinedEventsIs
    <3> QED
      BY <2>1, <3>2
  <2> QED
    BY <1>0, <2>3, <2>4
<1>2. 0 \in N
  BY <1>1
<1>3. ASSUME NEW n \in Nat, n \in N PROVE n + 1 \in N
  <2>1. PICK a, b, d : a = Len(MinedEvents(n + 1, Latest, c)) /\ b = Len(MinedEvents(n, Latest, c))
                       /\ d = Len(MinedEvents(0, Latest, c))
    OBVIOUS
  <2>2. a \in Nat /\ b \in Nat /\ d \in Nat /\ a <= b /\ b <= d
    BY <1>1, <1>3, <2>1
  <2> QED
    BY <2>1, <2>2
<1>4. Nat \subseteq N
  <2>1. \A n \in Nat : n \in N => n + 1 \in N
    BY <1>3
  <2> HIDE DEF N
  <2> QED
    BY <1>2, <2>1, SetInduction
<1> QED
  BY <1>4

\* The ranges that fit into pages after a block was mined did so before.
LEMMA FitBefore ==
    ASSUME ChainInv, ChainInv', config' = config, RangesFitPages', config \in Configs,
           chain' = chain \/ \E x : chain' = Append(chain, x)
    PROVE  RangesFitPages
<1>1. CASE chain' = chain
  BY <1>1 DEF RangesFitPages, MinedEvents, Latest, Block
<1>2. ASSUME NEW x, chain' = Append(chain, x) PROVE RangesFitPages
  <2> SUFFICES ASSUME NEW c \in Contracts PROVE Len(MinedEvents(0, Latest, c)) <= config.page
    BY DEF RangesFitPages
  <2>1. PICK m, k : m = MinedEvents(0, Latest, c) /\ k = (MinedEvents(0, Latest, c))'
    OBVIOUS
  <2>2. m \in Seq(PageEvents)
    BY <2>1, MinedEventsIs
  <2>3. Latest \in Nat
    BY PendingCursors
  <2>4. Grown(k, m, Latest + 1)
    BY <1>2, <2>1, <2>3, MinedGrows
  <2>5. PICK more \in Seq(PageEvents) : k = m \o more
    BY <2>4 DEF Grown
  <2>6. Len(k) <= config.page /\ config.page \in Nat
    BY <2>1, IndexerAssumption DEF RangesFitPages
  <2>7. Len(m) \in Nat /\ Len(more) \in Nat /\ Len(k) = Len(m) + Len(more)
    BY <2>2, <2>5
  <2> QED
    BY <2>1, <2>6, <2>7
<1> QED
  BY <1>1, <1>2

\* All that a page of katana has to return is in the first one, when it fits.
LEMMA KatanaWhole ==
    ASSUME ChainInv, NEW from \in Nat, NEW c \in Contracts, NEW chunk \in Nat \ {0}, NEW hasPending,
           Len(MinedEvents(from, Latest, c)) <= chunk
    PROVE  ToSet(MinedEvents(from, Latest, c))
               \subseteq ToSet(EventsUpToPending(from, c, chunk, None, hasPending).buffer)
<1>1. PICK first, all : first = Cursor(from, 0, 0) /\ all = MinedEvents(from, Latest, c)
  OBVIOUS
<1>2. first \in Cursors /\ all \in Seq(PageEvents) /\ Rest(first, c) = all
  BY <1>1, MinedEventsIs, RestStart DEF Cursor, Cursors
<1>3. PICK mined : mined = FetchEventsAtBlocks(c, chunk, first, Latest)
  OBVIOUS
<1>4. mined \in Pages /\ ReadsOn(mined, chunk, first, c)
  BY <1>2, <1>3, FetchEventsType, PageExact
<1>5. mined.buffer \in Seq(PageEvents)
  BY <1>4 DEF Pages
<1>6. mined.buffer = all
  <2>1. CASE mined.cursor = None /\ mined.buffer = Rest(first, c)
    BY <1>2, <2>1
  <2>2. ASSUME NEW q, Ends(mined, chunk, q, first, c) PROVE mined.buffer = all
    <3>1. PICK b, r : b = mined.buffer /\ r = Rest(q, c)
      OBVIOUS
    <3>2. q \in Cursors /\ Len(b) >= chunk /\ b \o r = all
      BY <1>2, <2>2, <3>1 DEF Ends
    <3>3. r \in Seq(PageEvents) /\ b \in Seq(PageEvents)
      BY <1>5, <3>1, <3>2, RestIs
    <3>4. Len(all) <= chunk
      BY <1>1
    <3>5. Len(r) = 0
      <4>1. Len(all) = Len(b) + Len(r) /\ Len(b) \in Nat /\ Len(r) \in Nat
        BY <3>2, <3>3
      <4> QED
        BY <3>2, <3>4, <4>1
    <3>6. r = <<>>
      BY <3>3, <3>5, EmptySeq
    <3>7. b \o <<>> = b
      BY <3>3, ConcatEmptySeq
    <3> QED
      BY <3>1, <3>2, <3>6, <3>7
  <2> QED
    BY <1>4, <2>1, <2>2 DEF ReadsOn
<1>7. PICK cursor, more, page : /\ cursor = Cursor(Latest + 1, 0, 0)
                                /\ more = FetchPendingEvents(c, chunk, cursor, mined.buffer)
                                /\ page = EventsUpToPending(from, c, chunk, None, hasPending)
  OBVIOUS
<1>8. page = mined \/ page = more \/ page = [buffer |-> mined.buffer, cursor |-> {cursor}]
  BY <1>1, <1>3, <1>7 DEF EventsUpToPending, EventsUpTo, FirstBlock
<1>9. ToSet(all) \subseteq ToSet(more.buffer)
  <2>1. cursor \in Cursors
    BY <1>7, PendingCursors DEF Cursor, Cursors
  <2>2. more \in GoOn(mined.buffer)
    BY <1>5, <1>7, <2>1, FetchPendingIs
  <2>3. PICK x \in Seq(PageEvents) : more.buffer = all \o x
    BY <1>6, <2>2 DEF GoOn, Grown
  <2>4. ToSet(all \o x) = ToSet(all) \cup ToSet(x)
    BY <1>2, ConcatSet
  <2> QED
    BY <2>3, <2>4
<1> QED
  BY <1>1, <1>6, <1>7, <1>8, <1>9

\* The same of whichever node.
LEMMA PageWhole ==
    ASSUME ChainInv, config \in Configs, RangesFitPages, NEW from \in Nat, NEW c \in Contracts
    PROVE  ToSet(MinedEvents(from, Latest, c)) \subseteq ToSet(EventsPage(from, c, None).buffer)
<1>1. PICK all : all = MinedEvents(from, Latest, c)
  OBVIOUS
<1>2. all \in Seq(PageEvents) /\ config.page \in Nat \ {0}
  BY <1>1, MinedEventsIs, IndexerAssumption
<1>3. Len(all) <= config.page
  <2>1. PICK whole : whole = MinedEvents(0, Latest, c)
    OBVIOUS
  <2>2. whole \in Seq(PageEvents) /\ Len(whole) <= config.page /\ Len(all) <= Len(whole)
    BY <1>1, <2>1, MinedEventsIs, MinedShorter DEF RangesFitPages
  <2> QED
    BY <1>2, <2>2
<1>4. CASE config.node = "other"
  <2>1. PICK end : end = Smaller(0 + config.page, Len(all))
    OBVIOUS
  <2>2. end = Len(all)
    BY <1>2, <1>3, <2>1 DEF Smaller
  <2>3. EventsPage(from, c, None).buffer = SubSeq(all, 0 + 1, end)
    BY <1>1, <1>4, <2>1 DEF EventsPage, OtherPage
  <2>4. 0 + 1 = 1 /\ SubSeq(all, 1, Len(all)) = all
    BY <1>2
  <2>5. EventsPage(from, c, None).buffer = all
    BY <2>2, <2>3, <2>4
  <2> QED
    BY <1>1, <2>5
<1>5. CASE config.node # "other"
  <2>1. EventsPage(from, c, None) = EventsUpToPending(from, c, config.page, None, config.node = "interval")
    BY <1>5 DEF EventsPage
  <2> QED
    BY <1>1, <1>2, <1>3, <2>1, KatanaWhole
<1> QED
  BY <1>4, <1>5

\* Without a cursor, all events of a page up to the target block are kept.
LEMMA KeptWhole ==
    ASSUME NEW events \in Seq(Events), NEW e \in ToSet(events), e.block <= range.to
    PROVE  e \in ToSet(Kept(events, None))
<1>1. PICK S : S = {x \in ToSet(events) : x.block <= range.to}
  OBVIOUS
<1>2. Kept(events, None) = Among(events, S)
  <2>1. PICK upTo : upTo = Where(events, LAMBDA x : x.block <= range.to)
    OBVIOUS
  <2>2. Kept(events, None) = upTo
    BY <2>1 DEF Kept
  <2> QED
    BY <1>1, <2>1, <2>2 DEF Where
<1>3. ToSet(Among(events, S)) = ToSet(events) \cap S
  BY AmongSet
<1> QED
  BY <1>1, <1>2, <1>3

\* The transactions of the first n events are met, each once.
MetAll(m, seq, n) ==
    /\ \A k \in 1..n : seq[k].tx \in ToSet(m)
    /\ \A h \in ToSet(m) : \E k \in 1..n : seq[k].tx = h
    /\ \A i, j \in 1..Len(m) : i < j => m[i] # m[j]

\* So are those of all of them.
LEMMA MetIs ==
    ASSUME NEW seq \in Seq(Events)
    PROVE  MetAll(Met(seq), seq, Len(seq))
<1>1. PICK a : Mets(a, seq) /\ Met(seq) = a[Len(seq)]
  BY MetSteps
<1>2. PICK len, D : len = Len(seq) /\ D = 1..MaxTxs
  OBVIOUS
<1>3. /\ a[0] = <<>> /\ len \in Nat
      /\ \A n \in 0..len : a[n] \in Seq(D)
      /\ \A n \in 1..len :
          a[n] = IF Contains(a[n - 1], seq[n].tx) THEN a[n - 1] ELSE Append(a[n - 1], seq[n].tx)
  BY <1>1, <1>2 DEF Mets
<1> DEFINE N == {n \in Nat : n <= len => MetAll(a[n], seq, n)}
<1>4. 0 \in N
  <2>1. ToSet(<<>>) = {} /\ Len(<<>>) = 0 /\ 1..0 = {}
    BY DEF ToSet
  <2> QED
    BY <1>3, <2>1 DEF MetAll
<1>5. ASSUME NEW n \in Nat, n \in N PROVE n + 1 \in N
  <2> SUFFICES ASSUME n + 1 <= len PROVE MetAll(a[n + 1], seq, n + 1)
    OBVIOUS
  <2>1. n + 1 \in 1..len /\ n \in 0..len /\ (n + 1) - 1 = n
    BY <1>3
  <2>2. PICK m, p, h : m = a[n] /\ p = a[n + 1] /\ h = seq[n + 1].tx
    OBVIOUS
  <2>3. m \in Seq(D) /\ MetAll(m, seq, n) /\ p = (IF Contains(m, h) THEN m ELSE Append(m, h))
    BY <1>3, <1>5, <2>1, <2>2
  <2>4. h \in D
    <3>1. seq[n + 1] \in Events
      BY <1>2, <2>1
    <3> QED
      BY <1>2, <2>2, <3>1 DEF Events
  <2>5. Contains(m, h) <=> h \in ToSet(m)
    BY <2>3 DEF Contains, ToSet
  <2>6. \A k \in 1..(n + 1) : k = n + 1 \/ k \in 1..n
    OBVIOUS
  <2>7. \A k \in 1..n : k \in 1..(n + 1)
    OBVIOUS
  <2>8. CASE h \in ToSet(m)
    <3>1. p = m
      BY <2>3, <2>5, <2>8
    <3>2. \A k \in 1..(n + 1) : seq[k].tx \in ToSet(m)
      BY <2>2, <2>3, <2>6, <2>8 DEF MetAll
    <3>3. \A g \in ToSet(m) : \E k \in 1..(n + 1) : seq[k].tx = g
      BY <2>3, <2>7 DEF MetAll
    <3>4. \A i, j \in 1..Len(m) : i < j => m[i] # m[j]
      BY <2>3 DEF MetAll
    <3> QED
      BY <2>2, <3>1, <3>2, <3>3, <3>4 DEF MetAll
  <2>9. CASE h \notin ToSet(m)
    <3>1. p = Append(m, h) /\ ToSet(p) = ToSet(m) \cup {h}
      BY <2>3, <2>4, <2>5, <2>9, AppendSet
    <3>2. \A k \in 1..(n + 1) : seq[k].tx \in ToSet(p)
      BY <2>2, <2>3, <2>6, <3>1 DEF MetAll
    <3>3. \A g \in ToSet(p) : \E k \in 1..(n + 1) : seq[k].tx = g
      <4>1. n + 1 \in 1..(n + 1)
        OBVIOUS
      <4> QED
        BY <2>2, <2>3, <2>7, <3>1, <4>1 DEF MetAll
    <3>4. ASSUME NEW i \in 1..Len(p), NEW j \in 1..Len(p), i < j PROVE p[i] # p[j]
      <4>1. Len(m) \in Nat /\ Len(p) = Len(m) + 1 /\ p[Len(m) + 1] = h /\ \A k \in 1..Len(m) : p[k] = m[k]
        BY <2>3, <3>1
      <4>2. i \in 1..Len(m) /\ m[i] \in ToSet(m)
        <5>1. i \in 1..Len(m)
          BY <3>4, <4>1
        <5> QED
          BY <2>3, <5>1 DEF ToSet
      <4>3. CASE j = Len(m) + 1
        BY <2>9, <4>1, <4>2, <4>3
      <4>4. CASE j \in 1..Len(m)
        BY <2>3, <3>4, <4>1, <4>2, <4>4 DEF MetAll
      <4> QED
        BY <4>1, <4>3, <4>4
    <3> QED
      BY <2>2, <3>2, <3>3, <3>4 DEF MetAll
  <2> QED
    BY <2>8, <2>9
<1>6. len \in N
  <2>1. \A n \in Nat : n \in N => n + 1 \in N
    BY <1>5
  <2> HIDE DEF N
  <2> QED
    BY <1>3, <1>4, <2>1, SetInduction
<1> QED
  BY <1>1, <1>2, <1>3, <1>6

\* Every event of a block is one of its transaction.
LEMMA GroupedHas ==
    ASSUME NEW events \in Seq(Events), NEW block, NEW e \in ToSet(events)
    PROVE  \E t \in ToSet(Grouped(events, block)) : e \in ToSet(t.events)
<1>1. PICK met, D : met = Met(events) /\ D = 1..MaxTxs
  OBVIOUS
<1>2. met \in Seq(D) /\ MetAll(met, events, Len(events))
  BY <1>1, MetType, MetIs
<1>3. PICK k \in 1..Len(events) : e = events[k]
  BY InSet
<1>4. e.tx \in ToSet(met)
  BY <1>2, <1>3 DEF MetAll
<1>5. PICK j \in DOMAIN met : e.tx = met[j]
  BY <1>4 DEF ToSet
<1>6. PICK t : t = [hash |-> met[j], block |-> block, events |-> OfTx(events, met[j])]
  OBVIOUS
<1>7. t \in ToSet(Grouped(events, block))
  BY <1>1, <1>6 DEF Grouped, ToSet
<1>8. PICK S : S = {x \in ToSet(events) : x.tx = met[j]}
  OBVIOUS
<1>9. t.events = Among(events, S)
  BY <1>6, <1>8 DEF OfTx, Where
<1>10. ToSet(Among(events, S)) = ToSet(events) \cap S
  BY AmongSet
<1> QED
  BY <1>5, <1>7, <1>8, <1>9, <1>10

\* Every event of a range up to its target is one of the transactions to process.
LEMMA TxsHave ==
    ASSUME range.to \in 0..MaxBlocks, NEW events \in Seq(Events), NEW e \in ToSet(events),
           e.block <= range.to
    PROVE  \E t \in ToSet(TxsOf(events)) : e \in ToSet(t.events)
<1>1. PICK w, ss, T, U : /\ w = range.to + 1 /\ T = Todos /\ U = Seq(T)
                         /\ ss = [k \in 1..w |-> Grouped(InBlock(events, k - 1), k - 1)]
  OBVIOUS
<1>2. w \in Nat
  BY <1>1, IndexerAssumption
<1>3. TxsOf(events) = FlattenSeq(ss)
  BY <1>1 DEF TxsOf
<1>4. ASSUME NEW k \in 1..w PROVE InBlock(events, k - 1) \in Seq(Events) /\ ss[k] \in U
  <2>1. InBlock(events, k - 1) \in Seq(Events)
    BY AmongType DEF InBlock, Where
  <2>2. k - 1 \in Nat
    BY <1>2
  <2>3. Grouped(InBlock(events, k - 1), k - 1) \in Seq(Todos)
    BY <2>1, <2>2, GroupedType
  <2> QED
    BY <1>1, <2>1, <2>3
<1>5. ss \in Seq(Seq(T))
  <2>0. \A k \in 1..w : ss[k] \in U
    BY <1>4
  <2>1. ss = [k \in 1..w |-> ss[k]] /\ w \in Int /\ \A k \in 1..w : ss[k] \in U
    <3>1. ss = [k \in 1..w |-> ss[k]]
      BY <1>1
    <3>2. w \in Int
      BY <1>2
    <3> QED
      BY <2>0, <3>1, <3>2
  <2>2. ss \in Seq(U)
    BY ONLY <2>1, UpToIs
  <2> QED
    BY <1>1, <2>2
<1>6. e \in Events
  BY SeqToSet
<1>7. PICK k : k = e.block + 1
  OBVIOUS
<1>8. k \in 1..w /\ k - 1 = e.block
  <2>1. PICK b, to : b = e.block /\ to = range.to
    OBVIOUS
  <2>2. b \in Nat /\ to \in Nat /\ b <= to /\ k = b + 1 /\ w = to + 1
    BY <1>1, <1>6, <1>7, <2>1, IndexerAssumption DEF Events
  <2> QED
    BY <2>1, <2>2
<1>9. e \in ToSet(InBlock(events, k - 1))
  <2>1. PICK S : S = {x \in ToSet(events) : x.block = k - 1}
    OBVIOUS
  <2>2. InBlock(events, k - 1) = Among(events, S)
    BY <2>1 DEF InBlock, Where
  <2>3. ToSet(Among(events, S)) = ToSet(events) \cap S
    BY AmongSet
  <2> QED
    BY <1>8, <2>1, <2>2, <2>3
<1>10. PICK t \in ToSet(ss[k]) : e \in ToSet(t.events)
  <2>1. ss[k] = Grouped(InBlock(events, k - 1), k - 1)
    BY <1>1, <1>8
  <2>2. PICK t \in ToSet(Grouped(InBlock(events, k - 1), k - 1)) : e \in ToSet(t.events)
    BY <1>4, <1>8, <1>9, GroupedHas
  <2> QED
    BY <2>1, <2>2
<1>11. ss[k] \in ToSet(ss)
  BY <1>1, <1>8 DEF ToSet
<1>12. t \in ToSet(FlattenSeq(ss))
  BY <1>5, <1>10, <1>11, FlattenElements
<1> QED
  BY <1>3, <1>10, <1>12

-----------------------------------------------------------------------------
(* What is committed up to the head *)

\* The map of the engine has every contract once.
LEMMA OrderHas ==
    ASSUME NEW s \in SetToSeqs(Contracts)
    PROVE  /\ \A c \in Contracts : \E i \in DOMAIN s : s[i] = c
           /\ \A i, j \in DOMAIN s : i # j => s[i] # s[j]
<1>1. PICK n, D : n = Cardinality(Contracts) /\ D = 1..n
  OBVIOUS
<1>2. n \in Nat /\ IsFiniteSet(Contracts)
  BY <1>1, IndexerAssumption, FS_CardinalityType
<1>3. s \in [D -> Contracts] /\ \A i, j \in D : i # j => s[i] # s[j]
  BY <1>1 DEF SetToSeqs
<1>4. s \in Injection(D, Contracts)
  BY <1>3 DEF Injection, IsInjective
<1>5. Cardinality(D) = n
  BY <1>1, <1>2, FS_Interval
<1>6. s \in Surjection(D, Contracts)
  BY <1>1, <1>2, <1>4, <1>5, FS_Injection
<1>7. \A c \in Contracts : \E i \in D : s[i] = c
  BY <1>6 DEF Surjection
<1> QED
  BY <1>3, <1>7

\* More events, and one range of blocks after the other.
LEMMA CoversMore ==
    ASSUME NEW ch, NEW S, NEW c, NEW lo, NEW hi, Covers(ch, S, c, lo, hi), NEW T, S \subseteq T
    PROVE  Covers(ch, T, c, lo, hi)
BY DEF Covers

\* One range of blocks after the other.
LEMMA CoversBoth ==
    ASSUME NEW ch, NEW S, NEW c, NEW lo \in Int, NEW mid \in Int, NEW hi \in Int,
           Covers(ch, S, c, lo, mid - 1), Covers(ch, S, c, mid, hi)
    PROVE  Covers(ch, S, c, lo, hi)
<1> SUFFICES ASSUME NEW b \in lo..hi, NEW j \in DOMAIN ch[b + 1], NEW i \in DOMAIN ch[b + 1][j].events,
                    ch[b + 1][j].events[i] = c
             PROVE  [block |-> b, tx |-> ch[b + 1][j].hash, at |-> i, from |-> c] \in S
  BY DEF Covers
<1>1. b \in lo..(mid - 1) \/ b \in mid..hi
  OBVIOUS
<1> QED
  BY <1>1 DEF Covers

\* A range without blocks.
LEMMA CoversNone ==
    ASSUME NEW ch, NEW S, NEW c, NEW lo \in Int, NEW hi \in Int, hi < lo
    PROVE  Covers(ch, S, c, lo, hi)
<1>1. lo..hi = {}
  OBVIOUS
<1> QED
  BY <1>1 DEF Covers

\* The events of a block do not change when another one is mined.
LEMMA CoversStays ==
    ASSUME NEW T, NEW ch \in Seq(T), NEW S, NEW c, NEW lo \in Nat, NEW hi \in Int, hi < Len(ch),
           NEW x, Covers(ch, S, c, lo, hi)
    PROVE  Covers(Append(ch, x), S, c, lo, hi)
<1>1. PICK new, len : new = Append(ch, x) /\ len = Len(ch)
  OBVIOUS
<1>2. len \in Nat /\ \A k \in 1..len : new[k] = ch[k]
  BY <1>1
<1>3. ASSUME NEW b \in lo..hi PROVE new[b + 1] = ch[b + 1]
  <2>1. b + 1 \in 1..len
    BY <1>1, <1>2
  <2> QED
    BY <1>2, <2>1
<1>4. Covers(new, S, c, lo, hi)
  BY <1>3 DEF Covers
<1> QED
  BY <1>1, <1>4

\* The map of the engine has the contracts, each once.
OrderInv == order \in SetToSeqs(Contracts)

\* Without the pending blocks no cursor of a transaction is ever kept.
NoPending ==
    ~config.pendingBlocks =>
        /\ pc # "pending" /\ last = None
        /\ \A c \in Contracts : db.contractTx[c] = None /\ open.contractTx[c] = None

\* A database has the events of all blocks up to its head ...
Complete(ch, d) ==
    \A h \in d.head : h < Len(ch) /\ \A c \in Contracts : Covers(ch, ToSet(d.events), c, FirstFetched, h)

\* ... and of those before the range that is fetched, which is one of the chain.
Resumes(ch, d, r) ==
    /\ r.from <= r.to /\ r.to < Len(ch)
    /\ \A c \in Contracts : Covers(ch, ToSet(d.events), c, FirstFetched, r.from - 1)

\* The events of the range are fetched, but for the contracts whose first page was not asked for.
Asked(r, c) == [contract |-> c, token |-> None] \in ToSet(r.requests)
Gathered(ch, r) ==
    \A c \in Contracts : Asked(r, c) \/ Covers(ch, ToSet(r.events), c, r.from, r.to)

\* The events of the range are written, left to the tasks or still to be processed.
InHand(o, later, txns) ==
    ToSet(o.events) \cup ToSet(later) \cup UNION {ToSet(t.events) : t \in ToSet(txns)}
Held(ch, r, S) == \A c \in Contracts : Covers(ch, S, c, r.from, r.to)

\* What is fetched, written and committed is complete, at each point of the engine.
CoverInv ==
    /\ Complete(chain, db) /\ Complete(chain, open)
    /\ pc \in {"pages", "blocks", "process"} => Resumes(chain, db, range)
    /\ pc = "pages" => Gathered(chain, range)
    /\ pc = "blocks" => Held(chain, range, ToSet(range.events))
    /\ pc = "process" => Held(chain, range, InHand(open, tasks, todo))

\* Another block changes nothing of this.
LEMMA MoreChain ==
    ASSUME IndexerInv, NEW x, CoverInv, chain' = Append(chain, x),
           UNCHANGED <<db, open, pc, range, tasks, todo>>
    PROVE  CoverInv'
<1>1. PICK ch, new, T : ch = chain /\ new = chain' /\ T = Seq(MinedTxs)
  OBVIOUS
<1>2. ch \in Seq(T) /\ new = Append(ch, x)
  BY <1>1 DEF IndexerInv, NodeInv, ChainInv
<1>3. Len(ch) \in Nat /\ Len(new) = Len(ch) + 1
  BY <1>2
<1>4. FirstFetched \in Nat
  BY IndexerAssumption DEF FirstFetched
<1>5. ASSUME NEW S, NEW c, NEW lo \in Nat, NEW hi \in Int, hi < Len(ch), Covers(ch, S, c, lo, hi)
      PROVE  Covers(new, S, c, lo, hi)
  BY <1>2, <1>5, CoversStays
<1>6. ASSUME NEW d \in Dbs, Complete(ch, d) PROVE Complete(new, d)
  <2> SUFFICES ASSUME NEW h \in d.head
               PROVE  h < Len(new) /\ \A c \in Contracts : Covers(new, ToSet(d.events), c, FirstFetched, h)
    BY DEF Complete
  <2>1. h \in Int
    BY DbIs
  <2>2. h < Len(ch) /\ \A c \in Contracts : Covers(ch, ToSet(d.events), c, FirstFetched, h)
    BY <1>6 DEF Complete
  <2>3. h < Len(new)
    BY <1>3, <2>1, <2>2
  <2> QED
    BY <1>4, <1>5, <2>1, <2>2, <2>3
<1>7. db \in Dbs /\ open \in Dbs /\ range.from \in Nat /\ range.to \in Nat
  BY RangeIs, IndexerAssumption DEF IndexerInv, StoreInv, EngineInv
<1>8. Complete(new, db) /\ Complete(new, open)
  BY <1>1, <1>6, <1>7 DEF CoverInv
<1>9. ASSUME Resumes(ch, db, range) PROVE Resumes(new, db, range) /\ range.to < Len(ch)
  <2>1. PICK from, to : from = range.from /\ to = range.to
    OBVIOUS
  <2>2. from \in Nat /\ to \in Nat /\ from <= to /\ to < Len(ch)
        /\ \A c \in Contracts : Covers(ch, ToSet(db.events), c, FirstFetched, from - 1)
    BY <1>7, <1>9, <2>1 DEF Resumes
  <2>3. from - 1 \in Int /\ from - 1 < Len(ch) /\ to < Len(new)
    BY <1>3, <2>2
  <2>4. \A c \in Contracts : Covers(new, ToSet(db.events), c, FirstFetched, from - 1)
    BY <1>4, <1>5, <2>2, <2>3
  <2> QED
    BY <2>1, <2>2, <2>3, <2>4 DEF Resumes
<1>10. ASSUME NEW S, Held(ch, range, S), range.to < Len(ch) PROVE Held(new, range, S)
  BY <1>5, <1>7, <1>10 DEF Held
<1>11. ASSUME Gathered(ch, range), range.to < Len(ch) PROVE Gathered(new, range)
  BY <1>5, <1>7, <1>11 DEF Gathered
<1>12. pc \in {"pages", "blocks", "process"} => Resumes(new, db, range) /\ range.to < Len(ch)
  BY <1>1, <1>9 DEF CoverInv
<1>13. pc = "pages" => Gathered(new, range)
  BY <1>1, <1>11, <1>12 DEF CoverInv
<1>14. pc = "blocks" => Held(new, range, ToSet(range.events))
  BY <1>1, <1>10, <1>12 DEF CoverInv
<1>15. pc = "process" => Held(new, range, InHand(open, tasks, todo))
  BY <1>1, <1>10, <1>12 DEF CoverInv
<1> QED
  BY <1>1, <1>8, <1>12, <1>13, <1>14, <1>15 DEF CoverInv

\* The range that is asked for goes on where the database ends.
LEMMA RangeResumes ==
    ASSUME IndexerInv, OrderInv, CoverInv, FetchRange
    PROVE  CoverInv'
<1>1. ChainInv /\ db \in Dbs /\ BlocksChunk \in Nat \ {0} /\ WorldBlock \in Nat
  BY IndexerAssumption DEF IndexerInv, NodeInv, StoreInv
<1>2. PICK from, to, f, latest : /\ from = range'.from /\ to = range'.to /\ f = From /\ latest = Latest
  OBVIOUS
<1>3. /\ UNCHANGED <<chain, db, open>> /\ pc' = "pages" /\ f < latest
      /\ from = (IF f = 0 THEN 0 ELSE f + 1) /\ to = Smaller(latest, f + BlocksChunk)
      /\ range'.requests = [i \in DOMAIN order |-> [contract |-> order[i], token |-> None]]
  BY <1>2 DEF FetchRange, chainVars, storeVars, writeVars
<1>4. f \in Nat /\ latest \in Nat /\ Len(chain) = latest + 1
  BY <1>1, <1>2, FromType, PendingCursors DEF IndexerInv, ChainInv, Latest
<1>5. from \in Nat /\ from <= to /\ to < Len(chain)
  BY <1>1, <1>3, <1>4 DEF Smaller
<1>6. ASSUME NEW c \in Contracts PROVE Covers(chain, ToSet(db.events), c, FirstFetched, from - 1)
  <2>1. CASE f = 0 \/ db.head = None
    <3>1. FirstFetched \in Nat /\ from - 1 < FirstFetched
      BY <1>1, <1>2, <1>3, <1>4, <2>1 DEF FirstFetched, From
    <3> QED
      BY <1>5, <3>1, CoversNone
  <2>2. CASE f # 0 /\ db.head # None
    <3>1. f \in db.head /\ from - 1 = f
      <4>1. Value(db.head) \in db.head
        BY <2>2, ValueIn DEF None
      <4> QED
        BY <1>2, <1>3, <1>4, <2>2, <4>1 DEF From
    <3> QED
      BY <3>1 DEF CoverInv, Complete
  <2> QED
    BY <2>1, <2>2
<1>7. Resumes(chain, db, range')
  BY <1>2, <1>5, <1>6 DEF Resumes
<1>8. ASSUME NEW c \in Contracts PROVE Asked(range', c)
  <2>1. PICK i \in DOMAIN order : order[i] = c
    BY OrderHas DEF OrderInv
  <2> QED
    BY <1>3, <2>1 DEF Asked, ToSet
<1>9. Gathered(chain, range')
  BY <1>8 DEF Gathered
<1> QED
  BY <1>3, <1>7, <1>9 DEF CoverInv

\* A page that is asked for first has all events of its contract in the range, when pages hold
\* a whole range.
LEMMA PageGathers ==
    ASSUME IndexerInv, NoPending, ~config.pendingBlocks, RangesFitPages, CoverInv, FetchPage
    PROVE  CoverInv'
<1>1. /\ UNCHANGED <<chain, db, open>> /\ pc = "pages"
  BY DEF FetchPage, chainVars, storeVars, writeVars
<1>2. NodeInv /\ EngineInv /\ ChainInv /\ config \in Configs
  BY DEF IndexerInv, NodeInv
<1>3. PICK c, t, page, kept, next : Fetched(c, t, page, kept, next) /\ FetchedTypes(c, t, page, kept, next)
  BY FetchPageIs
<1>4. PICK reqs, tail, evs, all, from, to, new :
          /\ reqs = range.requests /\ tail = Tail(range.requests) /\ evs = range.events
          /\ all = evs \o kept /\ from = range.from /\ to = range.to /\ new = range'.requests
  OBVIOUS
<1>5. /\ reqs \in Seq(Requests(config)) /\ reqs # <<>> /\ evs \in Seq(Events)
      /\ from \in Nat /\ to \in Nat
  BY <1>1, <1>2, <1>4, RangeIs, IndexerAssumption DEF EngineInv
<1>6. /\ c \in Contracts /\ kept \in Seq(Events) /\ page.buffer \in Seq(Events)
      /\ page.buffer \in Seq(PageEvents) /\ tail \in Seq(Requests(config))
  BY <1>3, <1>4 DEF FetchedTypes
<1>7. /\ c = Head(reqs).contract /\ t = Head(reqs).token
      /\ page = EventsPage(from, c, t) /\ kept = Kept(page.buffer, db.contractTx[c])
      /\ range'.from = from /\ range'.to = to /\ range'.events = all
      /\ new = (IF tail = <<>> THEN next ELSE tail)
      /\ pc' = IF tail = <<>> /\ next = <<>> THEN "blocks" ELSE "pages"
  BY <1>3, <1>4 DEF Fetched
<1>8. ToSet(all) = ToSet(evs) \cup ToSet(kept)
  BY <1>4, <1>5, <1>6, ConcatSet
<1>9. to < Len(chain)
  BY <1>1, <1>4 DEF CoverInv, Resumes
<1>10. ASSUME t = None PROVE Covers(chain, ToSet(kept), c, from, to)
  <2>1. kept = Kept(page.buffer, None)
    BY <1>1, <1>6, <1>7 DEF NoPending
  <2>2. PICK mined, latest : mined = MinedEvents(from, Latest, c) /\ latest = Latest
    OBVIOUS
  <2>3. latest = Len(chain) - 1 /\ latest \in Nat /\ to <= latest
    BY <1>2, <1>5, <1>9, <2>2, PendingCursors DEF Latest, ChainInv
  <2>4. ToSet(mined) \subseteq ToSet(page.buffer)
    BY <1>2, <1>5, <1>6, <1>7, <1>10, <2>2, PageWhole
  <2>5. Covers(chain, ToSet(mined), c, from, latest)
    BY <1>2, <1>5, <1>6, <2>2, MinedCovers
  <2> SUFFICES ASSUME NEW b \in from..to, NEW j \in DOMAIN chain[b + 1],
                      NEW i \in DOMAIN chain[b + 1][j].events, chain[b + 1][j].events[i] = c
               PROVE  [block |-> b, tx |-> chain[b + 1][j].hash, at |-> i, from |-> c] \in ToSet(kept)
    BY DEF Covers
  <2>6. PICK e : e = [block |-> b, tx |-> chain[b + 1][j].hash, at |-> i, from |-> c]
    OBVIOUS
  <2>7. b \in from..latest
    BY <1>5, <2>3
  <2>8. e \in ToSet(mined)
    BY <2>5, <2>6, <2>7 DEF Covers
  <2>9. e \in ToSet(page.buffer) /\ e.block <= range.to
    BY <1>4, <1>5, <2>4, <2>6, <2>8
  <2> QED
    BY <1>6, <2>1, <2>6, <2>9, KeptWhole
<1>11. ASSUME NEW k \in Contracts
       PROVE  Covers(chain, ToSet(all), k, from, to) \/ (tail # <<>> /\ Asked(range', k))
  <2>1. CASE Covers(chain, ToSet(evs), k, from, to)
    BY <1>8, <2>1, CoversMore
  <2>2. CASE Asked(range, k)
    <3>1. PICK r : r = [contract |-> k, token |-> None]
      OBVIOUS
    <3>2. r \in ToSet(reqs)
      BY <1>4, <2>2, <3>1 DEF Asked
    <3>3. r = Head(reqs) \/ r \in ToSet(tail)
      BY <1>4, <1>5, <3>2, TailSet
    <3>4. CASE r = Head(reqs)
      <4>1. c = k /\ t = None
        BY <1>7, <3>1, <3>4
      <4> QED
        BY <1>8, <1>10, <4>1, CoversMore
    <3>5. CASE r \in ToSet(tail)
      <4>1. tail # <<>>
        BY <3>5 DEF ToSet
      <4> QED
        BY <1>4, <1>7, <3>1, <3>5, <4>1 DEF Asked
    <3> QED
      BY <3>3, <3>4, <3>5
  <2> QED
    BY <1>1, <1>4, <2>1, <2>2 DEF CoverInv, Gathered
<1>12. Resumes(chain, db, range')
  BY <1>1, <1>4, <1>7 DEF CoverInv, Resumes
<1>13. Gathered(chain, range')
  BY <1>7, <1>11 DEF Gathered
<1>14. pc' = "blocks" => Held(chain, range', ToSet(range'.events))
  BY <1>7, <1>11 DEF Held
<1> QED
  BY <1>1, <1>7, <1>12, <1>13, <1>14 DEF CoverInv

\* The events that are fetched are those of the transactions to process.
LEMMA BlocksHold ==
    ASSUME IndexerInv, CoverInv, FetchBlocks
    PROVE  CoverInv'
<1>1. /\ UNCHANGED <<chain, db, open, range, tasks>> /\ pc = "blocks" /\ pc' = "process"
      /\ todo' = TxsOf(range.events)
  BY DEF FetchBlocks, chainVars, storeVars, writeVars
<1>2. range.events \in Seq(Events) /\ range.to \in 0..MaxBlocks
  BY RangeIs DEF IndexerInv, EngineInv
<1>3. PICK S, evs : S = InHand(open, tasks, todo') /\ evs = range.events
  OBVIOUS
<1>4. ASSUME NEW e \in ToSet(evs), e.block <= range.to PROVE e \in S
  <2>1. PICK t \in ToSet(TxsOf(evs)) : e \in ToSet(t.events)
    BY <1>2, <1>3, <1>4, TxsHave
  <2> QED
    BY <1>1, <1>3, <2>1 DEF InHand
<1>5. ASSUME NEW c \in Contracts PROVE Covers(chain, S, c, range.from, range.to)
  <2>0. Covers(chain, ToSet(evs), c, range.from, range.to)
    BY <1>1, <1>3 DEF CoverInv, Held
  <2>1. PICK from, to : from = range.from /\ to = range.to
    OBVIOUS
  <2>2. from \in Nat /\ to \in Nat
    BY <2>1, RangeIs, IndexerAssumption DEF IndexerInv, EngineInv
  <2> SUFFICES ASSUME NEW b \in from..to, NEW j \in DOMAIN chain[b + 1],
                      NEW i \in DOMAIN chain[b + 1][j].events, chain[b + 1][j].events[i] = c
               PROVE  [block |-> b, tx |-> chain[b + 1][j].hash, at |-> i, from |-> c] \in S
    BY <2>1 DEF Covers
  <2>3. PICK e : e = [block |-> b, tx |-> chain[b + 1][j].hash, at |-> i, from |-> c]
    OBVIOUS
  <2>4. e \in ToSet(evs)
    BY <2>0, <2>1, <2>3 DEF Covers
  <2>5. e.block <= range.to
    BY <2>1, <2>2, <2>3
  <2> QED
    BY <1>4, <2>3, <2>4, <2>5
<1>6. Held(chain, range, S)
  BY <1>5 DEF Held
<1> QED
  BY <1>1, <1>3, <1>6 DEF CoverInv

\* The events of a transaction are processed at once, or left to the tasks.
LEMMA PartsHave ==
    ASSUME NEW s \in Seq(Events)
    PROVE  ToSet(AtOnce(s)) \cup ToSet(Later(s)) = ToSet(s)
<1>1. PICK A, L : A = {e \in ToSet(s) : e.from \notin Parallel} /\ L = {e \in ToSet(s) : e.from \in Parallel}
  OBVIOUS
<1>2. AtOnce(s) = Among(s, A) /\ Later(s) = Among(s, L)
  BY <1>1 DEF AtOnce, Later, Where
<1>3. ToSet(Among(s, A)) = ToSet(s) \cap A /\ ToSet(Among(s, L)) = ToSet(s) \cap L
  BY AmongSet
<1> QED
  BY <1>1, <1>2, <1>3

\* Events are written, and the cursors stay.
LEMMA WriteKeeps ==
    ASSUME NEW d \in Dbs, NEW events \in Seq(Events)
    PROVE  /\ Write(d, events).head = d.head /\ Write(d, events).contractTx = d.contractTx
           /\ Write(d, events).pendingTx = d.pendingTx
<1>1. PICK ev : ev = d.events \o events
  OBVIOUS
<1>2. PICK h, p, c, e, b : d = [head |-> h, pendingTx |-> p, contractTx |-> c, events |-> e, balances |-> b]
  BY DbIs
<1>3. Write(d, events) = [d EXCEPT !.events = ev]
  BY <1>1 DEF Write
<1>4. [d EXCEPT !.events = ev] = [head |-> h, pendingTx |-> p, contractTx |-> c, events |-> ev, balances |-> b]
  BY ONLY <1>2
<1> QED
  BY <1>2, <1>3, <1>4

\* The events of a transaction stay in hand.
LEMMA ProcessHolds ==
    ASSUME IndexerInv, CoverInv, ProcessTransaction
    PROVE  CoverInv'
<1>1. /\ UNCHANGED <<chain, db, pc, range>> /\ todo # <<>> /\ todo' = Tail(todo) /\ pc = "process"
  BY DEF ProcessTransaction, chainVars, storeVars
<1>2. StoreInv /\ EngineInv /\ todo \in Seq(Todos) /\ tasks \in Seq(Events)
  BY DEF IndexerInv, EngineInv
<1>3. PICK tx, now, later, tail : /\ tx = Head(todo) /\ now = AtOnce(tx.events) /\ later = Later(tx.events)
                                  /\ tail = Tail(todo)
  OBVIOUS
<1>4. now \in Seq(Events) /\ later \in Seq(Events) /\ tx.events \in Seq(Events)
  BY <1>1, <1>2, <1>3, HeadType
<1>5. tasks' = tasks \o later /\ open' = Write(open, now)
  BY <1>3 DEF ProcessTransaction, ProcessEvents, AtOnce, Later
<1>6. PICK evs, evs2 : evs = open.events /\ evs2 = open'.events
  OBVIOUS
<1>7. evs \in Seq(Events) /\ evs2 = evs \o now /\ open'.head = open.head
  BY <1>2, <1>4, <1>5, <1>6, WriteType, WriteKeeps, DbIs DEF StoreInv
<1>8. ToSet(evs2) = ToSet(evs) \cup ToSet(now) /\ ToSet(tasks') = ToSet(tasks) \cup ToSet(later)
  BY <1>2, <1>4, <1>5, <1>7, ConcatSet
<1>9. ToSet(tx.events) = ToSet(now) \cup ToSet(later)
  BY <1>3, <1>4, PartsHave
<1>10. ToSet(todo) = {tx} \cup ToSet(tail)
  BY <1>1, <1>2, <1>3, TailSet
<1>11. InHand(open, tasks, todo) \subseteq InHand(open', tasks', todo')
  BY <1>1, <1>3, <1>6, <1>8, <1>9, <1>10 DEF InHand
<1>12. Held(chain, range, InHand(open', tasks', todo'))
  BY <1>1, <1>11, CoversMore DEF CoverInv, Held
<1>13. Complete(chain, open')
  BY <1>6, <1>7, <1>8, CoversMore DEF CoverInv, Complete
<1> QED
  BY <1>1, <1>12, <1>13 DEF CoverInv

\* The head moves when everything of the range is written.
LEMMA TasksComplete ==
    ASSUME IndexerInv, PublishInv, CoverInv, ProcessTasks
    PROVE  CoverInv'
<1>1. UNCHANGED <<chain, db>> /\ todo = <<>> /\ pc = "process" /\ pc' = "commit"
  BY DEF ProcessTasks, chainVars, storeVars
<1>2. StoreInv /\ EngineInv /\ tasks \in Seq(Events) /\ open \in Dbs
  BY DEF IndexerInv, EngineInv, StoreInv
<1>3. PICK from, to, store : from = range.from /\ to = range.to /\ store = Write(open, tasks)
  OBVIOUS
<1>4. from \in Nat /\ to \in 0..MaxBlocks /\ to \in Nat /\ last \in SUBSET (1..MaxTxs)
  BY <1>2, <1>3, RangeIs, IndexerAssumption DEF EngineInv
<1>5. store \in Dbs /\ store.events = open.events \o tasks
  BY <1>2, <1>3, WriteType
<1>6. open' = UpdateCursors(store, to, last)
  BY <1>3 DEF ProcessTasks
<1>7. open'.head = {to} /\ open'.events = store.events
  BY <1>6 DEF UpdateCursors
<1>8. PICK evs, dbs, evs2 : evs = open.events /\ dbs = db.events /\ evs2 = open'.events
  OBVIOUS
<1>9. evs \in Seq(Events) /\ dbs \in Seq(Events) /\ queue \in Seq(Events)
  BY <1>2, <1>8, DbIs DEF StoreInv
<1>10. ToSet(evs2) = ToSet(evs) \cup ToSet(tasks)
  BY <1>2, <1>5, <1>7, <1>8, <1>9, ConcatSet
<1>11. ToSet(dbs) \subseteq ToSet(evs)
  <2>1. evs = dbs \o queue
    BY <1>8 DEF PublishInv
  <2>2. ToSet(dbs \o queue) = ToSet(dbs) \cup ToSet(queue)
    BY <1>9, ConcatSet
  <2> QED
    BY <2>1, <2>2
<1>12. InHand(open, tasks, todo) = ToSet(evs2)
  <2>1. ToSet(todo) = {}
    BY <1>1 DEF ToSet
  <2> QED
    BY <1>8, <1>10, <2>1 DEF InHand
<1>13. ASSUME NEW c \in Contracts PROVE Covers(chain, ToSet(evs2), c, FirstFetched, to)
  <2>1. Covers(chain, ToSet(evs2), c, from, to)
    BY <1>1, <1>3, <1>12 DEF CoverInv, Held
  <2>2. Covers(chain, ToSet(dbs), c, FirstFetched, from - 1)
    BY <1>1, <1>3, <1>8 DEF CoverInv, Resumes
  <2>3. Covers(chain, ToSet(evs2), c, FirstFetched, from - 1)
    BY <1>10, <1>11, <2>2, CoversMore
  <2>4. FirstFetched \in Int /\ from \in Int /\ to \in Int
    BY <1>4, IndexerAssumption DEF FirstFetched
  <2> QED
    BY <2>1, <2>3, <2>4, CoversBoth
<1>14. to < Len(chain)
  BY <1>1, <1>3 DEF CoverInv, Resumes
<1>15. Complete(chain, open')
  BY <1>7, <1>8, <1>13, <1>14 DEF Complete
<1> QED
  BY <1>1, <1>15 DEF CoverInv

\* What is open is committed.
LEMMA CommitComplete ==
    ASSUME IndexerInv, PublishInv, CoverInv, Commit \/ RelayMessage
    PROVE  CoverInv'
<1>1. open \in Dbs /\ db \in Dbs /\ queue \in Seq(Events)
  BY DEF IndexerInv, StoreInv
<1>2. UNCHANGED <<chain, range, tasks, todo>>
  BY DEF Commit, RelayMessage, engineVars, chainVars
<1>3. CASE Commit
  <2>1. PICK store : store = [open EXCEPT !.balances = open.balances \o cache]
    OBVIOUS
  <2>2. store.events = open.events /\ store.head = open.head
    BY <1>1, <2>1, DbIs
  <2>3. db' = store /\ open' = store /\ pc' = "loop"
    BY <1>3, <2>1 DEF Commit, Execute
  <2>4. Complete(chain, store)
    BY <2>2 DEF CoverInv, Complete
  <2> QED
    BY <1>2, <2>3, <2>4 DEF CoverInv
<1>4. CASE RelayMessage
  <2>1. db' = open /\ open' = open /\ pc' = pc
    BY <1>4 DEF RelayMessage, Execute, engineVars
  <2>2. PICK evs, dbs : evs = open.events /\ dbs = db.events
    OBVIOUS
  <2>3. evs = dbs \o queue /\ dbs \in Seq(Events)
    BY <1>1, <2>2, DbIs DEF PublishInv
  <2>4. ToSet(dbs) \subseteq ToSet(evs)
    <3>1. ToSet(dbs \o queue) = ToSet(dbs) \cup ToSet(queue)
      BY <1>1, <2>3, ConcatSet
    <3> QED
      BY <2>3, <3>1
  <2>5. Resumes(chain, db, range) => Resumes(chain, open, range)
    BY <2>2, <2>4, CoversMore DEF Resumes
  <2> QED
    BY <1>2, <2>1, <2>5 DEF CoverInv
<1> QED
  BY <1>3, <1>4

\* Without the pending blocks, cursors of transactions are never written.
LEMMA NextNoPending ==
    ASSUME IndexerInv, NoPending, [Next]_vars
    PROVE  NoPending'
<1> SUFFICES ASSUME ~config.pendingBlocks PROVE NoPending'
  <2>1. config' = config
    BY DEF Next, Engine, vars, ExecuteTx, MineBlock, FetchRange, FetchLatest, FetchPending, FetchPage,
           FetchBlocks, FetchFails, Restart, ProcessTransaction, ProcessFails, ProcessTasks, Commit,
           RelayMessage, Crash, Panics, Lost
  <2> QED
    BY <2>1 DEF NoPending
<1>1. pc # "pending" /\ last = None /\ \A c \in Contracts : db.contractTx[c] = None /\ open.contractTx[c] = None
  BY DEF NoPending
<1>2. open \in Dbs /\ tasks \in Seq(Events) /\ EngineInv /\ StoreInv
  BY DEF IndexerInv, StoreInv, EngineInv
<1>3. CASE UNCHANGED vars
  BY <1>1, <1>3 DEF vars, NoPending, storeVars, writeVars, engineVars
<1>4. CASE ExecuteTx \/ MineBlock \/ FetchRange \/ FetchPage \/ FetchBlocks \/ FetchFails \/ Restart
  <2>1. UNCHANGED <<db, open>> /\ pc' # "pending" /\ last' = None
    BY <1>1, <1>4 DEF ExecuteTx, MineBlock, FetchRange, FetchPage, FetchBlocks, FetchFails, Restart,
       storeVars, writeVars, engineVars
  <2> QED
    BY <1>1, <2>1 DEF NoPending
<1>5. ~FetchLatest /\ ~FetchPending
  BY <1>1 DEF FetchLatest, FetchPending
<1>6. CASE ProcessTransaction
  <2>1. PICK now : now = AtOnce(Head(todo).events)
    OBVIOUS
  <2>2. now \in Seq(Events) /\ open' = Write(open, now)
    BY <1>2, <1>6, <2>1, HeadType DEF ProcessTransaction, ProcessEvents, AtOnce
  <2>3. open'.contractTx = open.contractTx
    BY <1>2, <2>2, WriteKeeps
  <2>4. db' = db /\ pc' = pc /\ last' = last
    BY <1>6 DEF ProcessTransaction, storeVars
  <2> QED
    BY <1>1, <2>3, <2>4 DEF NoPending
<1>7. CASE ProcessTasks
  <2>1. PICK store : store = Write(open, tasks)
    OBVIOUS
  <2>2. store.contractTx = open.contractTx
    BY <1>2, <2>1, WriteKeeps
  <2>3. open' = UpdateCursors(store, range.to, last) /\ db' = db /\ pc' = "commit" /\ last' = last
    BY <1>7, <2>1 DEF ProcessTasks, storeVars
  <2>4. \A c \in Contracts : open'.contractTx[c] = None
    BY <1>1, <2>2, <2>3 DEF UpdateCursors
  <2> QED
    BY <1>1, <2>3, <2>4 DEF NoPending
<1>8. CASE ProcessFails \/ Crash \/ Panics
  <2>1. db' = db /\ open' = db /\ last' = last /\ pc' # "pending"
    BY <1>8 DEF ProcessFails, Crash, Panics, Lost, storeVars
  <2> QED
    BY <1>1, <2>1 DEF NoPending
<1>9. CASE Commit
  <2>1. PICK store : store = [open EXCEPT !.balances = open.balances \o cache]
    OBVIOUS
  <2>2. store.contractTx = open.contractTx
    BY <1>2, <2>1, DbIs
  <2>3. db' = store /\ open' = store /\ pc' = "loop" /\ last' = last
    BY <1>9, <2>1 DEF Commit, Execute
  <2> QED
    BY <1>1, <2>2, <2>3 DEF NoPending
<1>10. CASE RelayMessage
  <2>1. db' = open /\ open' = open /\ pc' = pc /\ last' = last
    BY <1>10 DEF RelayMessage, Execute, engineVars
  <2> QED
    BY <1>1, <2>1 DEF NoPending
<1> QED
  BY <1>3, <1>4, <1>5, <1>6, <1>7, <1>8, <1>9, <1>10 DEF Next, Engine

\* Every step keeps what is fetched, written and committed complete.
LEMMA NextCovers ==
    ASSUME IndexerInv, PublishInv, OrderInv, NoPending, ~config.pendingBlocks, RangesFitPages, CoverInv,
           [Next]_vars
    PROVE  CoverInv'
<1>1. CASE \/ UNCHANGED vars \/ ExecuteTx \/ MineBlock
  <2>1. UNCHANGED <<db, open, pc, range, tasks, todo>> /\ (chain' = chain \/ \E x : chain' = Append(chain, x))
    BY <1>1 DEF vars, ExecuteTx, MineBlock, storeVars, writeVars, engineVars, chainVars
  <2>2. CASE chain' = chain
    BY <2>1, <2>2 DEF CoverInv
  <2> QED
    BY <2>1, <2>2, MoreChain
<1>2. CASE FetchFails \/ Restart
  <2>1. UNCHANGED <<chain, db, open>> /\ pc' = "loop"
    BY <1>2 DEF FetchFails, Restart, chainVars, storeVars, writeVars
  <2> QED
    BY <2>1 DEF CoverInv
<1>3. ~FetchLatest /\ ~FetchPending
  BY DEF FetchLatest, FetchPending, NoPending
<1>4. CASE ProcessFails \/ Crash \/ Panics
  <2>1. UNCHANGED <<chain, db>> /\ open' = db /\ pc' \in {"loop", "down"}
    BY <1>4 DEF ProcessFails, Crash, Panics, Lost, storeVars, chainVars
  <2> QED
    BY <2>1 DEF CoverInv
<1> QED
  BY <1>1, <1>2, <1>3, <1>4, RangeResumes, PageGathers, BlocksHold, ProcessHolds, TasksComplete, CommitComplete
     DEF Next, Engine

\* The invariant of HeadCovers: without the pending blocks, and as long as pages hold a whole range.
HeadInv == OrderInv /\ NoPending /\ (~config.pendingBlocks /\ RangesFitPages => CoverInv)

\* It holds at first ...
LEMMA InitHead == Init => HeadInv
<1> SUFFICES ASSUME Init PROVE HeadInv
  OBVIOUS
<1>1. db = NoDb /\ open = NoDb /\ pc = "loop" /\ last = None
  BY DEF Init
<1>2. NoDb.head = {} /\ \A c \in Contracts : NoDb.contractTx[c] = None
  BY DEF NoDb, None
<1>3. OrderInv
  BY DEF Init, OrderInv
<1>4. NoPending
  BY <1>1, <1>2 DEF NoPending
<1>5. CoverInv
  BY <1>1, <1>2 DEF CoverInv, Complete
<1> QED
  BY <1>3, <1>4, <1>5 DEF HeadInv

\* ... and is kept: a chain whose ranges fit into pages had such ranges before.
LEMMA NextHead == IndexerInv /\ IndexerInv' /\ PublishInv /\ HeadInv /\ [Next]_vars => HeadInv'
<1> SUFFICES ASSUME IndexerInv, IndexerInv', PublishInv, HeadInv, [Next]_vars PROVE HeadInv'
  OBVIOUS
<1>1. OrderInv'
  BY DEF HeadInv, OrderInv, Next, Engine, vars, ExecuteTx, MineBlock, FetchRange, FetchLatest, FetchPending,
         FetchPage, FetchBlocks, FetchFails, Restart, ProcessTransaction, ProcessFails, ProcessTasks, Commit,
         RelayMessage, Crash, Panics, Lost, engineVars
<1>2. NoPending'
  BY NextNoPending DEF HeadInv
<1>3. config' = config
  BY DEF Next, Engine, vars, ExecuteTx, MineBlock, FetchRange, FetchLatest, FetchPending, FetchPage,
         FetchBlocks, FetchFails, Restart, ProcessTransaction, ProcessFails, ProcessTasks, Commit,
         RelayMessage, Crash, Panics, Lost
<1>4. chain' = chain \/ \E x : chain' = Append(chain, x)
  BY DEF Next, Engine, vars, ExecuteTx, MineBlock, FetchRange, FetchLatest, FetchPending, FetchPage,
         FetchBlocks, FetchFails, Restart, ProcessTransaction, ProcessFails, ProcessTasks, Commit,
         RelayMessage, Crash, Panics, Lost, chainVars
<1>5. ChainInv /\ ChainInv' /\ config \in Configs
  BY DEF IndexerInv, NodeInv
<1>6. ASSUME ~config'.pendingBlocks, RangesFitPages' PROVE CoverInv'
  <2>1. RangesFitPages
    BY <1>3, <1>4, <1>5, <1>6, FitBefore
  <2> QED
    BY <1>3, <1>6, <2>1, NextCovers DEF HeadInv
<1> QED
  BY <1>1, <1>2, <1>6 DEF HeadInv

\* HeadCovers: without the pending blocks, and with pages that hold a whole range, the events of
\* the indexed contracts in every block up to the head are committed, however often a request or
\* a transaction fails, the relay commits half of what the engine writes, or torii ends.
THEOREM HeadIsComplete == Spec => []HeadCovers
<1>1. IndexerInv /\ HeadInv /\ TypeInv => HeadCovers
  <2> SUFFICES ASSUME IndexerInv, HeadInv, ~config.pendingBlocks, RangesFitPages,
                      NEW head \in db.head
               PROVE  CommittedUpTo(head)
    BY DEF HeadCovers
  <2>1. PICK evs, ch : evs = db.events /\ ch = chain
    OBVIOUS
  <2>2. evs \in Seq(Events) /\ head \in Nat /\ FirstFetched \in Nat
    BY <2>1, DbIs, IndexerAssumption DEF IndexerInv, StoreInv, FirstFetched
  <2>3. \A c \in Contracts : Covers(ch, ToSet(evs), c, FirstFetched, head)
    BY <2>1 DEF HeadInv, CoverInv, Complete
  <2> SUFFICES ASSUME NEW k \in (FirstFetched + 1)..(head + 1), NEW j \in DOMAIN ch[k],
                      NEW i \in DOMAIN ch[k][j].events, ch[k][j].events[i] \in Contracts
               PROVE  \E e \in DOMAIN evs : evs[e].tx = ch[k][j].hash /\ evs[e].at = i
    BY <2>1 DEF CommittedUpTo
  <2>4. PICK b, c : b = k - 1 /\ c = ch[k][j].events[i]
    OBVIOUS
  <2>5. b \in FirstFetched..head /\ b + 1 = k
    BY <2>2, <2>4
  <2>6. [block |-> b, tx |-> ch[k][j].hash, at |-> i, from |-> c] \in ToSet(evs)
    BY <2>3, <2>4, <2>5 DEF Covers
  <2>7. PICK e \in DOMAIN evs : evs[e] = [block |-> b, tx |-> ch[k][j].hash, at |-> i, from |-> c]
    BY <2>6 DEF ToSet
  <2> QED
    BY <2>7
<1>2. Spec => [](IndexerInv /\ PublishInv)
  BY InitPublished, NextPublished, IndexerInvHolds, PTL DEF Spec
<1>3. Spec => []HeadInv
  BY <1>2, InitHead, NextHead, PTL DEF Spec
<1> QED
  BY <1>1, <1>2, <1>3, TypeCorrect, PTL

-----------------------------------------------------------------------------
(* Sequences in order *)

\* The elements of a sequence, or of two sets, are in the relation R one after the other.
Ordered(s, R) == \A i, j \in 1..Len(s) : i < j => <<s[i], s[j]>> \in R
Precede(S, U, R) == \A x \in S, y \in U : <<x, y>> \in R

\* A sequence is in order when its parts are, and one precedes the other.
LEMMA OrderedConcat ==
    ASSUME NEW T, NEW s \in Seq(T), NEW u \in Seq(T), NEW R
    PROVE  Ordered(s \o u, R) <=> Ordered(s, R) /\ Ordered(u, R) /\ Precede(ToSet(s), ToSet(u), R)
<1>1. PICK w, m, n : w = s \o u /\ m = Len(s) /\ n = Len(u)
  OBVIOUS
<1>2. /\ m \in Nat /\ n \in Nat /\ Len(w) = m + n
      /\ \A i \in 1..m : w[i] = s[i]
      /\ \A i \in 1..n : w[m + i] = u[i]
  BY <1>1
<1>3. ASSUME Ordered(w, R) PROVE Ordered(s, R) /\ Ordered(u, R) /\ Precede(ToSet(s), ToSet(u), R)
  <2>1. ASSUME NEW i \in 1..m, NEW j \in 1..m, i < j PROVE <<s[i], s[j]>> \in R
    <3>1. i \in 1..Len(w) /\ j \in 1..Len(w)
      BY <1>2
    <3> QED
      BY <1>2, <1>3, <2>1, <3>1 DEF Ordered
  <2>2. ASSUME NEW i \in 1..n, NEW j \in 1..n, i < j PROVE <<u[i], u[j]>> \in R
    <3>1. m + i \in 1..Len(w) /\ m + j \in 1..Len(w) /\ m + i < m + j
      BY <1>2, <2>2
    <3> QED
      BY <1>2, <1>3, <3>1 DEF Ordered
  <2>3. ASSUME NEW i \in 1..m, NEW j \in 1..n PROVE <<s[i], u[j]>> \in R
    <3>1. i \in 1..Len(w) /\ m + j \in 1..Len(w) /\ i < m + j
      BY <1>2
    <3> QED
      BY <1>2, <1>3, <3>1 DEF Ordered
  <2>4. Precede(ToSet(s), ToSet(u), R)
    <3> SUFFICES ASSUME NEW x \in ToSet(s), NEW y \in ToSet(u) PROVE <<x, y>> \in R
      BY DEF Precede
    <3>1. PICK i \in 1..m : x = s[i]
      BY <1>1, InSet
    <3>2. PICK j \in 1..n : y = u[j]
      BY <1>1, InSet
    <3> QED
      BY <2>3, <3>1, <3>2
  <2> QED
    BY <1>1, <2>1, <2>2, <2>4 DEF Ordered
<1>4. ASSUME Ordered(s, R), Ordered(u, R), Precede(ToSet(s), ToSet(u), R) PROVE Ordered(w, R)
  <2> SUFFICES ASSUME NEW i \in 1..Len(w), NEW j \in 1..Len(w), i < j PROVE <<w[i], w[j]>> \in R
    BY DEF Ordered
  <2>1. CASE j <= m
    <3>1. i \in 1..m /\ j \in 1..m
      BY <1>2, <2>1
    <3> QED
      BY <1>1, <1>2, <1>4, <3>1 DEF Ordered
  <2>2. CASE i > m
    <3>1. PICK k, l : k = i - m /\ l = j - m
      OBVIOUS
    <3>2. k \in 1..n /\ l \in 1..n /\ k < l /\ i = m + k /\ j = m + l
      BY <1>2, <2>2, <3>1
    <3>3. w[i] = u[k] /\ w[j] = u[l]
      BY <1>2, <3>2
    <3> QED
      BY <1>1, <1>4, <3>2, <3>3 DEF Ordered
  <2>3. CASE i <= m /\ j > m
    <3>1. PICK l : l = j - m
      OBVIOUS
    <3>2. i \in 1..m /\ l \in 1..n /\ j = m + l
      BY <1>2, <2>3, <3>1
    <3>3. w[i] = s[i] /\ w[j] = u[l]
      BY <1>2, <3>2
    <3>4. s[i] \in ToSet(s) /\ u[l] \in ToSet(u)
      BY <1>1, <3>2, InSet
    <3> QED
      BY <1>4, <3>3, <3>4 DEF Precede
  <2> QED
    BY <1>2, <2>1, <2>2, <2>3
<1> QED
  BY <1>1, <1>3, <1>4

\* The same for one element more.
LEMMA OrderedAppend ==
    ASSUME NEW T, NEW s \in Seq(T), NEW x \in T, NEW R, Ordered(s, R), \A y \in ToSet(s) : <<y, x>> \in R
    PROVE  Ordered(Append(s, x), R)
<1>1. PICK w, m : w = Append(s, x) /\ m = Len(s)
  OBVIOUS
<1>2. /\ m \in Nat /\ Len(w) = m + 1 /\ w[m + 1] = x
      /\ \A i \in 1..m : w[i] = s[i]
  BY <1>1
<1> SUFFICES ASSUME NEW i \in 1..Len(w), NEW j \in 1..Len(w), i < j PROVE <<w[i], w[j]>> \in R
  BY <1>1 DEF Ordered
<1>3. i \in 1..m
  BY <1>2
<1>4. w[i] = s[i] /\ s[i] \in ToSet(s)
  BY <1>1, <1>2, <1>3, InSet
<1>5. CASE j = m + 1
  BY <1>2, <1>4, <1>5
<1>6. CASE j \in 1..m
  BY <1>1, <1>2, <1>3, <1>4, <1>6 DEF Ordered
<1> QED
  BY <1>2, <1>5, <1>6

\* What is taken from a sequence stays in order.
LEMMA OrderedAmong ==
    ASSUME NEW T, NEW s \in Seq(T), NEW S, NEW R, Ordered(s, R)
    PROVE  Ordered(Among(s, S), R)
<1> DEFINE P == {r \in Seq(T) : Ordered(r, R) => Ordered(Among(r, S), R)}
<1>1. <<>> \in P
  BY AmongNone
<1>2. ASSUME NEW r \in Seq(T), NEW x \in T, r \in P PROVE Append(r, x) \in P
  <2>1. PICK q : q = Append(r, x)
    OBVIOUS
  <2>2. q \in Seq(T)
    BY <2>1
  <2> SUFFICES ASSUME Ordered(q, R) PROVE Ordered(Among(q, S), R)
    BY <2>1, <2>2
  <2>3. Ordered(r, R) /\ \A y \in ToSet(r) : <<y, x>> \in R
    <3>1. /\ Len(r) \in Nat /\ Len(q) = Len(r) + 1 /\ q[Len(r) + 1] = x
          /\ \A i \in 1..Len(r) : q[i] = r[i]
      BY <2>1
    <3>2. \A i \in 1..Len(r) : i \in 1..Len(q) /\ Len(r) + 1 \in 1..Len(q) /\ i < Len(r) + 1
      BY <3>1
    <3>3. Ordered(r, R)
      BY <3>1, <3>2 DEF Ordered
    <3>4. ASSUME NEW y \in ToSet(r) PROVE <<y, x>> \in R
      <4>1. PICK i \in 1..Len(r) : y = r[i]
        BY InSet
      <4> QED
        BY <3>1, <3>2, <4>1 DEF Ordered
    <3> QED
      BY <3>3, <3>4
  <2>4. Among(q, S) = IF x \in S THEN Append(Among(r, S), x) ELSE Among(r, S)
    BY <2>1, AmongAppend
  <2>5. PICK a : a = Among(r, S)
    OBVIOUS
  <2>6. a \in Seq(T) /\ ToSet(a) \subseteq ToSet(r) /\ Ordered(a, R)
    BY <1>2, <2>3, <2>5, AmongType, AmongSet
  <2>7. Ordered(Append(a, x), R)
    BY <2>3, <2>6, OrderedAppend
  <2> QED
    BY <2>4, <2>5, <2>6, <2>7
<1>3. s \in P
  <2>1. \A r \in Seq(T), x \in T : r \in P => Append(r, x) \in P
    BY <1>2
  <2>2. P \subseteq Seq(T)
    OBVIOUS
  <2> HIDE DEF P
  <2> QED
    BY <1>1, <2>1, <2>2, SequenceInduction
<1> QED
  BY <1>3

\* So does what is left of it.
LEMMA OrderedDrop ==
    ASSUME NEW T, NEW s \in Seq(T), NEW n \in Nat, NEW R, Ordered(s, R)
    PROVE  Ordered(Drop(s, n), R) /\ ToSet(Drop(s, n)) \subseteq ToSet(s) /\ Drop(s, n) \in Seq(T)
<1>1. PICK d, len : d = Drop(s, n) /\ len = Len(s)
  OBVIOUS
<1>2. d \in Seq(T) /\ len \in Nat
  BY <1>1, DropIs
<1>3. \A i \in 1..(len - n) : d[i] = s[n + i]
  BY <1>1, DropIs
<1>4. \A i \in 1..Len(d) : i \in 1..(len - n)
  <2>1. n <= len => Len(d) = len - n
    BY <1>1, DropIs
  <2>2. n >= len => d = <<>>
    BY <1>1, DropIs
  <2> QED
    BY <1>2, <2>1, <2>2
<1>5. \A i \in 1..Len(d) : d[i] = s[n + i] /\ n + i \in 1..len
  BY <1>2, <1>3, <1>4
<1>6. Ordered(d, R)
  BY <1>1, <1>5 DEF Ordered
<1>7. ASSUME NEW x \in ToSet(d) PROVE x \in ToSet(s)
  <2>1. PICK i \in 1..Len(d) : x = d[i]
    BY <1>2, InSet
  <2> QED
    BY <1>1, <1>5, <2>1, InSet
<1> QED
  BY <1>1, <1>2, <1>6, <1>7

\* The order that the elements of a sequence are in may be weaker.
LEMMA OrderedAlso ==
    ASSUME NEW T, NEW s \in Seq(T), NEW R, Ordered(s, R), NEW Q,
           \A x \in ToSet(s), y \in ToSet(s) : <<x, y>> \in R => <<x, y>> \in Q
    PROVE  Ordered(s, Q)
<1>1. \A i \in 1..Len(s) : s[i] \in ToSet(s)
  BY InSet
<1> QED
  BY <1>1 DEF Ordered

-----------------------------------------------------------------------------
(* The events of the chain are in order *)

\* The transactions of the chain and of the pending block are numbered in their order, and the
\* first block has none.
HashInv ==
    /\ chain[1] = <<>>
    /\ \A a, b \in DOMAIN chain : \A i \in DOMAIN chain[a], j \in DOMAIN chain[b] :
          a < b \/ (a = b /\ i < j) => chain[a][i].hash < chain[b][j].hash
    /\ \A a \in DOMAIN chain : \A i \in DOMAIN chain[a] :
          chain[a][i].hash <= txs /\ \A k \in DOMAIN pending : chain[a][i].hash < pending[k].hash
    /\ \A k \in DOMAIN pending :
          pending[k].hash <= txs /\ \A l \in DOMAIN pending : k < l => pending[k].hash < pending[l].hash

\* Event e is before f in the chain.
Pre(e, f) ==
    \/ e.tx < f.tx /\ e.block <= f.block
    \/ e.tx = f.tx /\ e.block = f.block /\ e.at < f.at
PresOf(T) == {p \in T \X T : Pre(p[1], p[2])}
Pres == PresOf(PageEvents)

\* The events of a transaction, one after the other.
Listing(all, ev, block, tx) ==
    all = [i \in DOMAIN ev |-> [block |-> block, tx |-> tx, at |-> i, from |-> ev[i]]]

\* The events of a transaction are in order.
LEMMA ListedOrdered ==
    ASSUME NEW ev, ev \in Seq(ToSet(ev)), NEW block, NEW tx, NEW S, NEW all,
           Listing(all, ev, block, tx)
    PROVE  Ordered(Among(all, S), PresOf(ToSet(all))) /\ ToSet(Among(all, S)) \subseteq ToSet(all)
           /\ Among(all, S) \in Seq(ToSet(all))
<1>0. all = [i \in DOMAIN ev |-> [block |-> block, tx |-> tx, at |-> i, from |-> ev[i]]]
  BY DEF Listing
<1>1. Len(ev) \in Nat /\ DOMAIN ev = 1..Len(ev)
  OBVIOUS
<1>2. all \in Seq(ToSet(all)) /\ Len(all) = Len(ev)
  <2>1. \A n \in 1..Len(ev) : all[n] \in ToSet(all)
    BY <1>0, <1>1 DEF ToSet
  <2>2. all = [n \in 1..Len(ev) |-> all[n]]
    BY <1>0, <1>1
  <2> QED
    BY <1>1, <2>1, <2>2, IsASeq
<1>3. Ordered(all, PresOf(ToSet(all)))
  <2> SUFFICES ASSUME NEW i \in 1..Len(all), NEW j \in 1..Len(all), i < j
               PROVE  <<all[i], all[j]>> \in PresOf(ToSet(all))
    BY DEF Ordered
  <2>1. i \in DOMAIN ev /\ j \in DOMAIN ev /\ all[i] \in ToSet(all) /\ all[j] \in ToSet(all)
    BY <1>1, <1>2, InSet
  <2>2. all[i] = [block |-> block, tx |-> tx, at |-> i, from |-> ev[i]]
        /\ all[j] = [block |-> block, tx |-> tx, at |-> j, from |-> ev[j]]
    BY <1>0, <2>1
  <2>3. Pre(all[i], all[j])
    BY <2>2 DEF Pre
  <2> QED
    BY <2>1, <2>3 DEF PresOf
<1> QED
  BY <1>2, <1>3, OrderedAmong, AmongSet, AmongType

\* What is returned of a transaction is in order.
LEMMA FilteredOrdered ==
    ASSUME NEW tx, tx.hash \in 1..MaxTxs, tx.events \in Shapes,
           NEW block \in -1..MaxBlocks, NEW contract \in Contracts
    PROVE  Ordered(Filtered(tx, block, contract), Pres)
<1>1. PICK ev, hash : ev = tx.events /\ hash = tx.hash
  OBVIOUS
<1>2. ev \in Seq(ToSet(ev))
  BY <1>1, ShapeIs
<1>3. PICK all, S, R, w :
          /\ all = [i \in DOMAIN ev |-> [block |-> block, tx |-> hash, at |-> i, from |-> ev[i]]]
          /\ S = {e \in ToSet(all) : e.from = contract}
          /\ R = PresOf(ToSet(all))
          /\ w = Filtered(tx, block, contract)
  OBVIOUS
<1>4. w = Among(all, S)
  BY <1>1, <1>3 DEF Filtered, Where
<1>5. Ordered(w, R)
  <2>1. Listing(all, ev, block, hash)
    BY <1>3 DEF Listing
  <2> QED
    BY <1>2, <1>3, <1>4, <2>1, ListedOrdered
<1>6. w \in Seq(PageEvents)
  BY <1>3, FilteredType
<1>7. \A x \in ToSet(w), y \in ToSet(w) : <<x, y>> \in R => <<x, y>> \in Pres
  BY <1>3, <1>6, SeqToSet DEF Pres, PresOf
<1> QED
  BY <1>3, <1>5, <1>6, <1>7, OrderedAlso

\* The events of the transaction at a position.
LEMMA ContentOf ==
    ASSUME ChainInv, NEW n \in Nat, n <= Latest, NEW i \in Nat, i < Len(Block(n)), NEW c \in Contracts
    PROVE  /\ Content(<<n, i>>, c) \in Seq(PageEvents)
           /\ Ordered(Content(<<n, i>>, c), Pres)
           /\ \A e \in ToSet(Content(<<n, i>>, c)) :
                 e.block = n /\ e.from = c /\ e.tx = Block(n)[i + 1].hash /\ e \in PageEvents
<1>1. Len(Block(n)) \in Nat
  BY LeftIs
<1>2. <<n, i>> \in Places
  BY <1>1 DEF Places
<1>3. PICK tx : tx = Block(n)[i + 1]
  OBVIOUS
<1>4. tx \in MinedTxs /\ n \in -1..MaxBlocks
  BY <1>2, <1>3, ContentType
<1>5. tx.hash \in 1..MaxTxs /\ tx.events \in Shapes
  BY <1>4 DEF MinedTxs
<1>6. Content(<<n, i>>, c) = Filtered(tx, n, c)
  BY <1>3 DEF Content
<1>7. Filtered(tx, n, c) \in Seq(PageEvents) /\ Ordered(Filtered(tx, n, c), Pres)
  BY <1>4, <1>5, FilteredType, FilteredOrdered
<1>8. \A e \in ToSet(Filtered(tx, n, c)) : e.block = n /\ e.tx = tx.hash /\ e.from = c
  BY <1>4, <1>5, FilteredType
<1> QED
  BY <1>3, <1>6, <1>7, <1>8, SeqToSet

\* Transactions that follow one another have greater numbers.
LEMMA HashLess ==
    ASSUME ChainInv, HashInv, NEW m \in Nat, NEW n \in Nat, m <= Latest, n <= Latest,
           NEW i \in Nat, NEW j \in Nat, i < Len(Block(m)), j < Len(Block(n)),
           m < n \/ (m = n /\ i < j)
    PROVE  Block(m)[i + 1].hash < Block(n)[j + 1].hash
<1>1. PICK ch, a, b : ch = chain /\ a = m + 1 /\ b = n + 1
  OBVIOUS
<1>2. a \in DOMAIN chain /\ b \in DOMAIN chain
  <2>1. DOMAIN chain = 1..Len(chain) /\ Len(chain) \in Nat /\ Latest = Len(chain) - 1
    BY DEF ChainInv, Latest
  <2> QED
    BY <1>1, <2>1
<1>3. Block(m) = chain[a] /\ Block(n) = chain[b]
  BY <1>1 DEF Block
<1>4. Block(m) \in Seq(MinedTxs) /\ Block(n) \in Seq(MinedTxs)
  BY BlockType
<1>5. i + 1 \in DOMAIN chain[a] /\ j + 1 \in DOMAIN chain[b]
  BY <1>3, <1>4
<1>6. a < b \/ (a = b /\ i + 1 < j + 1)
  BY <1>1
<1> QED
  BY <1>2, <1>3, <1>5, <1>6 DEF HashInv

\* Events of such transactions are in order.
LEMMA PreAt ==
    ASSUME ChainInv, HashInv, NEW c \in Contracts, NEW m \in Nat, NEW n \in Nat, m <= Latest, n <= Latest,
           NEW i \in Nat, NEW j \in Nat, i < Len(Block(m)), j < Len(Block(n)),
           m < n \/ (m = n /\ i < j),
           NEW e \in ToSet(Content(<<m, i>>, c)), NEW f \in ToSet(Content(<<n, j>>, c))
    PROVE  <<e, f>> \in Pres
<1>1. Block(m)[i + 1].hash < Block(n)[j + 1].hash
  BY HashLess
<1>2. e.block = m /\ e.tx = Block(m)[i + 1].hash /\ e \in PageEvents
  BY ContentOf
<1>3. f.block = n /\ f.tx = Block(n)[j + 1].hash /\ f \in PageEvents
  BY ContentOf
<1>4. Pre(e, f)
  BY <1>1, <1>2, <1>3 DEF Pre
<1> QED
  BY <1>2, <1>3, <1>4 DEF Pres, PresOf

\* The events of a block from a transaction on are in order.
LEMMA RowOrdered ==
    ASSUME ChainInv, HashInv, NEW n \in Nat, n <= Latest, NEW idx \in Nat, NEW c \in Contracts
    PROVE  Ordered(RowEvents(n, idx, c), Pres)
<1>0. Len(Block(n)) \in Nat
  BY LeftIs
<1>1. PICK len : len = Len(Block(n))
  OBVIOUS
<1> DEFINE N == {d \in Nat : d <= len => Ordered(RowEvents(n, len - d, c), Pres)}
<1>2. ASSUME NEW i \in Nat, ~(i < len) PROVE Ordered(RowEvents(n, i, c), Pres)
  <2>1. RowEvents(n, i, c) = <<>>
    BY <1>1, <1>2, RowEventsIs
  <2> QED
    BY <2>1 DEF Ordered
<1>3. 0 \in N
  <2>1. len - 0 \in Nat /\ ~(len - 0 < len)
    BY <1>0, <1>1
  <2> QED
    BY <1>2, <2>1
<1>4. ASSUME NEW d \in Nat, d \in N PROVE d + 1 \in N
  <2> SUFFICES ASSUME d + 1 <= len PROVE Ordered(RowEvents(n, len - (d + 1), c), Pres)
    OBVIOUS
  <2>1. PICK i : i = len - (d + 1)
    OBVIOUS
  <2>2. i \in Nat /\ i < Len(Block(n)) /\ i + 1 = len - d /\ d <= len /\ i + 1 \in Nat
    BY <1>0, <1>1, <2>1
  <2>3. PICK s, u : s = Content(<<n, i>>, c) /\ u = RowEvents(n, i + 1, c)
    OBVIOUS
  <2>4. RowEvents(n, i, c) = s \o u /\ u \in Seq(PageEvents)
    BY <2>2, <2>3, RowEventsIs
  <2>5. s \in Seq(PageEvents) /\ Ordered(s, Pres)
    BY <2>2, <2>3, ContentOf
  <2>6. Ordered(u, Pres)
    BY <1>4, <2>2, <2>3
  <2>7. Precede(ToSet(s), ToSet(u), Pres)
    <3> SUFFICES ASSUME NEW e \in ToSet(s), NEW f \in ToSet(u) PROVE <<e, f>> \in Pres
      BY DEF Precede
    <3>1. PICK j \in Nat : i + 1 <= j /\ j < Len(Block(n)) /\ f \in ToSet(Content(<<n, j>>, c))
      BY <2>2, <2>3, RowOf
    <3>2. i < j
      BY <2>2, <3>1
    <3> QED
      BY <2>2, <2>3, <3>1, <3>2, PreAt
  <2>8. Ordered(s \o u, Pres)
    BY <2>4, <2>5, <2>6, <2>7, OrderedConcat
  <2> QED
    BY <2>1, <2>4, <2>8
<1>5. Nat \subseteq N
  <2>1. \A d \in Nat : d \in N => d + 1 \in N
    BY <1>4
  <2> HIDE DEF N
  <2> QED
    BY <1>3, <2>1, SetInduction
<1>6. CASE idx <= len
  <2>1. PICK d : d = len - idx
    OBVIOUS
  <2>2. d \in Nat /\ d <= len /\ len - d = idx
    BY <1>0, <1>1, <1>6, <2>1
  <2> QED
    BY <1>5, <2>2
<1>7. CASE ~(idx <= len)
  <2>1. ~(idx < len)
    BY <1>0, <1>1, <1>7
  <2> QED
    BY <1>2, <2>1
<1> QED
  BY <1>6, <1>7

\* The events of a range of blocks are of these blocks, of transactions of the chain, and in order.
MinedOk(n, c) ==
    /\ Ordered(MinedEvents(n, Latest, c), Pres)
    /\ \A f \in ToSet(MinedEvents(n, Latest, c)) :
          \E m, j \in Nat : n <= m /\ m <= Latest /\ j < Len(Block(m)) /\ f \in ToSet(Content(<<m, j>>, c))

\* The events of a block and of those after it.
LEMMA MinedOrdered ==
    ASSUME ChainInv, HashInv, NEW n \in Nat, NEW c \in Contracts
    PROVE  MinedOk(n, c)
<1>0. Latest \in Nat
  BY PendingCursors
<1>1. PICK top : top = Latest + 1
  OBVIOUS
<1>2. top \in Nat
  BY <1>0, <1>1
<1> DEFINE N == {d \in Nat : d <= top => MinedOk(top - d, c)}
<1>3. ASSUME NEW i \in Nat, i > Latest PROVE MinedOk(i, c)
  <2>1. MinedEvents(i, Latest, c) = <<>>
    BY <1>3, MinedEventsIs
  <2>2. ToSet(<<>>) = {} /\ Ordered(<<>>, Pres)
    BY DEF ToSet, Ordered
  <2> QED
    BY <2>1, <2>2 DEF MinedOk
<1>4. 0 \in N
  <2>1. top - 0 \in Nat /\ top - 0 > Latest
    BY <1>0, <1>1
  <2> QED
    BY <1>3, <2>1
<1>5. ASSUME NEW d \in Nat, d \in N PROVE d + 1 \in N
  <2> SUFFICES ASSUME d + 1 <= top PROVE MinedOk(top - (d + 1), c)
    OBVIOUS
  <2>1. PICK i : i = top - (d + 1)
    OBVIOUS
  <2>2. i \in Nat /\ i <= Latest /\ i + 1 = top - d /\ d <= top /\ i + 1 \in Nat
    BY <1>0, <1>1, <2>1
  <2>3. PICK s, u : s = RowEvents(i, 0, c) /\ u = MinedEvents(i + 1, Latest, c)
    OBVIOUS
  <2>4. MinedEvents(i, Latest, c) = s \o u
    BY <2>2, <2>3, MinedEventsIs
  <2>5. u \in Seq(PageEvents)
    BY <2>2, <2>3, MinedEventsIs
  <2>6. s \in Seq(PageEvents) /\ Ordered(s, Pres)
    BY <2>2, <2>3, RowEventsIs, RowOrdered
  <2>7. MinedOk(i + 1, c)
    BY <1>5, <2>2
  <2>8. Ordered(u, Pres)
    BY <2>3, <2>7 DEF MinedOk
  <2>9. ASSUME NEW f \in ToSet(u)
        PROVE  \E m, j \in Nat : i + 1 <= m /\ m <= Latest /\ j < Len(Block(m)) /\ f \in ToSet(Content(<<m, j>>, c))
    BY <2>3, <2>7 DEF MinedOk
  <2>10. ASSUME NEW e \in ToSet(s)
         PROVE  \E j \in Nat : j < Len(Block(i)) /\ e \in ToSet(Content(<<i, j>>, c))
    BY <2>2, <2>3, RowOf
  <2>11. Precede(ToSet(s), ToSet(u), Pres)
    <3> SUFFICES ASSUME NEW e \in ToSet(s), NEW f \in ToSet(u) PROVE <<e, f>> \in Pres
      BY DEF Precede
    <3>1. PICK j \in Nat : j < Len(Block(i)) /\ e \in ToSet(Content(<<i, j>>, c))
      BY <2>10
    <3>2. PICK m, k \in Nat : i + 1 <= m /\ m <= Latest /\ k < Len(Block(m)) /\ f \in ToSet(Content(<<m, k>>, c))
      BY <2>9
    <3>3. i < m
      BY <2>2, <3>2
    <3> QED
      BY <2>2, <3>1, <3>2, <3>3, PreAt
  <2>12. Ordered(s \o u, Pres) /\ ToSet(s \o u) = ToSet(s) \cup ToSet(u)
    BY <2>5, <2>6, <2>8, <2>11, OrderedConcat, ConcatSet
  <2>13. ASSUME NEW f \in ToSet(s \o u)
         PROVE  \E m, j \in Nat : i <= m /\ m <= Latest /\ j < Len(Block(m)) /\ f \in ToSet(Content(<<m, j>>, c))
    <3>1. CASE f \in ToSet(s)
      <4>1. i <= i
        BY <2>2
      <4> QED
        BY <2>2, <2>10, <3>1, <4>1
    <3>2. CASE f \in ToSet(u)
      <4>1. \A m \in Nat : i + 1 <= m => i <= m
        BY <2>2
      <4> QED
        BY <2>9, <3>2, <4>1
    <3> QED
      BY <2>12, <3>1, <3>2
  <2> QED
    BY <2>1, <2>4, <2>12, <2>13 DEF MinedOk
<1>6. Nat \subseteq N
  <2>1. \A d \in Nat : d \in N => d + 1 \in N
    BY <1>5
  <2> HIDE DEF N
  <2> QED
    BY <1>4, <2>1, SetInduction
<1>7. CASE n <= Latest
  <2>1. PICK d : d = top - n
    OBVIOUS
  <2>2. d \in Nat /\ d <= top /\ top - d = n
    BY <1>0, <1>1, <1>7, <2>1
  <2> QED
    BY <1>6, <2>2
<1>8. CASE n > Latest
  BY <1>3, <1>8
<1> QED
  BY <1>0, <1>7, <1>8

\* The events from a transaction on are in order, and so are those from a cursor on.
LEMMA RestOrdered ==
    ASSUME ChainInv, HashInv, NEW q \in Cursors, NEW c \in Contracts
    PROVE  Ordered(Rest(q, c), Pres)
<1>0. Latest \in Nat /\ q.block \in Nat /\ q.idx \in Nat /\ q.event \in Nat
  BY PendingCursors DEF Cursors
<1>1. ASSUME NEW n \in Nat, NEW i \in Nat PROVE Ordered(EventsFrom(n, i, c), Pres)
  <2>1. CASE n > Latest
    <3>1. EventsFrom(n, i, c) = <<>>
      BY <2>1, EventsFromIs
    <3> QED
      BY <3>1 DEF Ordered
  <2>2. CASE n <= Latest
    <3>1. PICK s, u : s = RowEvents(n, i, c) /\ u = MinedEvents(n + 1, Latest, c)
      OBVIOUS
    <3>2. EventsFrom(n, i, c) = s \o u
      BY <2>2, <3>1 DEF EventsFrom
    <3>3. n + 1 \in Nat
      OBVIOUS
    <3>4. s \in Seq(PageEvents) /\ Ordered(s, Pres) /\ u \in Seq(PageEvents)
      BY <2>2, <3>1, <3>3, RowEventsIs, RowOrdered, MinedEventsIs
    <3>5. MinedOk(n + 1, c)
      BY <3>3, MinedOrdered
    <3>6. Precede(ToSet(s), ToSet(u), Pres)
      <4> SUFFICES ASSUME NEW e \in ToSet(s), NEW f \in ToSet(u) PROVE <<e, f>> \in Pres
        BY DEF Precede
      <4>1. PICK j \in Nat : j < Len(Block(n)) /\ e \in ToSet(Content(<<n, j>>, c))
        BY <2>2, <3>1, RowOf
      <4>2. PICK m, k \in Nat : n + 1 <= m /\ m <= Latest /\ k < Len(Block(m)) /\ f \in ToSet(Content(<<m, k>>, c))
        BY <3>1, <3>5 DEF MinedOk
      <4>3. n < m
        BY <4>2
      <4> QED
        BY <2>2, <4>1, <4>2, <4>3, PreAt
    <3>7. Ordered(u, Pres)
      BY <3>1, <3>5 DEF MinedOk
    <3> QED
      BY <3>2, <3>4, <3>6, <3>7, OrderedConcat
  <2> QED
    BY <1>0, <2>1, <2>2
<1>2. PICK n, i, k : n = q.block /\ i = q.idx /\ k = q.event
  OBVIOUS
<1>3. CASE n <= Latest /\ i < Len(Block(n))
  <2>1. PICK s, d, u : s = Content(<<n, i>>, c) /\ d = Drop(s, k) /\ u = EventsFrom(n, i + 1, c)
    OBVIOUS
  <2>2. Rest(q, c) = d \o u
    BY <1>2, <1>3, <2>1 DEF Rest
  <2>3. i + 1 \in Nat
    BY <1>0, <1>2
  <2>4. EventsFrom(n, i, c) = s \o u /\ s \in Seq(PageEvents) /\ u \in Seq(PageEvents)
    BY <1>0, <1>2, <1>3, <2>1, <2>3, EventsFromIs, ContentOf
  <2>5. Ordered(s, Pres) /\ Ordered(u, Pres) /\ Precede(ToSet(s), ToSet(u), Pres)
    <3>1. Ordered(EventsFrom(n, i, c), Pres)
      BY <1>0, <1>1, <1>2
    <3>2. Ordered(s \o u, Pres)
      BY <2>4, <3>1
    <3> QED
      BY <2>4, <3>2, OrderedConcat
  <2>6. d \in Seq(PageEvents) /\ Ordered(d, Pres) /\ ToSet(d) \subseteq ToSet(s)
    BY <1>0, <1>2, <2>1, <2>4, <2>5, OrderedDrop
  <2>7. Precede(ToSet(d), ToSet(u), Pres)
    BY <2>5, <2>6 DEF Precede
  <2> QED
    BY <2>2, <2>4, <2>5, <2>6, <2>7, OrderedConcat
<1>4. CASE ~(n <= Latest /\ i < Len(Block(n)))
  BY <1>0, <1>1, <1>2, <1>4 DEF Rest
<1> QED
  BY <1>3, <1>4

\* Each event after a cursor is of a transaction of a block after the first.
LEMMA RestOf ==
    ASSUME ChainInv, HashInv, NEW q \in Cursors, NEW c \in Contracts, NEW f \in ToSet(Rest(q, c))
    PROVE  q.block <= f.block /\ f.block <= Latest /\ f.block \in Nat \ {0} /\ f.from = c
<1>0. Latest \in Nat /\ q.block \in Nat /\ q.idx \in Nat /\ q.event \in Nat
  BY PendingCursors DEF Cursors
<1>1. PICK n, i, k : n = q.block /\ i = q.idx /\ k = q.event
  OBVIOUS
<1>2. ASSUME NEW m \in Nat, NEW j \in Nat, n <= m, m <= Latest, j < Len(Block(m)), f \in ToSet(Content(<<m, j>>, c))
      PROVE  n <= f.block /\ f.block <= Latest /\ f.block \in Nat \ {0} /\ f.from = c
  <2>1. f.block = m /\ f.from = c
    BY <1>2, ContentOf
  <2>2. m # 0
    <3>1. Block(0) = <<>>
      BY DEF Block, HashInv
    <3>2. ASSUME m = 0 PROVE FALSE
      <4>1. Len(Block(m)) = 0
        BY <3>1, <3>2
      <4> QED
        BY <1>2, <4>1
    <3> QED
      BY <3>2
  <2> QED
    BY <1>2, <2>1, <2>2
<1>3. ASSUME NEW j \in Nat, f \in ToSet(EventsFrom(n, j, c))
      PROVE  n <= f.block /\ f.block <= Latest /\ f.block \in Nat \ {0} /\ f.from = c
  <2>1. CASE n > Latest
    <3>1. EventsFrom(n, j, c) = <<>>
      BY <1>0, <1>1, <2>1, EventsFromIs
    <3> QED
      BY <1>3, <3>1 DEF ToSet
  <2>2. CASE n <= Latest
    <3>1. PICK s, u : s = RowEvents(n, j, c) /\ u = MinedEvents(n + 1, Latest, c)
      OBVIOUS
    <3>2. EventsFrom(n, j, c) = s \o u
      BY <2>2, <3>1 DEF EventsFrom
    <3>3. n + 1 \in Nat /\ n \in Nat
      BY <1>0, <1>1
    <3>4. s \in Seq(PageEvents) /\ u \in Seq(PageEvents)
      BY <2>2, <3>1, <3>3, RowEventsIs, MinedEventsIs
    <3>5. f \in ToSet(s) \/ f \in ToSet(u)
      BY <1>3, <3>2, <3>4, ConcatSet
    <3>6. CASE f \in ToSet(s)
      <4>1. PICK l \in Nat : l < Len(Block(n)) /\ f \in ToSet(Content(<<n, l>>, c))
        BY <2>2, <3>1, <3>3, <3>6, RowOf
      <4>2. n <= n
        BY <3>3
      <4> QED
        BY <1>2, <2>2, <3>3, <4>1, <4>2
    <3>7. CASE f \in ToSet(u)
      <4>1. MinedOk(n + 1, c)
        BY <3>3, MinedOrdered
      <4>2. PICK m, l \in Nat : n + 1 <= m /\ m <= Latest /\ l < Len(Block(m)) /\ f \in ToSet(Content(<<m, l>>, c))
        BY <3>1, <3>7, <4>1 DEF MinedOk
      <4>3. n <= m
        BY <3>3, <4>2
      <4> QED
        BY <1>2, <4>2, <4>3
    <3> QED
      BY <3>5, <3>6, <3>7
  <2> QED
    BY <1>0, <1>1, <2>1, <2>2
<1>4. CASE n <= Latest /\ i < Len(Block(n))
  <2>1. PICK s, d, u : s = Content(<<n, i>>, c) /\ d = Drop(s, k) /\ u = EventsFrom(n, i + 1, c)
    OBVIOUS
  <2>2. Rest(q, c) = d \o u
    BY <1>1, <1>4, <2>1 DEF Rest
  <2>3. i + 1 \in Nat
    BY <1>0, <1>1
  <2>4. s \in Seq(PageEvents) /\ u \in Seq(PageEvents) /\ Ordered(s, Pres)
    BY <1>0, <1>1, <1>4, <2>1, <2>3, EventsFromIs, ContentOf
  <2>5. d \in Seq(PageEvents) /\ ToSet(d) \subseteq ToSet(s)
    BY <1>0, <1>1, <2>1, <2>4, OrderedDrop
  <2>6. f \in ToSet(s) \/ f \in ToSet(u)
    BY <2>2, <2>4, <2>5, ConcatSet
  <2>7. n \in Nat /\ n <= n
    BY <1>0, <1>1
  <2> QED
    BY <1>0, <1>1, <1>2, <1>3, <1>4, <2>1, <2>3, <2>6, <2>7
<1>5. CASE ~(n <= Latest /\ i < Len(Block(n)))
  BY <1>0, <1>1, <1>3, <1>5 DEF Rest
<1> QED
  BY <1>1, <1>4, <1>5

\* This holds in the next state too.
RestLaw ==
    ChainInv /\ HashInv => \A q \in Cursors, c \in Contracts :
        \A f \in ToSet(Rest(q, c)) : q.block <= f.block /\ f.block <= Latest

\* What comes after a cursor in the next state.
LEMMA RestLawNext == RestLaw'
<1>1. RestLaw
  BY RestOf DEF RestLaw
<1> QED
  BY <1>1, PTL

\* The types of what comes after a cursor or a position.
RestTypeLaw ==
    ChainInv => \A c \in Contracts :
        /\ \A q \in Cursors : Rest(q, c) \in Seq(PageEvents)
        /\ \A n, i \in Nat : EventsFrom(n, i, c) \in Seq(PageEvents)

\* These in the next state.
LEMMA RestTypeNext == RestTypeLaw'
<1>1. RestTypeLaw
  BY RestIs, EventsFromIs DEF RestTypeLaw
<1> QED
  BY <1>1, PTL

\* What a node has still to return to the request with a token.
Remaining(c, token) ==
    IF config.node = "other"
    THEN Drop(MinedEvents(range.from, Latest, c), IF token = None THEN 0 ELSE Value(token))
    ELSE Rest(FirstBlock(range.from, token), c)

\* These are events of the contract, in order, and of blocks after the first.
LEMMA RemainingIs ==
    ASSUME ChainInv, HashInv, config \in Configs, range.from \in Nat, NEW c \in Contracts,
           NEW token \in SUBSET TokensOf(config)
    PROVE  /\ Remaining(c, token) \in Seq(PageEvents) /\ Ordered(Remaining(c, token), Pres)
           /\ \A f \in ToSet(Remaining(c, token)) : f.from = c /\ f.block \in Nat \ {0}
           /\ token = None => \A f \in ToSet(Remaining(c, token)) : range.from <= f.block
<1>1. PICK from, first, all : from = range.from /\ first = Cursor(from, 0, 0) /\ all = MinedEvents(from, Latest, c)
  OBVIOUS
<1>2. first \in Cursors /\ from \in Nat /\ first.block = from
  BY <1>1 DEF Cursor, Cursors
<1>3. Rest(first, c) = all /\ all \in Seq(PageEvents)
  BY <1>1, <1>2, RestStart, MinedEventsIs
<1>4. \A f \in ToSet(all) : f.from = c /\ f.block \in Nat \ {0} /\ from <= f.block
  BY <1>2, <1>3, RestOf
<1>5. CASE config.node = "other"
  <2>1. PICK k : k = IF token = None THEN 0 ELSE Value(token)
    OBVIOUS
  <2>2. k \in Nat
    BY <1>5, <2>1, ValueIn DEF TokensOf, None
  <2>3. Remaining(c, token) = Drop(all, k)
    BY <1>1, <1>5, <2>1 DEF Remaining
  <2>4. Ordered(all, Pres)
    BY <1>2, <1>3, RestOrdered
  <2>5. Ordered(Drop(all, k), Pres) /\ ToSet(Drop(all, k)) \subseteq ToSet(all) /\ Drop(all, k) \in Seq(PageEvents)
    BY <1>3, <2>2, <2>4, OrderedDrop
  <2> QED
    BY <1>1, <1>4, <2>3, <2>5
<1>6. CASE config.node # "other"
  <2>1. PICK q : q = FirstBlock(range.from, token)
    OBVIOUS
  <2>2. q \in Cursors /\ (token = None => q = first)
    <3>1. token # None => Value(token) \in Cursors
      BY <1>6, ValueIn DEF TokensOf, None
    <3> QED
      BY <1>1, <1>2, <2>1, <3>1 DEF FirstBlock
  <2>3. Remaining(c, token) = Rest(q, c)
    BY <1>6, <2>1 DEF Remaining
  <2>4. Rest(q, c) \in Seq(PageEvents) /\ Ordered(Rest(q, c), Pres)
    BY <2>2, RestIs, RestOrdered
  <2>5. \A f \in ToSet(Rest(q, c)) : f.from = c /\ f.block \in Nat \ {0}
    BY <2>2, RestOf
  <2> QED
    BY <1>1, <1>3, <1>4, <2>2, <2>3, <2>4, <2>5
<1> QED
  BY <1>5, <1>6

-----------------------------------------------------------------------------
(* A page, and what remains after it *)

\* A page and what remains after its token are what the node had to return.
Splits(page, c, token) ==
    /\ page.cursor = None => page.buffer = Remaining(c, token)
    /\ page.cursor # None => page.buffer \o Remaining(c, page.cursor) = Remaining(c, token)

\* A page of katana, when no event of the pending block is on it.
LEMMA KatanaSplits ==
    ASSUME ChainInv, config \in Configs, config.node # "other", range.from \in Nat, NEW c \in Contracts,
           NEW token \in SUBSET TokensOf(config), NEW page, page = EventsPage(range.from, c, token),
           \A i \in DOMAIN page.buffer : page.buffer[i].block # NoBlock
    PROVE  Splits(page, c, token)
<1>1. PICK from, first, chunk, mined, cursor, more :
          /\ from = range.from /\ first = FirstBlock(from, token) /\ chunk = config.page
          /\ mined = FetchEventsAtBlocks(c, chunk, first, Latest)
          /\ cursor = (IF token = None THEN Cursor(Latest + 1, 0, 0) ELSE Value(token))
          /\ more = FetchPendingEvents(c, chunk, cursor, mined.buffer)
  OBVIOUS
<1>2. first \in Cursors /\ cursor \in Cursors /\ chunk \in Nat \ {0} /\ Latest \in Nat
      /\ Cursor(Latest + 1, 0, 0) \in Cursors
  <2>1. token # None => Value(token) \in Cursors
    BY ValueIn DEF TokensOf, None
  <2>2. Cursor(from, 0, 0) \in Cursors /\ Cursor(Latest + 1, 0, 0) \in Cursors /\ Latest \in Nat
    BY <1>1, PendingCursors DEF Cursor, Cursors
  <2> QED
    BY <1>1, <2>1, <2>2, IndexerAssumption DEF FirstBlock
<1>3. mined \in Pages /\ ReadsOn(mined, chunk, first, c)
  BY <1>1, <1>2, FetchEventsType, PageExact
<1>4. mined.buffer \in Seq(PageEvents)
  BY <1>3 DEF Pages
<1>5. Remaining(c, token) = Rest(first, c)
  BY <1>1 DEF Remaining
<1>6. page = EventsUpToPending(from, c, chunk, token, config.node = "interval")
  BY <1>1 DEF EventsPage
<1>7. CASE mined.cursor # None
  <2>1. page = mined
    BY <1>1, <1>6, <1>7 DEF EventsUpToPending, EventsUpTo
  <2>2. PICK q : Ends(mined, chunk, q, first, c)
    BY <1>3, <1>7 DEF ReadsOn
  <2>3. mined.cursor = {q} /\ mined.buffer \o Rest(q, c) = Rest(first, c)
    BY <2>2 DEF Ends
  <2>4. FirstBlock(from, page.cursor) = q
    BY <1>7, <2>1, <2>3, ValueOf DEF FirstBlock
  <2>5. Remaining(c, page.cursor) = Rest(q, c)
    BY <1>1, <2>4 DEF Remaining
  <2> QED
    BY <1>5, <1>7, <2>1, <2>3, <2>5 DEF Splits
<1>8. CASE mined.cursor = None
  <2>1. mined.buffer = Rest(first, c)
    <3>1. ASSUME NEW q, Ends(mined, chunk, q, first, c) PROVE FALSE
      BY <1>8, <3>1 DEF Ends, None
    <3> QED
      BY <1>3, <3>1 DEF ReadsOn
  <2>2. page = more \/ page = [buffer |-> mined.buffer, cursor |-> {Cursor(Latest + 1, 0, 0)}]
    BY <1>1, <1>6, <1>8 DEF EventsUpToPending, EventsUpTo
  <2>3. more \in GoOn(mined.buffer)
    BY <1>1, <1>2, <1>4, FetchPendingIs
  <2>4. \A q \in page.cursor : q \in Cursors /\ q.block = Latest + 1
    <3>1. CASE page = more
      BY <2>3, <3>1 DEF GoOn, Pages
    <3>2. CASE page = [buffer |-> mined.buffer, cursor |-> {Cursor(Latest + 1, 0, 0)}]
      BY <1>2, <3>2 DEF Cursor
    <3> QED
      BY <2>2, <3>1, <3>2
  <2>5. page.buffer = mined.buffer
    <3>1. CASE page = more
      <4>1. PICK b, ext : b = mined.buffer /\ ext \in Seq(PageEvents) /\ page.buffer = b \o ext
                          /\ \A e \in ToSet(ext) : e.block = NoBlock
        BY <2>3, <3>1 DEF GoOn, Grown
      <4>2. ToSet(b \o ext) = ToSet(b) \cup ToSet(ext) /\ b \o ext \in Seq(PageEvents)
        BY <1>4, <4>1, ConcatSet
      <4>3. ASSUME NEW e \in ToSet(ext) PROVE FALSE
        <5>1. e \in ToSet(page.buffer)
          BY <4>1, <4>2
        <5>2. PICK i \in DOMAIN page.buffer : e = page.buffer[i]
          BY <5>1 DEF ToSet
        <5> QED
          BY <4>1, <5>2
      <4>4. ext = <<>>
        <5>1. ASSUME ext # <<>> PROVE FALSE
          BY <4>1, <4>3, <5>1, TailSet
        <5> QED
          BY <5>1
      <4>5. b \o <<>> = b
        BY <1>4, <4>1, ConcatEmptySeq
      <4> QED
        BY <4>1, <4>4, <4>5
    <3> QED
      BY <2>2, <3>1
  <2>6. ASSUME page.cursor # None PROVE Remaining(c, page.cursor) = <<>>
    <3>1. PICK q : q = Value(page.cursor)
      OBVIOUS
    <3>2. q \in page.cursor
      BY <2>6, <3>1, ValueIn DEF None
    <3>3. q \in Cursors /\ q.block = Latest + 1
      BY <2>4, <3>2
    <3>4. Remaining(c, page.cursor) = Rest(q, c)
      BY <2>6, <3>1 DEF Remaining, FirstBlock
    <3>5. q.block > Latest /\ q.block \in Nat /\ q.idx \in Nat
      BY <1>2, <3>3 DEF Cursors
    <3>6. Rest(q, c) = EventsFrom(q.block, q.idx, c)
      BY <1>2, <3>5 DEF Rest
    <3> QED
      BY <3>4, <3>5, <3>6, EventsFromIs
  <2>7. mined.buffer \o <<>> = mined.buffer
    BY <1>4, ConcatEmptySeq
  <2> QED
    BY <1>5, <2>1, <2>5, <2>6, <2>7 DEF Splits
<1> QED
  BY <1>7, <1>8

\* A part of a sequence and what is left after it.
LEMMA DropSplits ==
    ASSUME NEW T, NEW s \in Seq(T), NEW m \in Nat, NEW n \in Nat, m <= n, n <= Len(s)
    PROVE  SubSeq(s, m + 1, n) \o Drop(s, n) = Drop(s, m)
<1>0. PICK len : len = Len(s)
  OBVIOUS
<1>1. len \in Nat
  BY <1>0, LenProperties
<1>2. PICK a, b, d, w : a = SubSeq(s, m + 1, n) /\ b = Drop(s, n) /\ d = Drop(s, m) /\ w = a \o b
  OBVIOUS
<1>3. /\ a \in Seq(T) /\ Len(a) = n - m /\ \A i \in 1..(n - m) : a[i] = s[m + i]
  <2>1. PICK p \in Int : p = m + 1
    OBVIOUS
  <2>2. CASE p <= n
    <3>1. \A i \in p..n : s[i] \in T
      BY <1>0, <1>1, <2>1, ElementOfSeq
    <3>2. a = [i \in 1..(n - p + 1) |-> s[i + p - 1]]
      BY <1>2, <2>1, <2>2
    <3>3. n - p + 1 = n - m /\ n - m \in Nat /\ \A i \in 1..(n - m) : i + p - 1 = m + i /\ m + i \in p..n
      BY <2>1
    <3>4. a = [i \in 1..(n - m) |-> s[m + i]]
      BY <3>2, <3>3
    <3>5. \A i \in 1..(n - m) : a[i] = s[m + i] /\ a[i] \in T
      BY <3>1, <3>3, <3>4
    <3>6. a = [i \in 1..(n - m) |-> a[i]]
      BY <3>4
    <3>7. a \in Seq(T) /\ Len(a) = n - m
      BY <3>3, <3>5, <3>6, UpToIs
    <3> QED
      BY <3>5, <3>7
  <2>3. CASE ~(p <= n)
    <3>1. a = <<>> /\ n - m = 0
      BY <1>2, <2>1, <2>3, SubSeqEmpty
    <3> QED
      BY <3>1
  <2> QED
    BY <2>2, <2>3
<1>4. b \in Seq(T) /\ Len(b) = len - n
  BY <1>0, <1>2, DropIs
<1>5. \A i \in 1..(len - n) : b[i] = s[n + i]
  BY <1>0, <1>2, DropIs
<1>6. m <= len
  BY <1>0, <1>1
<1>7. d \in Seq(T) /\ Len(d) = len - m
  BY <1>0, <1>2, <1>6, DropIs
<1>8. \A i \in 1..(len - m) : d[i] = s[m + i]
  BY <1>0, <1>2, DropIs
<1>9. PICK p, q : p = Len(a) /\ q = Len(b)
  OBVIOUS
<1>10. p = n - m /\ q = len - n /\ w \in Seq(T) /\ Len(w) = p + q
  <2>1. p = n - m /\ q = len - n
    BY <1>3, <1>4, <1>9
  <2>2. w \in Seq(T)
    BY <1>2, <1>3, <1>4
  <2>3. Len(w) = Len(a) + Len(b)
    BY <1>2, <1>3, <1>4
  <2> QED
    BY <1>9, <2>1, <2>2, <2>3
<1>11. (\A i \in 1..p : w[i] = a[i]) /\ \A i \in 1..q : w[p + i] = b[i]
  BY <1>2, <1>3, <1>4, <1>9
<1>12. Len(w) = len - m
  BY <1>1, <1>10
<1>13. ASSUME NEW i \in 1..(len - m) PROVE w[i] = d[i]
  <2>1. CASE i <= n - m
    <3>1. i \in 1..p /\ i \in 1..(n - m)
      BY <1>10, <2>1
    <3> QED
      BY <1>3, <1>8, <1>11, <3>1
  <2>2. CASE ~(i <= n - m)
    <3>1. PICK k : k = i - (n - m)
      OBVIOUS
    <3>2. k \in 1..q /\ k \in 1..(len - n) /\ n + k = m + i /\ i = p + k
      BY <1>1, <1>10, <2>2, <3>1
    <3>3. w[i] = b[k]
      BY <1>11, <3>2
    <3> QED
      BY <1>5, <1>8, <3>2, <3>3
  <2> QED
    BY <2>1, <2>2
<1>14. w = d
  BY <1>7, <1>10, <1>12, <1>13, SeqEqual
<1> QED
  BY <1>2, <1>14

\* A page of a node that counts the events it returned.
LEMMA OtherSplits ==
    ASSUME ChainInv, config \in Configs, config.node = "other", range.from \in Nat, NEW c \in Contracts,
           NEW token \in SUBSET TokensOf(config), NEW page, page = EventsPage(range.from, c, token)
    PROVE  Splits(page, c, token)
<1>1. PICK all, done, len, end : /\ all = MinedEvents(range.from, Latest, c) /\ len = Len(all)
                                 /\ done = (IF token = None THEN 0 ELSE Value(token))
                                 /\ end = Smaller(done + config.page, len)
  OBVIOUS
<1>2. done \in Nat /\ all \in Seq(PageEvents) /\ len \in Nat /\ config.page \in Nat \ {0}
  <2>1. all \in Seq(PageEvents)
    BY <1>1, MinedEventsType
  <2>2. len \in Nat
    BY <1>1, <2>1, LenProperties
  <2>3. done \in Nat
    BY <1>1, ValueIn DEF TokensOf, None
  <2> QED
    BY <2>1, <2>2, <2>3, IndexerAssumption
<1>3. Remaining(c, token) = Drop(all, done)
  BY <1>1 DEF Remaining
<1>4. PICK b, t : b = SubSeq(all, done + 1, end) /\ t = IF end < len THEN {end} ELSE None
  OBVIOUS
<1>10. page = [buffer |-> b, cursor |-> t]
  BY <1>1, <1>4 DEF EventsPage, OtherPage
<1>5. page.buffer = SubSeq(all, done + 1, end) /\ page.cursor = IF end < len THEN {end} ELSE None
  <2>1. page.buffer = b /\ page.cursor = t
    BY <1>10
  <2> QED
    BY <1>4, <2>1
<1>6. end \in Nat /\ end <= len /\ (end = len \/ done <= end)
  <2>1. PICK n \in Nat : n = done + config.page
    BY <1>2
  <2>2. end \in Int /\ end <= n /\ end <= len /\ (end = n \/ end = len)
    BY <1>1, <1>2, <2>1, SmallerIs
  <2> QED
    BY <1>2, <2>1, <2>2
<1>7. ASSUME page.cursor # None PROVE end < len /\ Remaining(c, page.cursor) = Drop(all, end)
  <2>1. end < len /\ page.cursor = {end}
    BY <1>5, <1>7
  <2>2. Value(page.cursor) = end
    BY <2>1, ValueOf
  <2> QED
    BY <1>1, <1>7, <2>1, <2>2 DEF Remaining
<1>8. CASE done <= end
  <2>1. page.buffer \o Drop(all, end) = Drop(all, done)
    <3>1. end <= Len(all)
      BY <1>1, <1>6
    <3>2. SubSeq(all, done + 1, end) \o Drop(all, end) = Drop(all, done)
      BY <1>2, <1>6, <1>8, <3>1, DropSplits
    <3> QED
      BY <1>5, <3>2
  <2>2. ASSUME page.cursor = None PROVE page.buffer = Drop(all, done)
    <3>1. ~(end < len)
      BY <1>5, <2>2 DEF None
    <3>2. end = len
      BY <1>2, <1>6, <3>1
    <3>3. end >= Len(all)
      BY <1>1, <1>2, <3>2
    <3>4. Drop(all, end) = <<>>
      BY <1>2, <1>6, <3>3, DropNone
    <3>5. page.buffer \in Seq(PageEvents)
      BY EventsPageType
    <3>6. page.buffer \o <<>> = page.buffer
      BY <3>5, ConcatEmptySeq
    <3> QED
      BY <2>1, <3>4, <3>6
  <2> QED
    BY <1>3, <1>7, <2>1, <2>2 DEF Splits
<1>9. CASE ~(done <= end)
  <2>1. end = len /\ done > len
    BY <1>2, <1>6, <1>9
  <2>2. page.cursor = None
    BY <1>2, <1>5, <2>1
  <2>3. page.buffer = <<>>
    <3>1. PICK p \in Int : p = done + 1
      BY <1>2
    <3>2. p > end /\ end \in Int
      BY <1>2, <1>6, <1>9, <3>1
    <3>3. SubSeq(all, p, end) = <<>>
      BY <3>2, SubSeqEmpty
    <3> QED
      BY <1>5, <3>1, <3>3
  <2>4. done >= Len(all)
    BY <1>1, <1>2, <2>1
  <2>5. Drop(all, done) = <<>>
    BY <1>2, <2>4, DropNone
  <2> QED
    BY <1>3, <2>2, <2>3, <2>5 DEF Splits
<1> QED
  BY <1>8, <1>9

\* A page of any node, when no event of the pending block is on it.
LEMMA PageSplits ==
    ASSUME ChainInv, config \in Configs, range.from \in Nat, NEW c \in Contracts,
           NEW token \in SUBSET TokensOf(config), NEW page, page = EventsPage(range.from, c, token),
           \A i \in DOMAIN page.buffer : page.buffer[i].block # NoBlock
    PROVE  Splits(page, c, token)
<1>1. CASE config.node = "other"
  BY <1>1, OtherSplits
<1>2. CASE config.node # "other"
  BY <1>2, KatanaSplits
<1> QED
  BY <1>1, <1>2

\* What is left of a sequence that has become longer.
LEMMA DropLonger ==
    ASSUME NEW T, NEW s \in Seq(T), NEW u \in Seq(T), NEW k \in Nat, NEW f \in ToSet(Drop(s \o u, k))
    PROVE  f \in ToSet(Drop(s, k)) \/ f \in ToSet(u)
<1>1. PICK w, m, n : w = s \o u /\ m = Len(s) /\ n = Len(u)
  OBVIOUS
<1>2. m \in Nat /\ n \in Nat /\ w \in Seq(T)
  BY <1>1
<1>3. Len(w) = m + n /\ (\A i \in 1..m : w[i] = s[i]) /\ \A i \in 1..n : w[m + i] = u[i]
  BY <1>1
<1>4. PICK d, b : d = Drop(w, k) /\ b = Drop(s, k)
  OBVIOUS
<1>5. d \in Seq(T) /\ b \in Seq(T)
  BY <1>2, <1>4, DropIs
<1>6. PICK i \in 1..Len(d) : f = d[i]
  BY <1>1, <1>4, <1>5, InSet
<1>7. k < m + n
  <2>1. ASSUME k >= m + n PROVE FALSE
    <3>1. k >= Len(w)
      BY <1>3, <2>1
    <3>2. d = <<>>
      BY <1>2, <1>4, <3>1, DropNone
    <3> QED
      BY <1>6, <3>2
  <2> QED
    BY <1>2, <2>1
<1>8. Len(d) = m + n - k
  <2>1. k <= Len(w)
    BY <1>2, <1>3, <1>7
  <2>2. Len(d) = Len(w) - k
    BY <1>2, <1>4, <2>1, DropIs
  <2>3. Len(w) = m + n
    BY <1>3
  <2> QED
    BY <1>2, <2>2, <2>3
<1>9. f = w[k + i]
  <2>1. i \in 1..(Len(w) - k)
    BY <1>2, <1>3, <1>8
  <2> QED
    BY <1>2, <1>4, <1>6, <2>1, DropIs
<1>10. CASE k + i <= m
  <2>1. k + i \in 1..m /\ i \in 1..(m - k) /\ k <= m
    BY <1>2, <1>8, <1>10
  <2>2. f = s[k + i]
    BY <1>3, <1>9, <2>1
  <2>3. b[i] = s[k + i]
    BY <1>1, <1>4, <2>1, DropIs
  <2>4. Len(b) = m - k
    BY <1>1, <1>4, <2>1, DropIs
  <2>5. i \in 1..Len(b) /\ f = b[i]
    BY <2>1, <2>2, <2>3, <2>4
  <2>6. f \in ToSet(b)
    BY <1>5, <2>5, InSet
  <2> QED
    BY <1>4, <2>6
<1>11. CASE ~(k + i <= m)
  <2>1. PICK j : j = k + i - m
    OBVIOUS
  <2>2. j \in 1..n /\ k + i = m + j
    BY <1>2, <1>8, <1>11, <2>1
  <2>3. f = u[j]
    BY <1>3, <1>9, <2>2
  <2> QED
    BY <1>1, <2>2, <2>3, InSet
<1> QED
  BY <1>10, <1>11

\* The events of a range of blocks, when there is a block more.
LEMMA MinedNewer ==
    ASSUME ChainInv, ChainInv', NEW x, chain' = Append(chain, x),
           NEW lo \in Nat, lo <= Latest + 1, NEW c \in Contracts,
           NEW f \in ToSet((MinedEvents(lo, Latest, c))')
    PROVE  f \in ToSet(MinedEvents(lo, Latest, c)) \/ f.block = Latest + 1
<1>1. PICK s, w : s = MinedEvents(lo, Latest, c) /\ w = (MinedEvents(lo, Latest, c))'
  OBVIOUS
<1>2. Grown(w, s, Latest + 1)
  BY <1>1, MinedGrows
<1>3. PICK more \in Seq(PageEvents) : w = s \o more /\ \A e \in ToSet(more) : e.block = Latest + 1
  BY <1>2 DEF Grown
<1>4. s \in Seq(PageEvents)
  BY <1>1, MinedEventsIs
<1>5. ToSet(w) = ToSet(s) \cup ToSet(more)
  BY <1>3, <1>4, ConcatSet
<1> QED
  BY <1>1, <1>3, <1>5

\* So do those from a transaction on.
LEMMA FromNewer ==
    ASSUME ChainInv, ChainInv', NEW x, chain' = Append(chain, x),
           NEW n \in Nat, n <= Latest, NEW idx \in Nat, NEW c \in Contracts,
           NEW f \in ToSet((EventsFrom(n, idx, c))')
    PROVE  f \in ToSet(EventsFrom(n, idx, c)) \/ f.block = Latest + 1
<1>1. Latest' = Latest + 1 /\ Latest \in Nat
  BY LatestGrows
<1>2. PICK m : m = n + 1
  OBVIOUS
<1>3. m \in Nat /\ m <= Latest + 1 /\ n <= Latest'
  BY <1>1, <1>2
<1>4. PICK r, s, w : r = RowEvents(n, idx, c) /\ s = MinedEvents(m, Latest, c) /\ w = (MinedEvents(m, Latest, c))'
  OBVIOUS
<1>5. (RowEvents(n, idx, c))' = r
  BY <1>4, RowStays
<1>6. EventsFrom(n, idx, c) = r \o s
  BY <1>2, <1>4 DEF EventsFrom
<1>7. (EventsFrom(n, idx, c))' = r \o w
  BY <1>2, <1>3, <1>4, <1>5 DEF EventsFrom
<1>8. r \in Seq(PageEvents) /\ s \in Seq(PageEvents)
  BY <1>3, <1>4, RowEventsIs, MinedEventsIs
<1>9. w \in Seq(PageEvents)
  BY <1>3, <1>4, ChainLawsNext DEF MinedLaw
<1>10. ToSet(r \o s) = ToSet(r) \cup ToSet(s) /\ ToSet(r \o w) = ToSet(r) \cup ToSet(w)
  BY <1>8, <1>9, ConcatSet
<1>11. f \in ToSet(w) => f \in ToSet(s) \/ f.block = Latest + 1
  BY <1>3, <1>4, MinedNewer
<1> QED
  BY <1>6, <1>7, <1>10, <1>11

\* What is still to be returned grows by events of the new block only.
LEMMA RemainingGrows ==
    ASSUME ChainInv, ChainInv', HashInv', NEW x, chain' = Append(chain, x), config' = config, range' = range,
           config \in Configs, range.from \in Nat, range.from <= Latest + 1, NEW c \in Contracts,
           NEW token \in SUBSET TokensOf(config), NEW f \in ToSet((Remaining(c, token))')
    PROVE  f \in ToSet(Remaining(c, token)) \/ f.block = Latest + 1
<1>1. Latest' = Latest + 1 /\ Latest \in Nat
  BY LatestGrows
<1>2. PICK from : from = range.from
  OBVIOUS
<1>3. CASE config.node = "other"
  <2>1. PICK k : k = IF token = None THEN 0 ELSE Value(token)
    OBVIOUS
  <2>2. k \in Nat
    BY <1>3, <2>1, ValueIn DEF TokensOf, None
  <2>3. PICK s, w : s = MinedEvents(from, Latest, c) /\ w = (MinedEvents(from, Latest, c))'
    OBVIOUS
  <2>4. Remaining(c, token) = Drop(s, k)
    BY <1>2, <1>3, <2>1, <2>3 DEF Remaining
  <2>5. (Remaining(c, token))' = Drop(w, k)
    BY <1>2, <1>3, <2>1, <2>3 DEF Remaining
  <2>6. Grown(w, s, Latest + 1)
    BY <1>2, <2>3, MinedGrows
  <2>7. PICK more \in Seq(PageEvents) : w = s \o more /\ \A e \in ToSet(more) : e.block = Latest + 1
    BY <2>6 DEF Grown
  <2>8. s \in Seq(PageEvents)
    BY <1>2, <2>3, MinedEventsIs
  <2>9. f \in ToSet(Drop(s \o more, k))
    BY <2>5, <2>7
  <2>10. f \in ToSet(Drop(s, k)) \/ f \in ToSet(more)
    BY <2>2, <2>7, <2>8, <2>9, DropLonger
  <2> QED
    BY <2>4, <2>7, <2>10
<1>4. CASE config.node # "other"
  <2>1. PICK q : q = FirstBlock(from, token)
    OBVIOUS
  <2>2. q \in Cursors
    <3>1. token # None => Value(token) \in Cursors
      BY <1>4, ValueIn DEF TokensOf, None
    <3>2. Cursor(from, 0, 0) \in Cursors
      BY <1>2 DEF Cursor, Cursors
    <3> QED
      BY <2>1, <3>1, <3>2 DEF FirstBlock
  <2>3. Remaining(c, token) = Rest(q, c)
    BY <1>2, <1>4, <2>1 DEF Remaining
  <2>4. (Remaining(c, token))' = (Rest(q, c))'
    BY <1>2, <1>4, <2>1 DEF Remaining
  <2>5. PICK n, i, k : n = q.block /\ i = q.idx /\ k = q.event
    OBVIOUS
  <2>6. n \in Nat /\ i \in Nat /\ k \in Nat
    BY <2>2, <2>5 DEF Cursors
  <2>7. CASE n > Latest
    <3>1. f \in ToSet((Rest(q, c))')
      BY <2>4
    <3>2. q.block <= f.block /\ f.block <= Latest'
      BY <2>2, <3>1, RestLawNext DEF RestLaw
    <3>3. f.block \in Int
      <4>1. (Rest(q, c))' \in Seq(PageEvents)
        BY <2>2, RestTypeNext DEF RestTypeLaw
      <4>2. f \in PageEvents
        BY <3>1, <4>1, SeqToSet
      <4> QED
        BY <4>2 DEF PageEvents
    <3> QED
      BY <1>1, <2>5, <2>6, <2>7, <3>2, <3>3
  <2>8. CASE n <= Latest
    <3>1. n <= Latest' /\ (Block(n))' = Block(n) /\ i + 1 \in Nat
      BY <1>1, <2>6, <2>8, RowStays
    <3>2. CASE i < Len(Block(n))
      <4>1. PICK j, d, u, w : /\ j = i + 1 /\ d = Drop(Content(<<n, i>>, c), k)
                              /\ u = EventsFrom(n, j, c) /\ w = (EventsFrom(n, j, c))'
        OBVIOUS
      <4>2. (Content(<<n, i>>, c))' = Content(<<n, i>>, c)
        BY <3>1 DEF Content
      <4>3. Rest(q, c) = d \o u
        BY <2>5, <2>8, <3>2, <4>1 DEF Rest
      <4>4. (Rest(q, c))' = d \o w
        BY <2>5, <3>1, <3>2, <4>1, <4>2 DEF Rest
      <4>5. j \in Nat
        BY <3>1, <4>1
      <4>6. Content(<<n, i>>, c) \in Seq(PageEvents)
        BY <2>6, <2>8, <3>2, ContentOf
      <4>7. d \in Seq(PageEvents)
        BY <2>6, <4>1, <4>6, DropIs
      <4>8. u \in Seq(PageEvents)
        BY <2>6, <4>1, <4>5, EventsFromIs
      <4>9. w \in Seq(PageEvents)
        BY <2>6, <4>1, <4>5, RestTypeNext DEF RestTypeLaw
      <4>10. ToSet(d \o u) = ToSet(d) \cup ToSet(u)
        BY <4>7, <4>8, ConcatSet
      <4>11. ToSet(d \o w) = ToSet(d) \cup ToSet(w)
        BY <4>7, <4>9, ConcatSet
      <4>12. f \in ToSet(w) => f \in ToSet(u) \/ f.block = Latest + 1
        BY <2>6, <2>8, <4>1, <4>5, FromNewer
      <4> QED
        BY <2>3, <2>4, <4>3, <4>4, <4>10, <4>11, <4>12
    <3>3. CASE ~(i < Len(Block(n)))
      <4>1. Rest(q, c) = EventsFrom(n, i, c)
        BY <2>5, <2>8, <3>3 DEF Rest
      <4>2. (Rest(q, c))' = (EventsFrom(n, i, c))'
        BY <2>5, <3>1, <3>3 DEF Rest
      <4>3. f \in ToSet((EventsFrom(n, i, c))')
        BY <2>4, <4>2
      <4>4. f \in ToSet(EventsFrom(n, i, c)) \/ f.block = Latest + 1
        BY <2>6, <2>8, <4>3, FromNewer
      <4> QED
        BY <2>3, <4>1, <4>4
    <3> QED
      BY <3>2, <3>3
  <2> QED
    BY <1>1, <2>6, <2>7, <2>8
<1> QED
  BY <1>3, <1>4

-----------------------------------------------------------------------------
(* The transactions are numbered in their order *)

\* The transactions with a greater number.
Lesser == {p \in PendingTxs \X PendingTxs : p[1].hash < p[2].hash}

\* A node that mines instantly has no pending block.
NumberInv == HashInv /\ (config.node = "instant" => pending = <<>>)

\* The transactions of the pending block that have succeeded are in its order.
LEMMA ReceiptsOrdered ==
    ASSUME ChainInv, HashInv
    PROVE  /\ Receipts(pending) \in Seq(PendingTxs) /\ Ordered(Receipts(pending), Lesser)
           /\ ToSet(Receipts(pending)) \subseteq ToSet(pending)
<1>1. pending \in Seq(PendingTxs) /\ DOMAIN pending = 1..Len(pending)
  BY DEF ChainInv
<1>2. ASSUME NEW i \in 1..Len(pending), NEW j \in 1..Len(pending), i < j PROVE <<pending[i], pending[j]>> \in Lesser
  <2>1. pending[i] \in PendingTxs /\ pending[j] \in PendingTxs
    BY <1>1
  <2>2. pending[i].hash < pending[j].hash
    BY <1>1, <1>2 DEF HashInv
  <2> QED
    BY <2>1, <2>2 DEF Lesser
<1>3. Ordered(pending, Lesser)
  BY <1>2 DEF Ordered
<1>4. PICK S : S = {tx \in ToSet(pending) : tx.ok} /\ Receipts(pending) = Among(pending, S)
  BY DEF Receipts, Where
<1>5. Ordered(Among(pending, S), Lesser)
  BY <1>1, <1>3, OrderedAmong
<1>6. ToSet(Among(pending, S)) = ToSet(pending) \cap S
  BY <1>1, AmongSet
<1> QED
  BY <1>4, <1>5, <1>6, ReceiptsType

\* A block is mined.
LEMMA ChainNumbered ==
    ASSUME ChainInv, HashInv, NEW b \in Seq(MinedTxs), chain' = Append(chain, b), pending' = <<>>,
           txs \in Nat, txs' \in Nat, txs <= txs',
           \A i, j \in DOMAIN b : i < j => b[i].hash < b[j].hash,
           \A i \in DOMAIN b : b[i].hash <= txs',
           \A i \in DOMAIN b, a \in DOMAIN chain : \A k \in DOMAIN chain[a] : chain[a][k].hash < b[i].hash
    PROVE  HashInv'
<1>1. PICK ch, w, n : ch = chain /\ w = chain' /\ n = Len(chain)
  OBVIOUS
<1>2. n \in Nat \ {0} /\ ch \in Seq(Seq(MinedTxs)) /\ DOMAIN ch = 1..n
  BY <1>1 DEF ChainInv
<1>3. DOMAIN w = 1..(n + 1) /\ w[n + 1] = b /\ \A a \in 1..n : w[a] = ch[a]
  BY <1>1, <1>2
<1>4. \A a \in DOMAIN ch : \A i \in DOMAIN ch[a] : ch[a][i].hash \in Nat
  <2> SUFFICES ASSUME NEW a \in DOMAIN ch, NEW i \in DOMAIN ch[a] PROVE ch[a][i].hash \in Nat
    OBVIOUS
  <2>1. ch[a] \in Seq(MinedTxs)
    BY <1>2
  <2>2. ch[a][i] \in MinedTxs
    BY <2>1
  <2> QED
    BY <2>2 DEF MinedTxs
<1>5. \A a \in DOMAIN w : a \in DOMAIN ch \/ a = n + 1
  BY <1>2, <1>3
<1>6. w[1] = <<>>
  BY <1>1, <1>2, <1>3 DEF HashInv
<1>7. ASSUME NEW a \in DOMAIN w, NEW d \in DOMAIN w, NEW i \in DOMAIN w[a], NEW j \in DOMAIN w[d],
             a < d \/ (a = d /\ i < j)
      PROVE  w[a][i].hash < w[d][j].hash
  <2>1. CASE d \in DOMAIN ch
    <3>1. a \in DOMAIN ch
      BY <1>2, <1>3, <1>7, <2>1
    <3>2. w[a] = ch[a] /\ w[d] = ch[d]
      BY <1>2, <1>3, <2>1, <3>1
    <3> QED
      BY <1>1, <1>7, <2>1, <3>1, <3>2 DEF HashInv
  <2>2. CASE d = n + 1 /\ a \in DOMAIN ch
    <3>1. w[a] = ch[a] /\ w[d] = b
      BY <1>2, <1>3, <2>2
    <3> QED
      BY <1>1, <2>2, <3>1
  <2>3. CASE d = n + 1 /\ a = n + 1
    <3>1. i < j /\ w[a] = b /\ w[d] = b
      BY <1>2, <1>3, <1>7, <2>3
    <3> QED
      BY <3>1
  <2> QED
    BY <1>5, <2>1, <2>2, <2>3
<1>8. ASSUME NEW a \in DOMAIN w, NEW i \in DOMAIN w[a] PROVE w[a][i].hash <= txs'
  <2>1. CASE a \in DOMAIN ch
    <3>1. w[a] = ch[a]
      BY <1>2, <1>3, <2>1
    <3>2. ch[a][i].hash <= txs /\ ch[a][i].hash \in Nat
      BY <1>1, <1>4, <2>1, <3>1 DEF HashInv
    <3>3. PICK h \in Nat : h = ch[a][i].hash /\ h <= txs
      BY <3>2
    <3>4. h <= txs'
      BY <3>3
    <3> QED
      BY <3>1, <3>3, <3>4
  <2>2. CASE a = n + 1
    BY <1>3, <2>2
  <2> QED
    BY <1>5, <2>1, <2>2
<1>9. DOMAIN pending' = {}
  OBVIOUS
<1> QED
  BY <1>1, <1>6, <1>7, <1>8, <1>9 DEF HashInv

\* The transactions are numbered as they are executed.
LEMMA NextNumbered ==
    ASSUME NodeInv, NumberInv, ExecuteTx \/ MineBlock
    PROVE  NumberInv'
<1>1. ChainInv /\ HashInv /\ txs \in Nat /\ MaxTxs \in Nat
  BY IndexerAssumption DEF NodeInv, NumberInv
<1>2. config' = config
  BY DEF ExecuteTx, MineBlock
<1>3. pending \in Seq(PendingTxs) /\ DOMAIN pending = 1..Len(pending)
  BY <1>1 DEF ChainInv
<1>4. \A a \in DOMAIN chain : \A i \in DOMAIN chain[a] : chain[a][i].hash \in Nat
  <2> SUFFICES ASSUME NEW a \in DOMAIN chain, NEW i \in DOMAIN chain[a] PROVE chain[a][i].hash \in Nat
    OBVIOUS
  <2>1. chain[a] \in Seq(MinedTxs)
    BY <1>1 DEF ChainInv
  <2>2. chain[a][i] \in MinedTxs
    BY <2>1
  <2> QED
    BY <2>2 DEF MinedTxs
<1>5. CASE ExecuteTx /\ config.node = "instant"
  <2>1. PICK shape \in Shapes : chain' = Append(chain, <<[hash |-> txs + 1, events |-> shape]>>) /\ pending' = pending
                               /\ txs' = txs + 1 /\ txs < MaxTxs
    BY <1>5 DEF ExecuteTx
  <2>2. PICK tx, b : tx = [hash |-> txs + 1, events |-> shape] /\ b = <<tx>>
    OBVIOUS
  <2>3. tx \in MinedTxs /\ tx.hash = txs + 1
    BY <1>1, <2>1, <2>2 DEF MinedTxs
  <2>4. b \in Seq(MinedTxs) /\ DOMAIN b = {1} /\ b[1] = tx
    BY <2>2, <2>3
  <2>5. chain' = Append(chain, b) /\ pending' = <<>>
    BY <1>5, <2>1, <2>2 DEF NumberInv
  <2>6. txs' \in Nat /\ txs <= txs'
    BY <1>1, <2>1
  <2>7. \A i, j \in DOMAIN b : i < j => b[i].hash < b[j].hash
    BY <2>4
  <2>8. \A i \in DOMAIN b : b[i].hash <= txs'
    BY <1>1, <2>1, <2>3, <2>4
  <2>9. \A i \in DOMAIN b, a \in DOMAIN chain : \A k \in DOMAIN chain[a] : chain[a][k].hash < b[i].hash
    <3> SUFFICES ASSUME NEW a \in DOMAIN chain, NEW k \in DOMAIN chain[a] PROVE chain[a][k].hash < txs + 1
      BY <2>3, <2>4
    <3>1. PICK h \in Nat : h = chain[a][k].hash /\ h <= txs
      BY <1>1, <1>4 DEF HashInv
    <3>2. h < txs + 1
      BY <1>1, <3>1
    <3> QED
      BY <3>1, <3>2
  <2>10. HashInv'
    BY <1>1, <2>4, <2>5, <2>6, <2>7, <2>8, <2>9, ChainNumbered
  <2> QED
    BY <2>5, <2>10 DEF NumberInv
<1>6. CASE ExecuteTx /\ config.node # "instant"
  <2>1. PICK shape \in Shapes, ok \in BOOLEAN :
            /\ pending' = Append(pending, [hash |-> txs + 1, events |-> shape, ok |-> ok])
            /\ chain' = chain /\ txs' = txs + 1
    BY <1>6 DEF ExecuteTx
  <2>2. PICK tx, n, w : tx = [hash |-> txs + 1, events |-> shape, ok |-> ok] /\ n = Len(pending) /\ w = pending'
    OBVIOUS
  <2>3. tx.hash = txs + 1
    BY <2>2
  <2>4. n \in Nat /\ DOMAIN w = 1..(n + 1) /\ w[n + 1] = tx /\ \A k \in 1..n : w[k] = pending[k]
    BY <1>3, <2>1, <2>2
  <2>5. \A k \in DOMAIN pending : pending[k].hash \in Nat /\ pending[k].hash <= txs
    <3> SUFFICES ASSUME NEW k \in DOMAIN pending PROVE pending[k].hash \in Nat /\ pending[k].hash <= txs
      OBVIOUS
    <3>1. pending[k] \in PendingTxs
      BY <1>3
    <3> QED
      BY <1>1, <3>1 DEF PendingTxs, HashInv
  <2>6. \A h \in Nat : h <= txs => h < txs + 1 /\ h <= txs + 1
    BY <1>1
  <2>7. \A k \in DOMAIN w : k \in DOMAIN pending \/ k = n + 1
    BY <1>3, <2>2, <2>4
  <2>8. ASSUME NEW k \in DOMAIN w PROVE w[k].hash <= txs'
    <3>1. CASE k \in DOMAIN pending
      BY <1>3, <2>1, <2>2, <2>4, <2>5, <2>6, <3>1
    <3>2. CASE k = n + 1
      BY <1>1, <2>1, <2>3, <2>4, <3>2
    <3> QED
      BY <2>7, <3>1, <3>2
  <2>9. ASSUME NEW k \in DOMAIN w, NEW l \in DOMAIN w, k < l PROVE w[k].hash < w[l].hash
    <3>1. k \in DOMAIN pending /\ w[k] = pending[k]
      BY <1>3, <2>2, <2>4, <2>9
    <3>2. CASE l \in DOMAIN pending
      <4>1. w[l] = pending[l]
        BY <1>3, <2>2, <2>4, <3>2
      <4> QED
        BY <1>1, <2>9, <3>1, <3>2, <4>1 DEF HashInv
    <3>3. CASE l = n + 1
      BY <2>3, <2>4, <2>5, <2>6, <3>1, <3>3
    <3> QED
      BY <2>7, <3>2, <3>3
  <2>10. ASSUME NEW a \in DOMAIN chain, NEW i \in DOMAIN chain[a]
         PROVE  chain[a][i].hash <= txs' /\ \A k \in DOMAIN w : chain[a][i].hash < w[k].hash
    <3>1. PICK h \in Nat : h = chain[a][i].hash /\ h <= txs
      BY <1>1, <1>4 DEF HashInv
    <3>2. h <= txs' /\ h < txs + 1
      BY <1>1, <2>1, <3>1
    <3>3. ASSUME NEW k \in DOMAIN w PROVE h < w[k].hash
      <4>1. CASE k \in DOMAIN pending
        <5>1. w[k] = pending[k]
          BY <1>3, <2>2, <2>4, <4>1
        <5> QED
          BY <1>1, <3>1, <4>1, <5>1 DEF HashInv
      <4>2. CASE k = n + 1
        BY <2>3, <2>4, <3>2, <4>2
      <4> QED
        BY <2>7, <4>1, <4>2
    <3> QED
      BY <3>1, <3>2, <3>3
  <2>11. HashInv'
    BY <1>1, <2>1, <2>2, <2>8, <2>9, <2>10 DEF HashInv
  <2> QED
    BY <1>2, <1>6, <2>11 DEF NumberInv
<1>7. CASE MineBlock
  <2>1. PICK r, b : r = Receipts(pending) /\ b = Mined(pending)
    OBVIOUS
  <2>2. chain' = Append(chain, b) /\ pending' = <<>> /\ txs' = txs
    BY <1>7, <2>1 DEF MineBlock, countVars
  <2>3. r \in Seq(PendingTxs) /\ Ordered(r, Lesser) /\ ToSet(r) \subseteq ToSet(pending)
    BY <1>1, <2>1, ReceiptsOrdered
  <2>4. b \in Seq(MinedTxs)
    BY <1>1, <2>1, MinedType
  <2>5. DOMAIN b = DOMAIN r /\ DOMAIN r = 1..Len(r) /\ \A i \in DOMAIN b : b[i].hash = r[i].hash
    BY <2>1, <2>3 DEF Mined
  <2>6. \A i, j \in DOMAIN b : i < j => b[i].hash < b[j].hash
    <3> SUFFICES ASSUME NEW i \in DOMAIN b, NEW j \in DOMAIN b, i < j PROVE b[i].hash < b[j].hash
      OBVIOUS
    <3>1. <<r[i], r[j]>> \in Lesser
      BY <2>3, <2>5 DEF Ordered
    <3> QED
      BY <2>5, <3>1 DEF Lesser
  <2>7. ASSUME NEW i \in DOMAIN b PROVE \E k \in DOMAIN pending : b[i].hash = pending[k].hash
    <3>1. r[i] \in ToSet(r)
      BY <2>5 DEF ToSet
    <3>2. PICK k \in DOMAIN pending : r[i] = pending[k]
      BY <2>3, <3>1 DEF ToSet
    <3> QED
      BY <2>5, <3>2
  <2>8. \A i \in DOMAIN b : b[i].hash <= txs'
    BY <1>1, <2>2, <2>7 DEF HashInv
  <2>9. \A i \in DOMAIN b, a \in DOMAIN chain : \A k \in DOMAIN chain[a] : chain[a][k].hash < b[i].hash
    BY <1>1, <2>7 DEF HashInv
  <2>10. txs' \in Nat /\ txs <= txs'
    BY <1>1, <2>2
  <2>11. HashInv'
    BY <1>1, <2>2, <2>4, <2>6, <2>8, <2>9, <2>10, ChainNumbered
  <2> QED
    BY <1>2, <2>2, <2>11 DEF NumberInv
<1> QED
  BY <1>5, <1>6, <1>7

-----------------------------------------------------------------------------
(* What is kept of a page *)

\* Where what is left of a sequence was in it.
LEMMA DropOf ==
    ASSUME NEW T, NEW s \in Seq(T), NEW n \in Nat, NEW x \in ToSet(Drop(s, n))
    PROVE  \E i \in 1..Len(s) : n < i /\ x = s[i]
<1>1. PICK d, len : d = Drop(s, n) /\ len = Len(s)
  OBVIOUS
<1>2. d \in Seq(T) /\ len \in Nat
  BY <1>1, DropIs
<1>3. \A i \in 1..(len - n) : d[i] = s[n + i]
  BY <1>1, DropIs
<1>4. \A i \in 1..Len(d) : i \in 1..(len - n)
  <2>1. n <= len => Len(d) = len - n
    BY <1>1, DropIs
  <2>2. n >= len => d = <<>>
    BY <1>1, DropIs
  <2> QED
    BY <1>2, <2>1, <2>2
<1>5. PICK i \in 1..Len(d) : x = d[i]
  BY <1>1, <1>2, InSet
<1>6. PICK k : k = n + i
  OBVIOUS
<1>7. k \in 1..len /\ n < k /\ x = s[k]
  BY <1>2, <1>3, <1>4, <1>5, <1>6
<1> QED
  BY <1>1, <1>7

\* What is kept of a page: in order, up to a block, and after a transaction of the cursor.
Selects(kept, events, to, cursor) ==
    /\ Ordered(kept, Pres) /\ ToSet(kept) \subseteq ToSet(events)
    /\ \A f \in ToSet(kept) : f.block <= to /\ (cursor # None => \E t \in cursor : t < f.tx)

\* The events of a page that are kept.
LEMMA KeptAfter ==
    ASSUME NEW events \in Seq(PageEvents), Ordered(events, Pres), NEW cursor
    PROVE  Selects(Kept(events, cursor), events, range.to, cursor)
<1>1. PICK upTo, S : S = {e \in ToSet(events) : e.block <= range.to} /\ upTo = Among(events, S)
  OBVIOUS
<1>2. upTo \in Seq(PageEvents) /\ Ordered(upTo, Pres)
  BY <1>1, AmongType, OrderedAmong
<1>3. ToSet(upTo) = ToSet(events) \cap S
  BY <1>1, AmongSet
<1>4. PICK at : at = {i \in DOMAIN upTo : upTo[i].tx \in cursor}
  OBVIOUS
<1>5. PICK seen : seen = CHOOSE i \in at : \A j \in at : i <= j
  OBVIOUS
<1>6. PICK rest, Q : rest = SubSeq(upTo, seen, Len(upTo)) /\ Q = {e \in ToSet(rest) : e.tx \notin cursor}
  OBVIOUS
<1>7. PICK w : w = Among(rest, Q)
  OBVIOUS
<1>8. Kept(events, cursor) = CASE cursor = None -> upTo [] cursor # None /\ at = {} -> <<>> [] OTHER -> w
  BY <1>1, <1>4, <1>5, <1>6, <1>7 DEF Kept, Where
<1>9. CASE cursor = None
  <2>1. Kept(events, cursor) = upTo
    BY <1>8, <1>9
  <2> QED
    BY <1>1, <1>2, <1>3, <1>9, <2>1 DEF Selects
<1>10. CASE cursor # None /\ at = {}
  <2>1. Kept(events, cursor) = <<>>
    BY <1>8, <1>10
  <2>2. ToSet(<<>>) = {} /\ Ordered(<<>>, Pres)
    BY DEF ToSet, Ordered
  <2> QED
    BY <2>1, <2>2 DEF Selects
<1>11. CASE cursor # None /\ at # {}
  <2>1. Kept(events, cursor) = w
    BY <1>8, <1>11
  <2>2. seen \in 1..Len(upTo) /\ upTo[seen].tx \in cursor
    <3>1. at \in SUBSET Nat
      BY <1>2, <1>4
    <3>2. \E i \in at : \A j \in at : i <= j
      BY <1>11, <3>1, LeastElement
    <3>3. seen \in at
      BY <1>5, <3>2
    <3> QED
      BY <1>2, <1>4, <3>3
  <2>3. PICK n \in Nat : n = seen - 1
    BY <2>2
  <2>4. n + 1 = seen
    BY <2>2, <2>3
  <2>5. rest = Drop(upTo, n)
    BY <1>6, <2>4 DEF Drop
  <2>6. rest \in Seq(PageEvents) /\ Ordered(rest, Pres) /\ ToSet(rest) \subseteq ToSet(upTo)
    BY <1>2, <2>5, OrderedDrop
  <2>7. Ordered(w, Pres) /\ ToSet(w) = ToSet(rest) \cap Q
    BY <1>7, <2>6, OrderedAmong, AmongSet
  <2>8. ASSUME NEW f \in ToSet(w) PROVE \E t \in cursor : t < f.tx
    <3>1. f \in ToSet(rest) /\ f.tx \notin cursor
      BY <1>6, <2>7
    <3>2. PICK i \in 1..Len(upTo) : n < i /\ f = upTo[i]
      BY <1>2, <2>5, <3>1, DropOf
    <3>3. i # seen
      BY <2>2, <3>1, <3>2
    <3>4. seen < i
      BY <2>2, <2>3, <3>2, <3>3
    <3>5. <<upTo[seen], f>> \in Pres
      BY <1>2, <2>2, <3>2, <3>4 DEF Ordered
    <3>6. Pre(upTo[seen], f)
      BY <3>5 DEF Pres, PresOf
    <3>7. upTo[seen].tx < f.tx
      BY <2>2, <3>1, <3>6 DEF Pre
    <3> QED
      BY <2>2, <3>7
  <2> QED
    BY <1>1, <1>3, <2>1, <2>6, <2>7, <2>8 DEF Selects
<1> QED
  BY <1>9, <1>10, <1>11

-----------------------------------------------------------------------------
(* The transactions of the events of a range *)

\* An ordered sequence without its last element.
LEMMA OrderedBut ==
    ASSUME NEW T, NEW s \in Seq(T), NEW x \in T, NEW R, Ordered(Append(s, x), R)
    PROVE  Ordered(s, R) /\ \A y \in ToSet(s) : <<y, x>> \in R
<1>1. PICK w, m : w = Append(s, x) /\ m = Len(s)
  OBVIOUS
<1>2. m \in Nat /\ Len(w) = m + 1 /\ w[m + 1] = x /\ \A i \in 1..m : w[i] = s[i]
  BY <1>1
<1>3. \A i \in 1..m : i \in 1..Len(w) /\ i < m + 1 /\ m + 1 \in 1..Len(w)
  BY <1>2
<1>4. Ordered(w, R)
  BY <1>1
<1>5. Ordered(s, R)
  BY <1>1, <1>2, <1>3, <1>4 DEF Ordered
<1>6. ASSUME NEW y \in ToSet(s) PROVE <<y, x>> \in R
  <2>1. PICK i \in 1..m : y = s[i]
    BY <1>1, InSet
  <2>2. <<w[i], w[m + 1]>> \in R
    BY <1>3, <1>4, <2>1 DEF Ordered
  <2> QED
    BY <1>2, <2>1, <2>2
<1> QED
  BY <1>5, <1>6

\* The sequences one of which precedes the other.
Rows(T, R) == {p \in Seq(T) \X Seq(T) : Precede(ToSet(p[1]), ToSet(p[2]), R)}
InRows(ss, R) == \A z \in ToSet(ss) : Ordered(z, R)

\* Ordered sequences that follow one another are one.
LEMMA OrderedFlatten ==
    ASSUME NEW T, NEW ss \in Seq(Seq(T)), NEW R, InRows(ss, R), Ordered(ss, Rows(T, R))
    PROVE  Ordered(FlattenSeq(ss), R)
<1> DEFINE P == {r \in Seq(Seq(T)) : InRows(r, R) /\ Ordered(r, Rows(T, R)) => Ordered(FlattenSeq(r), R)}
<1>1. <<>> \in P
  <2>1. Ordered(<<>>, R)
    BY DEF Ordered
  <2> QED
    BY <2>1, FlattenNone
<1>2. ASSUME NEW r \in Seq(Seq(T)), NEW y \in Seq(T), r \in P PROVE Append(r, y) \in P
  <2>1. PICK U, f, Q : U = Seq(T) /\ f = FlattenSeq(r) /\ Q = Rows(T, R)
    OBVIOUS
  <2>2. f \in Seq(T) /\ FlattenSeq(Append(r, y)) = f \o y
    BY <2>1, FlattenType, FlattenAppend
  <2>3. r \in Seq(U) /\ y \in U
    BY <2>1
  <2>4. Append(r, y) \in Seq(U)
    BY <2>3
  <2>5. ToSet(Append(r, y)) = ToSet(r) \cup {y}
    BY ONLY <2>3, AppendSet
  <2>6. ASSUME InRows(Append(r, y), R), Ordered(Append(r, y), Q) PROVE Ordered(f \o y, R)
    <3>1. InRows(r, R) /\ Ordered(y, R)
      BY <2>5, <2>6 DEF InRows
    <3>2. Ordered(r, Q) /\ \A z \in ToSet(r) : <<z, y>> \in Q
      BY ONLY <2>3, <2>6, OrderedBut
    <3>3. Ordered(f, R)
      BY <1>2, <2>1, <3>1, <3>2
    <3>4. Precede(ToSet(f), ToSet(y), R)
      <4> SUFFICES ASSUME NEW a \in ToSet(f), NEW b \in ToSet(y) PROVE <<a, b>> \in R
        BY DEF Precede
      <4>1. PICK z \in ToSet(r) : a \in ToSet(z)
        BY <2>1, FlattenElements
      <4>2. <<z, y>> \in Rows(T, R)
        BY <2>1, <3>2
      <4>3. Precede(ToSet(z), ToSet(y), R)
        BY <4>2 DEF Rows
      <4> QED
        BY <4>1, <4>3 DEF Precede
    <3> QED
      BY <2>2, <3>1, <3>3, <3>4, OrderedConcat
  <2> QED
    BY <2>1, <2>2, <2>4, <2>6
<1> HIDE DEF P
<1>3. Seq(Seq(T)) \subseteq P
  <2>1. PICK U : U = Seq(T)
    OBVIOUS
  <2>2. \A r \in Seq(U), y \in U : r \in P => Append(r, y) \in P
    BY <1>2, <2>1
  <2> QED
    BY <1>1, <2>1, <2>2, SequenceInduction
<1>4. ss \in P
  BY <1>3
<1> QED
  BY <1>4 DEF P

\* Transactions to process are of different blocks, or different ones of a block.
Turns ==
    {p \in Todos \X Todos :
        p[1].block < p[2].block \/ (p[1].block = p[2].block /\ p[1].hash # p[2].hash)}

\* A transaction has events of a sequence, in their order.
TxOf(t, events, R) ==
    /\ t.events \in Seq(Events) /\ ToSet(t.events) \subseteq ToSet(events) /\ Ordered(t.events, R)
    /\ \A f \in ToSet(t.events) : f.block = t.block /\ f.tx = t.hash
TxsAre(ts, events, R, lo, hi) ==
    /\ Ordered(ts, Turns)
    /\ \A t \in ToSet(ts) : TxOf(t, events, R) /\ lo <= t.block /\ t.block <= hi

\* The events of a block, by transactions.
LEMMA GroupedAre ==
    ASSUME NEW events \in Seq(Events), NEW block \in Nat, NEW R, Ordered(events, R),
           \A e \in ToSet(events) : e.block = block
    PROVE  TxsAre(Grouped(events, block), events, R, block, block)
<1>1. PICK met, D, g : met = Met(events) /\ D = 1..MaxTxs /\ g = Grouped(events, block)
  OBVIOUS
<1>2. met \in Seq(D) /\ MetAll(met, events, Len(events)) /\ g \in Seq(Todos)
  BY <1>1, MetType, MetIs, GroupedType
<1>3. DOMAIN met = 1..Len(met) /\ Len(met) \in Nat
  BY <1>2
<1>4. /\ DOMAIN g = DOMAIN met
      /\ \A j \in DOMAIN met : g[j] = [hash |-> met[j], block |-> block, events |-> OfTx(events, met[j])]
  BY <1>1 DEF Grouped
<1>5. Len(g) = Len(met)
  BY <1>2, <1>3, <1>4
<1>6. \A j \in 1..Len(met) : g[j].hash = met[j] /\ g[j].block = block /\ g[j].events = OfTx(events, met[j])
  BY <1>3, <1>4
<1>7. Ordered(g, Turns)
  <2> SUFFICES ASSUME NEW i \in 1..Len(g), NEW j \in 1..Len(g), i < j PROVE <<g[i], g[j]>> \in Turns
    BY DEF Ordered
  <2>1. g[i] \in Todos /\ g[j] \in Todos
    BY <1>2
  <2>2. met[i] # met[j]
    BY <1>2, <1>5 DEF MetAll
  <2> QED
    BY <1>5, <1>6, <2>1, <2>2 DEF Turns
<1>8. ASSUME NEW t \in ToSet(g) PROVE TxOf(t, events, R) /\ t.block = block
  <2>1. PICK j \in 1..Len(g) : t = g[j]
    BY <1>2, InSet
  <2>2. PICK S : S = {x \in ToSet(events) : x.tx = met[j]}
    OBVIOUS
  <2>3. t.hash = met[j] /\ t.block = block /\ t.events = Among(events, S)
    BY <1>5, <1>6, <2>1, <2>2 DEF OfTx, Where
  <2>4. ToSet(Among(events, S)) = ToSet(events) \cap S
    BY AmongSet
  <2>5. Ordered(Among(events, S), R)
    BY OrderedAmong
  <2>6. Among(events, S) \in Seq(Events)
    BY AmongType
  <2> QED
    BY <2>2, <2>3, <2>4, <2>5, <2>6 DEF TxOf
<1> QED
  BY <1>1, <1>7, <1>8 DEF TxsAre

\* The transactions of a range.
LEMMA TxsOfAre ==
    ASSUME range.to \in 0..MaxBlocks, NEW events \in Seq(Events), NEW R, Ordered(events, R)
    PROVE  TxsAre(TxsOf(events), events, R, 0, range.to)
<1>1. PICK w, ss, U : /\ w = range.to + 1 /\ U = Seq(Todos)
                      /\ ss = [k \in 1..w |-> Grouped(InBlock(events, k - 1), k - 1)]
  OBVIOUS
<1>2. w \in Nat /\ range.to \in Nat
  BY <1>1, IndexerAssumption
<1>3. TxsOf(events) = FlattenSeq(ss)
  BY <1>1 DEF TxsOf
<1>4. ASSUME NEW k \in 1..w
      PROVE  /\ ss[k] \in Seq(Todos) /\ Ordered(ss[k], Turns)
             /\ \A t \in ToSet(ss[k]) : TxOf(t, events, R) /\ t.block = k - 1
  <2>1. PICK n, S, part : n = k - 1 /\ S = {e \in ToSet(events) : e.block = n} /\ part = Among(events, S)
    OBVIOUS
  <2>2. n \in Nat
    BY <1>2, <2>1
  <2>3. part \in Seq(Events) /\ Ordered(part, R)
    BY <2>1, AmongType, OrderedAmong
  <2>4. ToSet(part) = ToSet(events) \cap S
    BY <2>1, AmongSet
  <2>5. ss[k] = Grouped(part, n)
    BY <1>1, <2>1 DEF InBlock, Where
  <2>6. TxsAre(Grouped(part, n), part, R, n, n)
    BY <2>1, <2>2, <2>3, <2>4, GroupedAre
  <2>7. Grouped(part, n) \in Seq(Todos)
    BY <2>2, <2>3, GroupedType
  <2>8. Ordered(ss[k], Turns)
    BY <2>5, <2>6 DEF TxsAre
  <2>9. ASSUME NEW t \in ToSet(ss[k]) PROVE TxOf(t, events, R) /\ t.block = k - 1
    <3>1. TxOf(t, part, R) /\ n <= t.block /\ t.block <= n
      BY <2>5, <2>6, <2>9 DEF TxsAre
    <3>2. t \in Todos
      BY <2>5, <2>7, <2>9, SeqToSet
    <3>3. t.block = n
      <4>1. t.block \in Nat
        BY <3>2 DEF Todos
      <4> QED
        BY <2>2, <3>1, <4>1
    <3> QED
      BY <2>1, <2>4, <3>1, <3>3 DEF TxOf
  <2> QED
    BY <2>5, <2>7, <2>8, <2>9
<1>5. ss \in Seq(U) /\ Len(ss) = w
  <2>1. \A k \in 1..w : ss[k] \in U
    BY <1>1, <1>4
  <2>2. ss = [k \in 1..w |-> ss[k]]
    BY <1>1
  <2>3. w \in Int
    BY <1>2
  <2> QED
    BY <1>2, <2>1, <2>2, <2>3, UpToIs
<1>6. ss \in Seq(Seq(Todos))
  BY <1>1, <1>5
<1>7. InRows(ss, Turns)
  <2> SUFFICES ASSUME NEW z \in ToSet(ss) PROVE Ordered(z, Turns)
    BY DEF InRows
  <2>1. PICK k \in 1..w : z = ss[k]
    BY <1>5, InSet
  <2> QED
    BY <1>4, <2>1
<1>8. Ordered(ss, Rows(Todos, Turns))
  <2> SUFFICES ASSUME NEW i \in 1..Len(ss), NEW j \in 1..Len(ss), i < j PROVE <<ss[i], ss[j]>> \in Rows(Todos, Turns)
    BY DEF Ordered
  <2>1. i \in 1..w /\ j \in 1..w /\ i - 1 < j - 1
    BY <1>2, <1>5
  <2>2. ss[i] \in Seq(Todos) /\ ss[j] \in Seq(Todos)
    BY <1>4, <2>1
  <2>3. Precede(ToSet(ss[i]), ToSet(ss[j]), Turns)
    <3> SUFFICES ASSUME NEW a \in ToSet(ss[i]), NEW b \in ToSet(ss[j]) PROVE <<a, b>> \in Turns
      BY DEF Precede
    <3>1. a \in Todos /\ b \in Todos
      BY <2>2, SeqToSet
    <3>2. a.block = i - 1 /\ b.block = j - 1
      BY <1>4, <2>1
    <3>3. a.block < b.block
      BY <2>1, <3>2
    <3> QED
      BY <3>1, <3>3 DEF Turns
  <2> QED
    BY <2>2, <2>3 DEF Rows
<1>9. Ordered(FlattenSeq(ss), Turns)
  BY <1>6, <1>7, <1>8, OrderedFlatten
<1>10. ASSUME NEW t \in ToSet(FlattenSeq(ss)) PROVE TxOf(t, events, R) /\ 0 <= t.block /\ t.block <= range.to
  <2>1. PICK z \in ToSet(ss) : t \in ToSet(z)
    BY <1>6, <1>10, FlattenElements
  <2>2. PICK k \in 1..w : z = ss[k]
    BY <1>5, <2>1, InSet
  <2>3. TxOf(t, events, R) /\ t.block = k - 1
    BY <1>4, <2>1, <2>2
  <2> QED
    BY <1>1, <1>2, <2>3
<1> QED
  BY <1>3, <1>9, <1>10 DEF TxsAre

-----------------------------------------------------------------------------
(* The events of a contract are written once and in order *)

\* The events of a contract one after the other.
Own(c) == {p \in Events \X Events : p[1].from = c /\ p[2].from = c => Before(p[1], p[2])}
OwnOf(s, c) == {e \in ToSet(s) : e.from = c}

\* An event of the database is of a block up to the head, or of a transaction of the pending block
\* that the cursors are at or beyond.
Placed(e, d, c) ==
    /\ d.head # None
    /\ \/ e.block <= Value(d.head)
       \/ /\ e.block = Value(d.head) + 1 /\ d.contractTx[c] # None /\ d.pendingTx # None
          /\ \A t \in d.contractTx[c] : e.tx <= t
          /\ \A p \in d.pendingTx : e.tx <= p
Settled(d, c, tip) ==
    /\ Ordered(d.events, Own(c))
    /\ d.head # None => Value(d.head) <= tip
    /\ \A e \in OwnOf(d.events, c) : Placed(e, d, c)

\* The events of a range are of its blocks, and come after those of the database.
Begun(r, d, c, tip) ==
    /\ r.from <= r.to /\ r.to <= tip /\ (d.head # None => Value(d.head) < r.to)
    /\ Ordered(r.events, Own(c)) /\ Precede(ToSet(d.events), ToSet(r.events), Own(c))
    /\ \A f \in OwnOf(r.events, c) : f.block <= r.to

\* There is one request for a contract, and what it has still to return comes after the head and
\* after what it has returned.
Apart(T) == {p \in T \X T : p[1].contract # p[2].contract}
Follows(f, d, c, events) ==
    /\ d.head # None => Value(d.head) < f.block
    /\ \A e \in OwnOf(events, c) : Before(e, f)
Awaits(r, c, d, events) == r.contract = c => \A f \in ToSet(Remaining(c, r.token)) : Follows(f, d, c, events)
Asking(c) ==
    /\ Ordered(range.requests \o range.next, Apart(Requests(config)))
    /\ \A r \in ToSet(range.requests) \cup ToSet(range.next) : Awaits(r, c, db, range.events)

\* The events of a transaction that is processed come after what is written and left to tasks.
Coming(t, c, o, later) ==
    /\ Ordered(t.events, Own(c))
    /\ Precede(ToSet(o.events), ToSet(t.events), Own(c)) /\ Precede(ToSet(later), ToSet(t.events), Own(c))
    /\ \A f \in ToSet(t.events) : f.block = t.block /\ f.tx = t.hash

\* Events of the mined blocks are processed, or of the pending block.
Numbers == {p \in Todos \X Todos : p[1].hash < p[2].hash}
Done(c) == OwnOf(open.events, c) \cup OwnOf(tasks, c)
Cur(c) == IF c \in DOMAIN touched THEN {touched[c]} ELSE open.contractTx[c]
OfMined(c) ==
    /\ \A e \in Done(c) : e.block <= range.to
    /\ \A t \in ToSet(todo) : t.block <= range.to
Passed(e, c) ==
    /\ e.block = range.to + 1 /\ last # None /\ Cur(c) # None
    /\ \A p \in last : e.tx <= p
    /\ \A u \in Cur(c) : e.tx <= u
    /\ \A t \in ToSet(todo) : e.tx < t.hash
OfPending(c) ==
    /\ \A e \in Done(c) : e.block <= range.to \/ Passed(e, c)
    /\ Ordered(todo, Numbers)
    /\ \A t \in ToSet(todo) : t.block = range.to + 1 /\ last # None /\ \A p \in last : t.hash <= p
Processing(c) ==
    /\ range.to <= Latest
    /\ Ordered(open.events, Own(c)) /\ Ordered(tasks, Own(c))
    /\ Precede(ToSet(open.events), ToSet(tasks), Own(c))
    /\ Ordered(todo, Turns)
    /\ \A t \in ToSet(todo) : Coming(t, c, open, tasks)
    /\ OfMined(c) \/ OfPending(c)

\* What makes the events of a contract be written once and in order.
OnceOf(c) ==
    /\ Settled(db, c, Latest)
    /\ c \notin Parallel \/ pc # "process" => OwnOf(tasks, c) = {}
    /\ pc \notin {"process", "commit"} => open = db
    /\ pc \in {"pages", "blocks"} => Begun(range, db, c, Latest)
    /\ pc = "pages" => Asking(c)
    /\ pc = "pending" => /\ range.to = range.latest /\ range.to <= Latest
                         /\ db.head # None => Value(db.head) = range.latest
    /\ pc = "process" => Processing(c)
    /\ pc = "commit" => Settled(open, c, Latest)

\* The contracts it holds for: their events are not left to tasks that outlive a failure.
Safe(c) == c \in Parallel => ~config.transactions
OnceInv == messages = 0 => \A c \in Contracts : Safe(c) => OnceOf(c)

\* Events that are in the order of the chain are written in order.
LEMMA PreBefore ==
    ASSUME NEW e \in Events, NEW f \in Events, Pre(e, f), NEW c
    PROVE  <<e, f>> \in Own(c)
<1>1. e.block \in Int /\ f.block \in Int /\ e.tx \in Int /\ f.tx \in Int
  BY IndexerAssumption DEF Events
<1>2. Before(e, f)
  <2>1. PICK a, b, x, y \in Int : a = e.block /\ b = f.block /\ x = e.tx /\ y = f.tx
    BY <1>1
  <2>2. CASE x < y /\ a <= b
    BY <2>1, <2>2 DEF Before
  <2>3. CASE x = y /\ a = b /\ e.at < f.at
    BY <2>1, <2>3 DEF Before
  <2> QED
    BY <2>1, <2>2, <2>3 DEF Pre
<1> QED
  BY <1>2 DEF Own

\* Events of different contracts are in any order.
LEMMA OthersOwn ==
    ASSUME NEW e \in Events, NEW f \in Events, NEW c, ~(e.from = c /\ f.from = c)
    PROVE  <<e, f>> \in Own(c)
BY DEF Own

\* A sequence of events that is in the order of the chain.
LEMMA OrderedOwn ==
    ASSUME NEW s \in Seq(Events), NEW T, Ordered(s, PresOf(T)), NEW c
    PROVE  Ordered(s, Own(c))
<1>1. ASSUME NEW x \in ToSet(s), NEW y \in ToSet(s), <<x, y>> \in PresOf(T) PROVE <<x, y>> \in Own(c)
  <2>1. x \in Events /\ y \in Events
    BY SeqToSet
  <2>2. Pre(x, y)
    BY <1>1 DEF PresOf
  <2> QED
    BY <2>1, <2>2, PreBefore
<1> QED
  BY <1>1, OrderedAlso

\* So is one without events of the contract.
LEMMA OrderedOthers ==
    ASSUME NEW s \in Seq(Events), NEW c, OwnOf(s, c) = {}
    PROVE  Ordered(s, Own(c))
<1> SUFFICES ASSUME NEW i \in 1..Len(s), NEW j \in 1..Len(s), i < j PROVE <<s[i], s[j]>> \in Own(c)
  BY DEF Ordered
<1>1. s[i] \in Events /\ s[j] \in Events /\ s[i] \in ToSet(s)
  BY InSet
<1>2. s[i].from # c
  BY <1>1 DEF OwnOf
<1> QED
  BY <1>1, <1>2, OthersOwn

\* An event that is in the database comes before one after the head, and after the cursor of the contract.
LEMMA PlacedBefore ==
    ASSUME NEW d \in Dbs, NEW c \in Contracts, NEW tip, Settled(d, c, tip), NEW e \in ToSet(d.events), NEW f \in Events,
           d.head # None => Value(d.head) < f.block,
           d.contractTx[c] # None => \E t \in d.contractTx[c] : t < f.tx
    PROVE  <<e, f>> \in Own(c)
<1>1. e \in Events
  <2>1. d.events \in Seq(Events)
    BY DbIs
  <2> QED
    BY <2>1, SeqToSet
<1>2. CASE e.from = c
  <2>1. e \in OwnOf(d.events, c)
    BY <1>2 DEF OwnOf
  <2>2. Placed(e, d, c)
    BY <2>1 DEF Settled
  <2>3. PICK h : h = Value(d.head)
    OBVIOUS
  <2>4. h \in Nat /\ h < f.block
    <3>1. d.head \in SUBSET (0..MaxBlocks) /\ d.head # {}
      BY <2>2, DbIs DEF Placed, None
    <3>2. h \in 0..MaxBlocks
      BY <2>3, <3>1, ValueIn
    <3> QED
      BY <2>2, <2>3, <3>2, IndexerAssumption DEF Placed
  <2>5. PICK a, b, x, y \in Int : a = e.block /\ b = f.block /\ x = e.tx /\ y = f.tx
    BY <1>1, IndexerAssumption DEF Events
  <2>6. CASE a <= h
    <3>1. a < b
      BY <2>4, <2>5, <2>6
    <3> QED
      BY <1>1, <2>5, <3>1 DEF Own, Before
  <2>7. CASE a = h + 1 /\ d.contractTx[c] # None /\ \A t \in d.contractTx[c] : e.tx <= t
    <3>1. PICK t \in d.contractTx[c] : t < f.tx
      BY <2>7
    <3>2. t \in Int
      <4>1. d.contractTx \in [Contracts -> SUBSET (1..MaxTxs)]
        BY DbIs
      <4>2. d.contractTx[c] \in SUBSET (1..MaxTxs)
        BY <4>1
      <4> QED
        BY <4>2, IndexerAssumption
    <3>3. x <= t /\ t < y /\ a <= b
      BY <2>4, <2>5, <2>7, <3>1
    <3>4. x < y
      BY <2>5, <3>2, <3>3
    <3>5. Pre(e, f)
      BY <2>5, <3>3, <3>4 DEF Pre
    <3> QED
      BY <1>1, <3>5, PreBefore
  <2> QED
    BY <2>2, <2>3, <2>5, <2>6, <2>7 DEF Placed
<1>3. CASE e.from # c
  BY <1>1, <1>3, OthersOwn
<1> QED
  BY <1>2, <1>3

\* What a node has still to return, in the next state.
RemainingLaw ==
    ChainInv /\ HashInv /\ config \in Configs /\ range.from \in Nat =>
        \A c \in Contracts, token \in SUBSET TokensOf(config) :
            \A f \in ToSet(Remaining(c, token)) :
                f \in PageEvents /\ f.from = c /\ f.block \in Nat \ {0} /\ (token = None => range.from <= f.block)

\* This holds in every state.
LEMMA RemainingNext == RemainingLaw /\ RemainingLaw'
<1>1. RemainingLaw
  BY RemainingIs, SeqToSet DEF RemainingLaw
<1> QED
  BY <1>1, PTL

\* A block more leaves the database in order.
LEMMA SettledStays ==
    ASSUME NEW d \in Dbs, NEW c, NEW tip \in Nat, NEW more \in Nat, tip <= more, Settled(d, c, tip)
    PROVE  Settled(d, c, more)
<1>1. d.head # None => Value(d.head) \in Nat
  <2>1. d.head \in SUBSET (0..MaxBlocks)
    BY DbIs
  <2>2. d.head # None => Value(d.head) \in 0..MaxBlocks
    BY <2>1, ValueIn DEF None
  <2> QED
    BY <2>2, IndexerAssumption
<1>2. d.head # None => Value(d.head) <= more
  <2>1. PICK h : h = Value(d.head)
    OBVIOUS
  <2>2. d.head # None => h \in Nat /\ h <= tip
    BY <1>1, <2>1 DEF Settled
  <2>3. d.head # None => h <= more
    BY <2>2
  <2> QED
    BY <2>1, <2>3
<1> QED
  BY <1>2 DEF Settled

\* What a node has still to return depends on the chain and on where the range begins.
LEMMA RemainingSame ==
    ASSUME chain' = chain, config' = config, range'.from = range.from, NEW c, NEW token
    PROVE  (Remaining(c, token))' = Remaining(c, token)
<1>1. Latest' = Latest /\ \A n : (Block(n))' = Block(n)
  BY DEF Latest, Block
<1>2. \A lo : (MinedEvents(lo, Latest, c))' = MinedEvents(lo, Latest, c)
  BY <1>1 DEF MinedEvents
<1>3. \A p : (Content(p, c))' = Content(p, c)
  BY <1>1 DEF Content
<1>4. \A n, i : (LeftIn(n, i))' = LeftIn(n, i)
  BY <1>1 DEF LeftIn
<1>5. \A n, i : (RowEvents(n, i, c))' = RowEvents(n, i, c)
  BY <1>3, <1>4 DEF RowEvents
<1>6. \A n, i : (EventsFrom(n, i, c))' = EventsFrom(n, i, c)
  BY <1>1, <1>2, <1>5 DEF EventsFrom
<1>7. \A q : (Rest(q, c))' = Rest(q, c)
  BY <1>1, <1>3, <1>6 DEF Rest
<1>8. CASE config.node = "other"
  BY <1>2, <1>8 DEF Remaining
<1>9. CASE config.node # "other"
  BY <1>7, <1>9 DEF Remaining
<1> QED
  BY <1>8, <1>9

\* The same requests wait for the same events.
LEMMA AskingSame ==
    ASSUME NEW c, Asking(c), UNCHANGED <<chain, config, db, range>>
    PROVE  Asking(c)'
<1>1. ASSUME NEW r PROVE Awaits(r, c, db, range.events)' <=> Awaits(r, c, db, range.events)
  <2>1. PICK t : t = r.token
    OBVIOUS
  <2>2. (Remaining(c, t))' = Remaining(c, t)
    BY RemainingSame
  <2> QED
    BY <2>1, <2>2 DEF Awaits
<1> QED
  BY <1>1 DEF Asking

\* A step that leaves the engine, the database and the chain alone.
LEMMA OnceSame ==
    ASSUME NEW c, OnceOf(c), UNCHANGED <<chain, config, db, open, tasks, pc, range, todo, last, touched>>
    PROVE  OnceOf(c)'
<1>1. Latest' = Latest
  BY DEF Latest
<1>2. Cur(c)' = Cur(c) /\ Done(c)' = Done(c)
  BY DEF Cur, Done
<1>3. \A e : Passed(e, c)' <=> Passed(e, c)
  BY <1>2 DEF Passed
<1>4. Processing(c)' <=> Processing(c)
  BY <1>1, <1>2, <1>3 DEF Processing, OfMined, OfPending
<1>5. Asking(c) => Asking(c)'
  BY AskingSame
<1> QED
  BY <1>1, <1>4, <1>5 DEF OnceOf

\* There is a block more.
LEMMA OnceGrows ==
    ASSUME IndexerInv, ChainInv', HashInv', NEW c \in Contracts, OnceOf(c), NEW x, chain' = Append(chain, x),
           UNCHANGED <<config, db, open, tasks, pc, range, todo, last, touched>>
    PROVE  OnceOf(c)'
<1>1. ChainInv /\ config \in Configs /\ db \in Dbs /\ open \in Dbs /\ range \in Ranges(config)
  BY DEF IndexerInv, NodeInv, StoreInv, EngineInv
<1>2. Latest' = Latest + 1 /\ Latest \in Nat
  BY <1>1, LatestGrows
<1>3. PICK tip, more : tip = Latest /\ more = Latest'
  OBVIOUS
<1>4. tip \in Nat /\ more \in Nat /\ tip <= more
  BY <1>2, <1>3
<1>5. range.from \in Nat /\ range.to \in Nat /\ range.requests \in Seq(Requests(config))
      /\ range.next \in Seq(Requests(config)) /\ range.events \in Seq(Events)
  BY <1>1, RangeIs, IndexerAssumption
<1>6. Settled(db, c, Latest)'
  <2>1. Settled(db, c, tip)
    BY <1>3 DEF OnceOf
  <2>2. Settled(db, c, more)
    BY <1>1, <1>4, <2>1, SettledStays
  <2> QED
    BY <1>3, <2>2
<1>7. pc = "commit" => Settled(open, c, Latest)'
  <2>1. pc = "commit" => Settled(open, c, tip)
    BY <1>3 DEF OnceOf
  <2>2. pc = "commit" => Settled(open, c, more)
    BY <1>1, <1>4, <2>1, SettledStays
  <2> QED
    BY <1>3, <2>2
<1>8. range.to <= tip => range.to <= more
  BY <1>4, <1>5
<1>9. pc \in {"pages", "blocks"} => Begun(range, db, c, Latest)'
  BY <1>3, <1>8 DEF OnceOf, Begun
<1>10. ASSUME pc = "pages" PROVE Asking(c)'
  <2>1. Asking(c) /\ Begun(range, db, c, Latest)
    BY <1>10 DEF OnceOf
  <2>2. range.from <= range.to /\ range.to <= Latest /\ (db.head # None => Value(db.head) < range.to)
    BY <2>1 DEF Begun
  <2>3. range.from <= Latest + 1
    BY <1>2, <1>5, <2>2
  <2>4. ASSUME NEW r \in ToSet(range.requests) \cup ToSet(range.next), r.contract = c,
               NEW f \in ToSet((Remaining(c, r.token))')
        PROVE  Follows(f, db, c, range.events)
    <3>1. r \in Requests(config)
      BY <1>5, SeqToSet
    <3>2. PICK t : t = r.token
      OBVIOUS
    <3>3. t \in SUBSET TokensOf(config)
      BY <3>1, <3>2, RequestIs
    <3>4. f \in ToSet((Remaining(c, t))')
      BY <2>4, <3>2
    <3>5. f \in ToSet(Remaining(c, t)) \/ f.block = Latest + 1
      BY <1>1, <1>5, <2>3, <3>3, <3>4, RemainingGrows
    <3>6. CASE f \in ToSet(Remaining(c, t))
      BY <2>1, <2>4, <3>2, <3>6 DEF Asking, Awaits
    <3>7. CASE f.block = Latest + 1
      <4>1. db.head # None => Value(db.head) < f.block
        <5>1. PICK h : h = Value(db.head)
          OBVIOUS
        <5>2. db.head # None => h \in Nat
          <6>1. db.head \in SUBSET (0..MaxBlocks)
            BY <1>1, DbIs
          <6>2. db.head # None => h \in 0..MaxBlocks
            BY <5>1, <6>1, ValueIn DEF None
          <6> QED
            BY <6>2, IndexerAssumption
        <5>3. db.head # None => h < Latest + 1
          BY <1>2, <1>5, <2>2, <5>1, <5>2
        <5> QED
          BY <3>7, <5>1, <5>3
      <4>2. ASSUME NEW e \in OwnOf(range.events, c) PROVE Before(e, f)
        <5>1. e \in Events
          BY <1>5, SeqToSet DEF OwnOf
        <5>2. PICK a \in Int : a = e.block
          BY <5>1, IndexerAssumption DEF Events
        <5>3. a <= range.to
          BY <2>1, <4>2, <5>2 DEF Begun
        <5>4. a < Latest + 1
          BY <1>2, <1>5, <2>2, <5>3
        <5> QED
          BY <3>7, <5>2, <5>4 DEF Before
      <4> QED
        BY <4>1, <4>2 DEF Follows
    <3> QED
      BY <3>5, <3>6, <3>7
  <2>5. ASSUME NEW r \in ToSet(range.requests) \cup ToSet(range.next)
        PROVE  Awaits(r, c, db, range.events)'
    <3>1. PICK t : t = r.token
      OBVIOUS
    <3>2. ASSUME r.contract = c, NEW f \in ToSet((Remaining(c, t))') PROVE Follows(f, db, c, range.events)
      BY <2>4, <3>1, <3>2
    <3> QED
      BY <3>1, <3>2 DEF Awaits
  <2> QED
    BY <2>1, <2>5 DEF Asking
<1>11. pc = "process" => Processing(c)'
  <2>1. Cur(c)' = Cur(c) /\ Done(c)' = Done(c)
    BY DEF Cur, Done
  <2>2. \A e : Passed(e, c)' <=> Passed(e, c)
    BY <2>1 DEF Passed
  <2>3. pc = "process" => Processing(c)
    BY DEF OnceOf
  <2>4. Processing(c) => range.to <= tip
    BY <1>3 DEF Processing
  <2>5. Processing(c) => range'.to <= Latest'
    BY <1>3, <1>8, <2>4
  <2> QED
    BY <2>1, <2>2, <2>3, <2>5 DEF Processing, OfMined, OfPending
<1>12. pc = "pending" => range.to = range.latest /\ range.to <= more /\ (db.head # None => Value(db.head) = range.latest)
  BY <1>3, <1>8 DEF OnceOf
<1> QED
  BY <1>3, <1>6, <1>7, <1>9, <1>10, <1>11, <1>12 DEF OnceOf

\* The steps of the node.
LEMMA NodeOnce ==
    ASSUME IndexerInv, IndexerInv', NumberInv', NEW c \in Contracts, OnceOf(c), ExecuteTx \/ MineBlock
    PROVE  OnceOf(c)'
<1>1. UNCHANGED <<config, db, open, tasks, pc, range, todo, last, touched>>
  BY DEF ExecuteTx, MineBlock, storeVars, writeVars, engineVars
<1>2. ChainInv' /\ HashInv'
  BY DEF IndexerInv, NodeInv, NumberInv
<1>3. chain' = chain \/ \E x : chain' = Append(chain, x)
  BY DEF ExecuteTx, MineBlock
<1>4. CASE chain' = chain
  BY <1>1, <1>4, OnceSame
<1>5. ASSUME NEW x, chain' = Append(chain, x) PROVE OnceOf(c)'
  BY <1>1, <1>2, <1>5, OnceGrows
<1> QED
  BY <1>3, <1>4, <1>5

\* The loop starts over, or torii ends, with nothing written since the last commit.
LEMMA IdleOnce ==
    ASSUME NEW c, OnceOf(c), UNCHANGED <<chain, db>>, open' = db, pc' \in {"loop", "down"},
           OwnOf(tasks', c) = {}
    PROVE  OnceOf(c)'
<1>1. Latest' = Latest
  BY DEF Latest
<1> QED
  BY <1>1 DEF OnceOf

\* A request fails, or torii starts again.
LEMMA FailOnce ==
    ASSUME NEW c, OnceOf(c), FetchFails \/ Restart
    PROVE  OnceOf(c)'
<1>1. UNCHANGED <<chain, db, open, tasks>> /\ pc' = "loop" /\ pc \notin {"process", "commit"}
  BY DEF FetchFails, Restart, chainVars, storeVars, writeVars
<1>2. open' = db /\ OwnOf(tasks', c) = {}
  BY <1>1 DEF OnceOf
<1> QED
  BY <1>1, <1>2, IdleOnce

\* Torii ends.
LEMMA LostOnce ==
    ASSUME NEW c, OnceOf(c), Crash \/ Panics
    PROVE  OnceOf(c)'
<1>1. UNCHANGED <<chain, db>> /\ pc' = "down" /\ open' = db /\ tasks' = <<>>
  BY DEF Crash, Panics, Lost, chainVars, storeVars
<1>2. OwnOf(tasks', c) = {}
  BY <1>1 DEF OwnOf, ToSet
<1> QED
  BY <1>1, <1>2, IdleOnce

\* No event of a contract is left to the tasks, unless its events are.
LEMMA LaterOthers ==
    ASSUME NEW s \in Seq(Events), NEW c
    PROVE  /\ c \notin Parallel => OwnOf(Later(s), c) = {}
           /\ c \in Parallel => OwnOf(AtOnce(s), c) = {}
           /\ ToSet(Later(s)) \subseteq ToSet(s) /\ ToSet(AtOnce(s)) \subseteq ToSet(s)
           /\ \A R : Ordered(s, R) => Ordered(Later(s), R) /\ Ordered(AtOnce(s), R)
<1>1. PICK S, U : S = {e \in ToSet(s) : e.from \in Parallel} /\ U = {e \in ToSet(s) : e.from \notin Parallel}
  OBVIOUS
<1>2. Later(s) = Among(s, S) /\ AtOnce(s) = Among(s, U)
  BY <1>1 DEF Later, AtOnce, Where
<1>3. ToSet(Among(s, S)) = ToSet(s) \cap S /\ ToSet(Among(s, U)) = ToSet(s) \cap U
  BY AmongSet
<1>4. ASSUME NEW R, Ordered(s, R) PROVE Ordered(Later(s), R) /\ Ordered(AtOnce(s), R)
  <2>1. Ordered(Among(s, S), R) /\ Ordered(Among(s, U), R)
    BY <1>4, OrderedAmong
  <2> QED
    BY <1>2, <2>1
<1> QED
  BY <1>1, <1>2, <1>3, <1>4 DEF OwnOf

\* A transaction cannot be processed.
LEMMA ProcessFailsOnce ==
    ASSUME IndexerInv, NEW c, OnceOf(c), Safe(c), ProcessFails
    PROVE  OnceOf(c)'
<1>1. PICK s : s = Head(todo).events
  OBVIOUS
<1>2. /\ UNCHANGED <<chain, db>> /\ pc' = "loop" /\ open' = db /\ config.transactions
      /\ tasks' = tasks \o Later(s) /\ todo # <<>>
  BY <1>1 DEF ProcessFails, chainVars, storeVars, Later
<1>3. c \notin Parallel
  BY <1>2 DEF Safe
<1>4. tasks \in Seq(Events) /\ s \in Seq(Events) /\ Later(s) \in Seq(Events)
  BY <1>1, <1>2, HeadType DEF IndexerInv, EngineInv
<1>5. OwnOf(tasks, c) = {} /\ OwnOf(Later(s), c) = {}
  BY <1>3, <1>4, LaterOthers DEF OnceOf
<1>6. ToSet(tasks \o Later(s)) = ToSet(tasks) \cup ToSet(Later(s))
  BY <1>4, ConcatSet
<1>7. OwnOf(tasks', c) = {}
  BY <1>2, <1>5, <1>6 DEF OwnOf
<1> QED
  BY <1>2, <1>7, IdleOnce

\* A range is asked for.
LEMMA RangeOnce ==
    ASSUME IndexerInv, IndexerInv', OrderInv, HashInv, NEW c \in Contracts, OnceOf(c), FetchRange
    PROVE  OnceOf(c)'
<1>1. /\ ChainInv /\ db \in Dbs /\ BlocksChunk \in Nat \ {0} /\ WorldBlock \in Nat /\ config \in Configs
      /\ order \in Seq(Contracts)
  BY IndexerAssumption DEF IndexerInv, NodeInv, StoreInv, EngineInv
<1>2. PICK from, to, f, latest : /\ from = range'.from /\ to = range'.to /\ f = From /\ latest = Latest
  OBVIOUS
<1>3. /\ UNCHANGED <<chain, pending, config, db, open, tasks>> /\ pc = "loop" /\ pc' = "pages" /\ f < latest
      /\ from = (IF f = 0 THEN 0 ELSE f + 1) /\ to = Smaller(latest, f + BlocksChunk)
      /\ range'.requests = [i \in DOMAIN order |-> [contract |-> order[i], token |-> None]]
      /\ range'.next = <<>> /\ range'.events = <<>>
  BY <1>2 DEF FetchRange, chainVars, storeVars, writeVars
<1>4. f \in Nat /\ latest \in Nat /\ latest' = latest /\ Latest' = latest
  BY <1>1, <1>2, <1>3, FromType, PendingCursors DEF IndexerInv, Latest
<1>5. from \in Nat /\ from <= to /\ to <= latest /\ f < to
  BY <1>1, <1>3, <1>4 DEF Smaller
<1>6. db.head # None => Value(db.head) = f
  BY <1>2 DEF From
<1>7. ToSet(<<>>) = {} /\ Ordered(<<>>, Own(c))
  BY DEF ToSet, Ordered
<1>8. Begun(range', db, c, latest)
  BY <1>2, <1>3, <1>5, <1>6, <1>7 DEF Begun, Precede, OwnOf
<1>9. PICK reqs, T : reqs = range'.requests /\ T = Requests(config)
  OBVIOUS
<1>10. range' \in Ranges(config)
  BY <1>3 DEF IndexerInv, EngineInv
<1>11. reqs \in Seq(T)
  BY <1>9, <1>10, RangeIs
<1>12. \A i \in 1..Len(reqs) : i \in DOMAIN order /\ reqs[i].contract = order[i] /\ reqs[i].token = None
  BY <1>3, <1>9, <1>11
<1>13. Ordered(reqs, Apart(T))
  <2> SUFFICES ASSUME NEW i \in 1..Len(reqs), NEW j \in 1..Len(reqs), i < j PROVE <<reqs[i], reqs[j]>> \in Apart(T)
    BY DEF Ordered
  <2>1. order[i] # order[j]
    BY <1>12, OrderHas DEF OrderInv
  <2>2. reqs[i] \in T /\ reqs[j] \in T
    BY <1>11
  <2> QED
    BY <1>12, <2>1, <2>2 DEF Apart
<1>14. range'.requests \o range'.next = reqs
  <2>1. reqs \o <<>> = reqs
    BY <1>11, ConcatEmptySeq
  <2> QED
    BY <1>3, <1>9, <2>1
<1>15. ASSUME NEW g \in ToSet((Remaining(c, None))') PROVE Follows(g, db, c, <<>>)
  <2>1. ChainInv' /\ config' \in Configs /\ range'.from \in Nat
    BY <1>2, <1>5 DEF IndexerInv, NodeInv
  <2>2. HashInv'
    <3>1. txs' = txs
      BY DEF FetchRange, countVars
    <3> QED
      BY <1>3, <3>1 DEF HashInv
  <2>3. None \in SUBSET TokensOf(config')
    BY DEF None
  <2>4. g.block \in Nat \ {0} /\ range'.from <= g.block
    BY <2>1, <2>2, <2>3, RemainingNext DEF RemainingLaw
  <2>5. f < g.block
    <3>1. PICK b \in Nat \ {0} : b = g.block
      BY <2>4
    <3>2. from <= b
      BY <1>2, <2>4, <3>1
    <3>3. f < b
      BY <1>3, <1>4, <3>1, <3>2
    <3> QED
      BY <3>1, <3>3
  <2> QED
    BY <1>6, <1>7, <2>5 DEF Follows, OwnOf
<1>16. ASSUME NEW r \in ToSet(reqs) PROVE Awaits(r, c, db, range.events)'
  <2>1. PICK i \in 1..Len(reqs) : r = reqs[i]
    BY <1>11, InSet
  <2>2. r.token = None
    BY <1>12, <2>1
  <2> QED
    BY <1>3, <1>15, <2>2 DEF Awaits
<1>17. Asking(c)'
  <2>1. ToSet(range'.requests) \cup ToSet(range'.next) = ToSet(reqs)
    BY <1>3, <1>7, <1>9
  <2>2. Ordered(range'.requests \o range'.next, Apart(Requests(config')))
    BY <1>3, <1>9, <1>13, <1>14
  <2>3. \A r \in ToSet(range'.requests) \cup ToSet(range'.next) : Awaits(r, c, db, range.events)'
    BY <1>16, <2>1
  <2> QED
    BY <2>2, <2>3 DEF Asking
<1>18. Settled(db, c, Latest)' /\ open' = db' /\ OwnOf(tasks', c) = {}
  BY <1>2, <1>3, <1>4 DEF OnceOf
<1> QED
  BY <1>3, <1>4, <1>8, <1>17, <1>18 DEF OnceOf

\* Only the pending block is left.
LEMMA LatestOnce ==
    ASSUME IndexerInv, NEW c, OnceOf(c), FetchLatest
    PROVE  OnceOf(c)'
<1>1. /\ UNCHANGED <<chain, db, open, tasks>> /\ pc = "loop" /\ pc' = "pending" /\ From >= Latest
      /\ range'.to = Latest /\ range'.latest = Latest
  BY DEF FetchLatest, chainVars, storeVars, writeVars, NoRange
<1>2. Latest' = Latest
  BY <1>1 DEF Latest
<1>3. PICK h, n : h = Value(db.head) /\ n = Latest
  OBVIOUS
<1>4. n \in Nat /\ From \in Nat
  BY <1>3, FromType, PendingCursors DEF IndexerInv, NodeInv
<1>5. db.head # None => h = n
  <2>1. db.head # None => h <= n
    BY <1>3 DEF OnceOf, Settled
  <2>2. db.head # None => h >= n /\ h \in Nat
    BY <1>1, <1>3, <1>4 DEF From
  <2> QED
    BY <1>4, <2>1, <2>2
<1>6. n <= n
  BY <1>4
<1> QED
  BY <1>1, <1>2, <1>3, <1>5, <1>6 DEF OnceOf

\* The parts of what two sets precede.
LEMMA PrecedeParts ==
    ASSUME NEW S, NEW U, NEW R, Precede(S, U, R), NEW A, A \subseteq S, NEW B, B \subseteq U
    PROVE  Precede(A, B, R)
BY DEF Precede

\* The transactions of a range are to be processed.
LEMMA BlocksOnce ==
    ASSUME IndexerInv, NEW c \in Contracts, OnceOf(c), FetchBlocks
    PROVE  OnceOf(c)'
<1>1. PICK events, ts : events = range.events /\ ts = todo'
  OBVIOUS
<1>2. /\ UNCHANGED <<chain, db, open, tasks, range>> /\ pc = "blocks" /\ pc' = "process"
      /\ ts = TxsOf(events)
  BY <1>1 DEF FetchBlocks, chainVars, storeVars, writeVars
<1>3. range \in Ranges(config) /\ db \in Dbs /\ tasks \in Seq(Events)
  BY DEF IndexerInv, EngineInv, StoreInv
<1>4. events \in Seq(Events) /\ range.to \in 0..MaxBlocks
  BY <1>1, <1>3, RangeIs
<1>5. Settled(db, c, Latest) /\ OwnOf(tasks, c) = {} /\ open = db /\ Begun(range, db, c, Latest)
  BY <1>2 DEF OnceOf
<1>6. Ordered(events, Own(c)) /\ Precede(ToSet(db.events), ToSet(events), Own(c)) /\ range.to <= Latest
  BY <1>1, <1>5 DEF Begun
<1>7. TxsAre(ts, events, Own(c), 0, range.to)
  BY <1>2, <1>4, <1>6, TxsOfAre
<1>8. \A e \in ToSet(tasks) : e \in Events /\ e.from # c
  BY <1>3, <1>5, SeqToSet DEF OwnOf
<1>9. \A e \in ToSet(db.events) : e \in Events
  <2>1. db.events \in Seq(Events)
    BY <1>3, DbIs
  <2> QED
    BY <2>1, SeqToSet
<1>10. ASSUME NEW t \in ToSet(ts) PROVE Coming(t, c, open, tasks) /\ t.block <= range.to
  <2>1. TxOf(t, events, Own(c)) /\ t.block <= range.to
    BY <1>7 DEF TxsAre
  <2>2. t.events \in Seq(Events) /\ ToSet(t.events) \subseteq ToSet(events) /\ Ordered(t.events, Own(c))
        /\ \A f \in ToSet(t.events) : f.block = t.block /\ f.tx = t.hash
    BY <2>1 DEF TxOf
  <2>3. Precede(ToSet(open.events), ToSet(t.events), Own(c))
    BY <1>5, <1>6, <2>2, PrecedeParts
  <2>4. Precede(ToSet(tasks), ToSet(t.events), Own(c))
    <3> SUFFICES ASSUME NEW x \in ToSet(tasks), NEW y \in ToSet(t.events) PROVE <<x, y>> \in Own(c)
      BY DEF Precede
    <3>1. y \in Events
      BY <2>2, SeqToSet
    <3> QED
      BY <1>8, <3>1, OthersOwn
  <2> QED
    BY <2>1, <2>2, <2>3, <2>4 DEF Coming
<1>11. Ordered(tasks, Own(c))
  BY <1>3, <1>5, OrderedOthers
<1>12. Precede(ToSet(open.events), ToSet(tasks), Own(c))
  <2> SUFFICES ASSUME NEW x \in ToSet(open.events), NEW y \in ToSet(tasks) PROVE <<x, y>> \in Own(c)
    BY DEF Precede
  <2> QED
    BY <1>5, <1>8, <1>9, OthersOwn
<1>13. ASSUME NEW e \in OwnOf(db.events, c) PROVE e.block <= range.to
  <2>1. e \in Events
    BY <1>9 DEF OwnOf
  <2>2. PICK a, h, to : a = e.block /\ h = Value(db.head) /\ to = range.to
    OBVIOUS
  <2>8. a \in Int /\ to \in Int
    BY <1>4, <2>1, <2>2, IndexerAssumption DEF Events
  <2>3. Placed(e, db, c)
    BY <1>5 DEF Settled
  <2>4. db.head # None /\ h \in Int
    <3>1. db.head \in SUBSET (0..MaxBlocks) /\ db.head # {}
      BY <1>3, <2>3, DbIs DEF Placed, None
    <3>2. h \in 0..MaxBlocks
      BY <2>2, <3>1, ValueIn
    <3> QED
      BY <2>3, <3>2, IndexerAssumption DEF Placed
  <2>5. h < to
    BY <1>5, <2>2, <2>4 DEF Begun
  <2>6. a <= h \/ a = h + 1
    BY <2>2, <2>3 DEF Placed
  <2>7. a <= to
    BY <2>4, <2>5, <2>6, <2>8
  <2> QED
    BY <2>2, <2>7
<1>14. OfMined(c)'
  BY <1>1, <1>2, <1>5, <1>10, <1>13 DEF OfMined, Done
<1>15. Ordered(ts, Turns)
  BY <1>7 DEF TxsAre
<1>16. Latest' = Latest
  BY <1>2 DEF Latest
<1>17. Processing(c)'
  BY <1>1, <1>2, <1>5, <1>6, <1>10, <1>11, <1>12, <1>14, <1>15, <1>16 DEF Processing, Settled
<1> QED
  BY <1>2, <1>5, <1>16, <1>17 DEF OnceOf

\* The tasks are written and the cursors set.
LEMMA TasksOnce ==
    ASSUME IndexerInv, NEW c \in Contracts, OnceOf(c), ProcessTasks
    PROVE  OnceOf(c)'
<1>1. PICK w : w = Write(open, tasks)
  OBVIOUS
<1>2. /\ UNCHANGED <<chain, db>> /\ pc = "process" /\ pc' = "commit" /\ tasks' = <<>> /\ todo = <<>>
      /\ open' = UpdateCursors(w, range.to, last)
  BY <1>1 DEF ProcessTasks, chainVars, storeVars
<1>3. open \in Dbs /\ tasks \in Seq(Events) /\ EngineInv /\ range.to \in 0..MaxBlocks /\ last \in SUBSET (1..MaxTxs)
  <2>1. range \in Ranges(config)
    BY DEF IndexerInv, EngineInv
  <2> QED
    BY <2>1, RangeIs DEF IndexerInv, EngineInv, StoreInv
<1>4. /\ w \in Dbs /\ w.events = open.events \o tasks /\ w.contractTx = open.contractTx
  BY <1>1, <1>3, WriteType, WriteKeeps
<1>5. PICK d : d = open'
  OBVIOUS
<1>6. /\ d.head = {range.to} /\ d.pendingTx = last /\ d.events = w.events
      /\ d.contractTx[c] = IF c \notin DOMAIN touched THEN open.contractTx[c]
                           ELSE IF last = None THEN None ELSE {touched[c]}
  BY <1>2, <1>4, <1>5 DEF UpdateCursors
<1>7. Value(d.head) = range.to /\ d.head # None
  BY <1>6, ValueOf DEF None
<1>8. Processing(c)
  BY <1>2 DEF OnceOf
<1>9. range.to <= Latest /\ (OfMined(c) \/ OfPending(c))
  BY <1>8 DEF Processing
<1>10. open.events \in Seq(Events)
  BY <1>3, DbIs
<1>11. Ordered(d.events, Own(c))
  <2>1. Ordered(open.events, Own(c)) /\ Ordered(tasks, Own(c)) /\ Precede(ToSet(open.events), ToSet(tasks), Own(c))
    BY <1>8 DEF Processing
  <2>2. Ordered(open.events \o tasks, Own(c))
    BY <1>3, <1>10, <2>1, OrderedConcat
  <2> QED
    BY <1>4, <1>6, <2>2
<1>12. ASSUME NEW e \in OwnOf(d.events, c) PROVE Placed(e, d, c)
  <2>1. e \in Done(c)
    <3>1. ToSet(open.events \o tasks) = ToSet(open.events) \cup ToSet(tasks)
      BY <1>3, <1>10, ConcatSet
    <3> QED
      BY <1>4, <1>6, <1>12, <3>1 DEF OwnOf, Done
  <2>2. e.block <= range.to \/ Passed(e, c)
    BY <1>9, <2>1 DEF OfMined, OfPending
  <2>3. CASE e.block <= range.to
    BY <1>7, <2>3 DEF Placed
  <2>4. CASE Passed(e, c)
    <3>1. last # None /\ e.block = range.to + 1 /\ Cur(c) # None
          /\ (\A p \in last : e.tx <= p) /\ \A u \in Cur(c) : e.tx <= u
      BY <2>4 DEF Passed
    <3>2. d.contractTx[c] = Cur(c)
      BY <1>6, <3>1 DEF Cur
    <3> QED
      BY <1>6, <1>7, <3>1, <3>2 DEF Placed
  <2> QED
    BY <2>2, <2>3, <2>4
<1>13. Settled(d, c, Latest)
  BY <1>7, <1>9, <1>11, <1>12 DEF Settled
<1>14. Latest' = Latest
  BY <1>2 DEF Latest
<1>15. OwnOf(tasks', c) = {}
  BY <1>2 DEF OwnOf, ToSet
<1>16. Settled(db, c, Latest)
  BY DEF OnceOf
<1> QED
  BY <1>2, <1>5, <1>13, <1>14, <1>15, <1>16 DEF OnceOf

\* What is written is committed.
LEMMA CommitOnce ==
    ASSUME IndexerInv, NEW c, OnceOf(c), Commit
    PROVE  OnceOf(c)'
<1>1. PICK d : d = [open EXCEPT !.balances = open.balances \o cache]
  OBVIOUS
<1>2. UNCHANGED <<chain, tasks>> /\ pc = "commit" /\ pc' = "loop" /\ db' = d /\ open' = d
  BY <1>1 DEF Commit, Execute, chainVars
<1>3. open \in Dbs
  BY DEF IndexerInv, StoreInv
<1>4. open = [head |-> open.head, pendingTx |-> open.pendingTx, contractTx |-> open.contractTx,
              events |-> open.events, balances |-> open.balances]
  BY <1>3, DbIs
<1>5. d.head = open.head /\ d.pendingTx = open.pendingTx /\ d.contractTx = open.contractTx /\ d.events = open.events
  BY <1>1, <1>4
<1>6. Settled(open, c, Latest) /\ OwnOf(tasks, c) = {}
  BY <1>2 DEF OnceOf
<1>7. Settled(d, c, Latest)
  BY <1>5, <1>6 DEF Settled, Placed
<1>8. Latest' = Latest
  BY <1>2 DEF Latest
<1> QED
  BY <1>2, <1>6, <1>7, <1>8 DEF OnceOf

\* An event of a transaction comes before those of the transactions after it.
LEMMA TurnOwn ==
    ASSUME NEW t, NEW u, <<t, u>> \in Turns, NEW e \in Events, NEW f \in Events, NEW c,
           e.block = t.block, e.tx = t.hash, f.block = u.block, f.tx = u.hash
    PROVE  <<e, f>> \in Own(c)
<1>1. t.block < u.block \/ (t.block = u.block /\ t.hash # u.hash)
  BY DEF Turns
<1>2. Before(e, f)
  BY <1>1 DEF Before
<1> QED
  BY <1>2 DEF Own

\* A transaction is processed: its events are written or left to the tasks.
LEMMA WrittenOnce ==
    ASSUME NEW t, NEW later \in Seq(Events), NEW o \in Seq(Events), NEW s \in Seq(Events), NEW c,
           s = t.events, NEW d, d.events = o, Coming(t, c, d, later),
           Ordered(o, Own(c)), Ordered(later, Own(c)), Precede(ToSet(o), ToSet(later), Own(c)),
           c \notin Parallel => OwnOf(later, c) = {}
    PROVE  /\ Ordered(o \o AtOnce(s), Own(c)) /\ Ordered(later \o Later(s), Own(c))
           /\ Precede(ToSet(o \o AtOnce(s)), ToSet(later \o Later(s)), Own(c))
           /\ c \notin Parallel => OwnOf(later \o Later(s), c) = {}
           /\ ToSet(o \o AtOnce(s)) \subseteq ToSet(o) \cup ToSet(s)
           /\ ToSet(later \o Later(s)) \subseteq ToSet(later) \cup ToSet(s)
<1>1. PICK a, b : a = AtOnce(s) /\ b = Later(s)
  OBVIOUS
<1>2. a \in Seq(Events) /\ b \in Seq(Events)
  BY <1>1, PartsType
<1>3. /\ c \notin Parallel => OwnOf(b, c) = {}
      /\ c \in Parallel => OwnOf(a, c) = {}
  BY <1>1, LaterOthers
<1>4. ToSet(b) \subseteq ToSet(s) /\ ToSet(a) \subseteq ToSet(s)
  BY <1>1, LaterOthers
<1>5. Ordered(s, Own(c)) /\ Precede(ToSet(o), ToSet(s), Own(c)) /\ Precede(ToSet(later), ToSet(s), Own(c))
  BY DEF Coming
<1>6. Ordered(a, Own(c)) /\ Ordered(b, Own(c))
  BY <1>1, <1>5, LaterOthers
<1>7. ToSet(o \o a) = ToSet(o) \cup ToSet(a) /\ ToSet(later \o b) = ToSet(later) \cup ToSet(b)
  BY <1>2, ConcatSet
<1>8. Precede(ToSet(o), ToSet(a), Own(c)) /\ Precede(ToSet(later), ToSet(b), Own(c)) /\ Precede(ToSet(o), ToSet(b), Own(c))
  BY <1>4, <1>5, PrecedeParts
<1>9. Ordered(o \o a, Own(c)) /\ Ordered(later \o b, Own(c))
  BY <1>2, <1>6, <1>8, OrderedConcat
<1>10. ASSUME NEW x \in ToSet(a), NEW y \in ToSet(later) \cup ToSet(b) PROVE <<x, y>> \in Own(c)
  <2>1. x \in Events /\ y \in Events
    BY <1>2, SeqToSet
  <2>2. ~(x.from = c /\ y.from = c)
    BY <1>3 DEF OwnOf
  <2> QED
    BY <2>1, <2>2, OthersOwn
<1>11. Precede(ToSet(o) \cup ToSet(a), ToSet(later) \cup ToSet(b), Own(c))
  <2> SUFFICES ASSUME NEW x \in ToSet(o) \cup ToSet(a), NEW y \in ToSet(later) \cup ToSet(b) PROVE <<x, y>> \in Own(c)
    BY DEF Precede
  <2>1. CASE x \in ToSet(a)
    BY <1>10, <2>1
  <2>2. CASE x \in ToSet(o)
    BY <1>8, <2>2 DEF Precede
  <2> QED
    BY <2>1, <2>2
<1>12. c \notin Parallel => OwnOf(later \o b, c) = {}
  BY <1>3, <1>7 DEF OwnOf
<1> QED
  BY <1>1, <1>4, <1>7, <1>9, <1>11, <1>12

\* A transaction is processed.
LEMMA TransactionOnce ==
    ASSUME IndexerInv, NEW c \in Contracts, OnceOf(c), ProcessTransaction
    PROVE  OnceOf(c)'
<1>1. PICK t, s, rest, R : t = Head(todo) /\ s = t.events /\ rest = Tail(todo) /\ R = Own(c)
  OBVIOUS
<1>2. /\ UNCHANGED <<chain, db, pc, range, last>> /\ pc = "process" /\ todo # <<>> /\ todo' = rest
      /\ tasks' = tasks \o Later(s) /\ open' = Write(open, AtOnce(s))
      /\ touched' = [k \in Emitters(t) \cup DOMAIN touched |-> IF k \in Emitters(t) THEN t.hash ELSE touched[k]]
  BY <1>1 DEF ProcessTransaction, ProcessEvents, chainVars, storeVars, Later, AtOnce
<1>3. open \in Dbs /\ tasks \in Seq(Events) /\ todo \in Seq(Todos) /\ EngineInv
  BY DEF IndexerInv, EngineInv, StoreInv
<1>4. open.events \in Seq(Events)
  BY <1>3, DbIs
<1>5. s \in Seq(Events) /\ rest \in Seq(Todos) /\ AtOnce(s) \in Seq(Events) /\ Later(s) \in Seq(Events) /\ t.hash \in 1..MaxTxs
  BY <1>1, <1>2, <1>3, HeadType
<1>6. open'.events = open.events \o AtOnce(s) /\ open'.contractTx = open.contractTx
  BY <1>2, <1>3, <1>5, WriteType, WriteKeeps
<1>7. t \in Todos /\ todo = <<t>> \o rest /\ ToSet(todo) = {t} \cup ToSet(rest)
  BY <1>1, <1>2, <1>3, TailSet
<1>8. Processing(c) /\ (c \notin Parallel => OwnOf(tasks, c) = {})
  BY <1>2 DEF OnceOf
<1>9. Coming(t, c, open, tasks) /\ \A u \in ToSet(rest) : Coming(u, c, open, tasks)
  BY <1>7, <1>8 DEF Processing
<1>10. Ordered(open.events, R) /\ Ordered(tasks, R) /\ Precede(ToSet(open.events), ToSet(tasks), R)
  BY <1>1, <1>8 DEF Processing
<1>11. PICK o, later : o = open.events \o AtOnce(s) /\ later = tasks \o Later(s)
  OBVIOUS
<1>12. /\ Ordered(o, R) /\ Ordered(later, R) /\ Precede(ToSet(o), ToSet(later), R)
       /\ c \notin Parallel => OwnOf(later, c) = {}
       /\ ToSet(o) \subseteq ToSet(open.events) \cup ToSet(s) /\ ToSet(later) \subseteq ToSet(tasks) \cup ToSet(s)
  BY <1>1, <1>3, <1>4, <1>5, <1>8, <1>9, <1>10, <1>11, WrittenOnce
<1>13. \A f \in ToSet(s) : f.block = t.block /\ f.tx = t.hash /\ f \in Events
  BY <1>1, <1>5, <1>9, SeqToSet DEF Coming
<1>14. Ordered(rest, Turns) /\ \A u \in ToSet(rest) : <<t, u>> \in Turns
  <2>1. Ordered(<<t>> \o rest, Turns)
    BY <1>7, <1>8 DEF Processing
  <2>2. <<t>> \in Seq(Todos) /\ ToSet(<<t>>) = {t}
    BY <1>7 DEF ToSet
  <2>3. Ordered(rest, Turns) /\ Precede(ToSet(<<t>>), ToSet(rest), Turns)
    BY <1>5, <2>1, <2>2, OrderedConcat
  <2> QED
    BY <2>2, <2>3 DEF Precede
<1>15. ASSUME NEW u \in ToSet(rest) PROVE Coming(u, c, open', later)
  <2>1. u \in Todos
    BY <1>5, SeqToSet
  <2>2. u.events \in Seq(Events)
    BY <2>1 DEF Todos
  <2>3. /\ Ordered(u.events, R) /\ Precede(ToSet(open.events), ToSet(u.events), R)
        /\ Precede(ToSet(tasks), ToSet(u.events), R)
        /\ \A f \in ToSet(u.events) : f.block = u.block /\ f.tx = u.hash
    BY <1>1, <1>9 DEF Coming
  <2>4. ASSUME NEW e \in ToSet(s), NEW f \in ToSet(u.events) PROVE <<e, f>> \in R
    <3>1. f \in Events
      BY <2>2, SeqToSet
    <3> QED
      BY <1>1, <1>13, <1>14, <2>3, <3>1, TurnOwn
  <2>5. Precede(ToSet(o), ToSet(u.events), R) /\ Precede(ToSet(later), ToSet(u.events), R)
    BY <1>12, <2>3, <2>4 DEF Precede
  <2> QED
    BY <1>1, <1>6, <1>11, <2>3, <2>5 DEF Coming
<1>16. \A e \in Done(c)' : e \in Done(c) \/ (e \in ToSet(s) /\ e.from = c)
  BY <1>2, <1>6, <1>11, <1>12 DEF Done, OwnOf
<1>17. ASSUME OfMined(c) PROVE OfMined(c)'
  <2>1. \A e \in Done(c)' : e.block <= range'.to
    BY <1>2, <1>7, <1>13, <1>16, <1>17 DEF OfMined
  <2>2. \A u \in ToSet(rest) : u.block <= range'.to
    BY <1>2, <1>7, <1>17 DEF OfMined
  <2> QED
    BY <1>2, <2>1, <2>2 DEF OfMined
<1>18. ASSUME OfPending(c) PROVE OfPending(c)'
  <2>1. t.block = range.to + 1 /\ last # None /\ (\A p \in last : t.hash <= p)
    BY <1>7, <1>18 DEF OfPending
  <2>2. Ordered(rest, Numbers) /\ \A u \in ToSet(rest) : t.hash < u.hash
    <3>1. Ordered(<<t>> \o rest, Numbers)
      BY <1>7, <1>18 DEF OfPending
    <3>2. <<t>> \in Seq(Todos) /\ ToSet(<<t>>) = {t}
      BY <1>7 DEF ToSet
    <3>3. Ordered(rest, Numbers) /\ Precede(ToSet(<<t>>), ToSet(rest), Numbers)
      BY <1>5, <3>1, <3>2, OrderedConcat
    <3> QED
      BY <3>2, <3>3 DEF Precede, Numbers
  <2>3. Cur(c)' = IF c \in Emitters(t) THEN {t.hash} ELSE Cur(c)
    BY <1>2, <1>6 DEF Cur
  <2>4. ASSUME NEW e \in Done(c)' PROVE e.block <= range'.to \/ Passed(e, c)'
    <3>1. CASE e \in Done(c) /\ e.block <= range.to
      BY <1>2, <3>1
    <3>2. CASE e \in Done(c) /\ Passed(e, c)
      <4>1. /\ e.block = range.to + 1 /\ last # None /\ Cur(c) # None
            /\ \A p \in last : e.tx <= p
            /\ \A u \in Cur(c) : e.tx <= u
            /\ \A u \in ToSet(todo) : e.tx < u.hash
        BY <3>2 DEF Passed
      <4>2. e.tx < t.hash /\ \A u \in ToSet(rest) : e.tx < u.hash
        BY <1>7, <4>1
      <4>3. e.tx <= t.hash
        <5>1. e \in Events
          BY <1>3, <1>4, <3>2, SeqToSet DEF Done, OwnOf
        <5>2. e.tx \in Int /\ t.hash \in Int
          BY <1>5, <5>1, IndexerAssumption DEF Events
        <5> QED
          BY <4>2, <5>2
      <4>4. Cur(c)' # None /\ \A u \in Cur(c)' : e.tx <= u
        BY <2>3, <4>1, <4>3 DEF None
      <4> QED
        BY <1>2, <4>1, <4>2, <4>4 DEF Passed
    <3>3. CASE e \in ToSet(s) /\ e.from = c
      <4>1. c \in Emitters(t)
        <5>1. PICK i \in DOMAIN s : e = s[i]
          BY <3>3 DEF ToSet
        <5> QED
          BY <1>1, <3>3, <5>1 DEF Emitters
      <4>2. Cur(c)' = {t.hash}
        BY <2>3, <4>1
      <4>3. e.block = range.to + 1 /\ e.tx = t.hash /\ t.hash <= t.hash
        BY <1>5, <1>13, <2>1, <3>3
      <4> QED
        BY <1>2, <2>1, <2>2, <4>2, <4>3 DEF Passed, None
    <3> QED
      BY <1>16, <1>18, <2>4, <3>1, <3>2, <3>3 DEF OfPending
  <2>5. \A u \in ToSet(rest) : u.block = range.to + 1 /\ last # None /\ \A p \in last : u.hash <= p
    BY <1>7, <1>18 DEF OfPending
  <2> QED
    BY <1>2, <2>2, <2>4, <2>5 DEF OfPending
<1>19. OfMined(c)' \/ OfPending(c)'
  BY <1>8, <1>17, <1>18 DEF Processing
<1>20. Latest' = Latest
  BY <1>2 DEF Latest
<1>21. range.to <= Latest
  BY <1>8 DEF Processing
<1>22. Processing(c)'
  BY <1>1, <1>2, <1>6, <1>11, <1>12, <1>14, <1>15, <1>19, <1>20, <1>21 DEF Processing
<1>23. Settled(db, c, Latest)
  BY DEF OnceOf
<1> QED
  BY <1>2, <1>11, <1>12, <1>20, <1>22, <1>23 DEF OnceOf

\* The transactions of the pending block that are left: in order, and after the cursor.
LeftOf(left, cursor) ==
    /\ left \in Seq(PendingTxs) /\ Ordered(left, Lesser)
    /\ \A tx \in ToSet(left) : cursor # None => \E p \in cursor : p < tx.hash

\* What is left of the pending block.
LEMMA AfterTxLeft ==
    ASSUME NEW block \in Seq(PendingTxs), Ordered(block, Lesser), NEW cursor
    PROVE  LeftOf(AfterTx(block, cursor), cursor)
<1>1. PICK at, n : at = {i \in DOMAIN block : block[i].hash \in cursor} /\ n = Value(at)
  OBVIOUS
<1>2. CASE cursor = None
  <2>1. AfterTx(block, cursor) = block
    BY <1>2 DEF AfterTx
  <2> QED
    BY <1>2, <2>1 DEF LeftOf
<1>3. CASE cursor # None /\ at = {}
  <2>1. AfterTx(block, cursor) = <<>>
    BY <1>1, <1>3 DEF AfterTx
  <2>2. ToSet(<<>>) = {} /\ Ordered(<<>>, Lesser)
    BY DEF ToSet, Ordered
  <2> QED
    BY <2>1, <2>2 DEF LeftOf
<1>4. CASE cursor # None /\ at # {}
  <2>1. n \in 1..Len(block) /\ block[n].hash \in cursor
    <3>1. n \in at
      BY <1>1, <1>4, ValueIn
    <3> QED
      BY <1>1, <3>1
  <2>2. n \in Nat
    BY <2>1
  <2>3. AfterTx(block, cursor) = Drop(block, n)
    BY <1>1, <1>4 DEF AfterTx, Drop
  <2>4. Ordered(Drop(block, n), Lesser) /\ Drop(block, n) \in Seq(PendingTxs)
    BY <2>2, OrderedDrop
  <2>5. ASSUME NEW tx \in ToSet(Drop(block, n)) PROVE \E p \in cursor : p < tx.hash
    <3>1. PICK i \in 1..Len(block) : n < i /\ tx = block[i]
      BY <2>2, DropOf
    <3>2. <<block[n], tx>> \in Lesser
      BY <2>1, <3>1 DEF Ordered
    <3>3. block[n].hash < tx.hash
      BY <3>2 DEF Lesser
    <3> QED
      BY <2>1, <3>3
  <2> QED
    BY <2>3, <2>4, <2>5 DEF LeftOf
<1> QED
  BY <1>2, <1>3, <1>4

\* The events of a transaction of the pending block are in order.
LEMMA AllEventsOwn ==
    ASSUME NEW tx \in PendingTxs, NEW block \in 0..(MaxBlocks + 1), NEW t, t = AllEvents(tx, block), NEW c
    PROVE  /\ t \in Todos /\ t.hash = tx.hash /\ t.block = block
           /\ Ordered(t.events, Own(c)) /\ \A f \in ToSet(t.events) : f.block = block /\ f.tx = tx.hash
<1>1. PICK ev, hash : ev = tx.events /\ hash = tx.hash
  OBVIOUS
<1>2. ev \in Seq(ToSet(ev))
  BY <1>1, ShapeIs DEF PendingTxs
<1>3. PICK all, S, w :
          /\ all = [i \in DOMAIN ev |-> [block |-> block, tx |-> hash, at |-> i, from |-> ev[i]]]
          /\ S = {e \in ToSet(all) : e.from \in Contracts}
          /\ w = Among(all, S)
  OBVIOUS
<1>4. t = [hash |-> hash, block |-> block, events |-> w]
  BY <1>1, <1>3 DEF AllEvents, Where
<1>5. t \in Todos /\ t.events = w /\ t.hash = hash /\ t.block = block
  <2>1. t \in Todos
    BY AllEventsType
  <2>2. t.events = w /\ t.hash = hash /\ t.block = block
    BY ONLY <1>4
  <2> QED
    BY <2>1, <2>2
<1>6. w \in Seq(Events)
  BY <1>5 DEF Todos
<1>7. Ordered(w, PresOf(ToSet(all))) /\ ToSet(w) \subseteq ToSet(all)
  <2>1. Listing(all, ev, block, hash)
    BY <1>3 DEF Listing
  <2> QED
    BY <1>2, <1>3, <2>1, ListedOrdered
<1>8. Ordered(w, Own(c))
  BY <1>6, <1>7, OrderedOwn
<1>9. \A f \in ToSet(all) : f.block = block /\ f.tx = hash
  BY <1>3 DEF ToSet
<1> QED
  BY <1>1, <1>5, <1>7, <1>8, <1>9

\* The pending block is to be processed, or another one was mined.
LEMMA PendingOnce ==
    ASSUME IndexerInv, HashInv, NEW c \in Contracts, OnceOf(c), FetchPending
    PROVE  OnceOf(c)'
<1>1. /\ UNCHANGED <<chain, pending, db, open, tasks, range>> /\ pc = "pending" /\ touched' = <<>>
  BY DEF FetchPending, chainVars, storeVars, writeVars
<1>2. Settled(db, c, Latest) /\ OwnOf(tasks, c) = {} /\ open = db /\ range.to = range.latest /\ range.to <= Latest
      /\ (db.head # None => Value(db.head) = range.to)
  BY <1>1 DEF OnceOf
<1>3. CASE config.node = "instant" \/ Latest # range.latest
  <2>1. pc' = "loop"
    BY <1>3 DEF FetchPending
  <2> QED
    BY <1>1, <1>2, <2>1, IdleOnce
<1>4. CASE ~(config.node = "instant" \/ Latest # range.latest)
  <2>1. PICK left, n, to : left = AfterTx(Receipts(pending), db.pendingTx) /\ n = Len(left) /\ to = range.to
    OBVIOUS
  <2>2. PICK ts, l : ts = todo' /\ l = last'
    OBVIOUS
  <2>3. /\ pc' = "process" /\ ts = [i \in DOMAIN left |-> AllEvents(left[i], to + 1)]
        /\ l = IF left = <<>> THEN db.pendingTx ELSE {left[n].hash}
    BY <1>2, <1>4, <2>1, <2>2 DEF FetchPending
  <2>4. range \in Ranges(config) /\ db \in Dbs /\ tasks \in Seq(Events) /\ ChainInv
    BY DEF IndexerInv, EngineInv, StoreInv, NodeInv
  <2>5. to \in 0..MaxBlocks /\ to \in Nat /\ to + 1 \in 0..(MaxBlocks + 1)
    <3>1. to \in 0..MaxBlocks
      BY <2>1, <2>4, RangeIs
    <3> QED
      BY <3>1, IndexerAssumption
  <2>6. db.events \in Seq(Events) /\ db.contractTx \in [Contracts -> SUBSET (1..MaxTxs)]
        /\ db.pendingTx \in SUBSET (1..MaxTxs)
    BY <2>4, DbIs
  <2>7. LeftOf(left, db.pendingTx)
    BY <2>1, <2>4, ReceiptsOrdered, AfterTxLeft
  <2>8. left \in Seq(PendingTxs) /\ Ordered(left, Lesser) /\ n \in Nat /\ DOMAIN left = 1..n
        /\ \A tx \in ToSet(left) : db.pendingTx # None => \E p \in db.pendingTx : p < tx.hash
    BY <2>1, <2>7 DEF LeftOf
  <2>9. ASSUME NEW i \in 1..n
        PROVE  /\ ts[i] \in Todos /\ ts[i].hash = left[i].hash /\ ts[i].block = to + 1 /\ left[i] \in ToSet(left)
               /\ Ordered(ts[i].events, Own(c))
               /\ \A f \in ToSet(ts[i].events) : f.block = ts[i].block /\ f.tx = ts[i].hash
    <3>1. PICK tx, t : tx = left[i] /\ t = ts[i]
      OBVIOUS
    <3>2. tx \in PendingTxs /\ t = AllEvents(tx, to + 1) /\ tx \in ToSet(left)
      BY <2>1, <2>3, <2>8, <3>1, InSet
    <3>3. /\ t \in Todos /\ t.hash = tx.hash /\ t.block = to + 1
          /\ Ordered(t.events, Own(c)) /\ \A f \in ToSet(t.events) : f.block = to + 1 /\ f.tx = tx.hash
      BY <2>5, <3>2, AllEventsOwn
    <3> QED
      BY <3>1, <3>2, <3>3
  <2>10. ts \in Seq(Todos) /\ Len(ts) = n
    <3>1. ts = [i \in 1..n |-> ts[i]]
      BY <2>3, <2>8
    <3> QED
      BY <2>8, <2>9, <3>1, IsASeq
  <2>11. ASSUME NEW t \in ToSet(ts) PROVE \E i \in 1..n : t = ts[i]
    BY <2>10, InSet
  <2>12. ASSUME NEW i \in 1..n, NEW j \in 1..n, i < j PROVE left[i].hash < left[j].hash
    <3>1. <<left[i], left[j]>> \in Lesser
      BY <2>1, <2>8, <2>12 DEF Ordered
    <3> QED
      BY <3>1 DEF Lesser
  <2>13. \A i \in 1..n : left[i].hash \in Int
    <3>1. \A i \in 1..n : left[i] \in PendingTxs
      BY <2>1, <2>8
    <3> QED
      BY <3>1, IndexerAssumption DEF PendingTxs
  <2>14. Ordered(ts, Numbers) /\ Ordered(ts, Turns)
    <3>1. ASSUME NEW i \in 1..n, NEW j \in 1..n, i < j PROVE <<ts[i], ts[j]>> \in Numbers \cap Turns
      <4>1. left[i].hash < left[j].hash /\ left[i].hash # left[j].hash
        BY <2>12, <2>13, <3>1
      <4>2. ts[i] \in Todos /\ ts[j] \in Todos /\ ts[i].block = ts[j].block /\ ts[i].hash < ts[j].hash /\ ts[i].hash # ts[j].hash
        BY <2>9, <4>1
      <4>3. <<ts[i], ts[j]>> \in Numbers
        BY <4>2 DEF Numbers
      <4>4. <<ts[i], ts[j]>> \in Turns
        BY <4>2 DEF Turns
      <4> QED
        BY <4>3, <4>4
    <3> QED
      BY <2>10, <3>1 DEF Ordered
  <2>15. ASSUME NEW i \in 1..n PROVE l # None /\ \A p \in l : left[i].hash <= p
    <3>1. n \in 1..n /\ left # <<>>
      BY <2>1, <2>8
    <3>2. l = {left[n].hash}
      BY <2>3, <3>1
    <3>3. left[i].hash <= left[n].hash
      <4>1. CASE i = n
        BY <2>13, <4>1
      <4>2. CASE i < n
        <5>1. left[i].hash < left[n].hash
          BY <2>12, <3>1, <4>2
        <5> QED
          BY <2>13, <3>1, <5>1
      <4> QED
        BY <2>8, <4>1, <4>2
    <3> QED
      BY <3>2, <3>3 DEF None
  <2>16. ASSUME NEW e \in OwnOf(db.events, c)
         PROVE  /\ e \in Events /\ e.from = c /\ e.tx \in Int /\ e.block \in Int
                /\ \/ e.block <= to
                   \/ /\ e.block = to + 1 /\ db.contractTx[c] # None /\ db.pendingTx # None
                      /\ \A u \in db.contractTx[c] : e.tx <= u
                      /\ \A p \in db.pendingTx : e.tx <= p
    <3>1. e \in ToSet(db.events) /\ e.from = c
      BY DEF OwnOf
    <3>2. e \in Events
      BY <2>6, <3>1, SeqToSet
    <3>3. e.tx \in Int /\ e.block \in Int
      BY <3>2, IndexerAssumption DEF Events
    <3>4. Placed(e, db, c)
      BY <1>2 DEF Settled
    <3>5. \/ e.block <= to
          \/ /\ e.block = to + 1 /\ db.contractTx[c] # None /\ db.pendingTx # None
             /\ \A u \in db.contractTx[c] : e.tx <= u
             /\ \A p \in db.pendingTx : e.tx <= p
      BY <1>2, <2>1, <3>4 DEF Placed
    <3> QED
      BY <3>1, <3>2, <3>3, <3>5
  <2>17. ASSUME NEW e \in OwnOf(db.events, c), ~(e.block <= to), NEW i \in 1..n PROVE e.tx < left[i].hash
    <3>1. PICK p \in db.pendingTx : p < left[i].hash
      BY <2>8, <2>9, <2>16, <2>17
    <3>2. e.tx <= p /\ p \in Int /\ e.tx \in Int
      BY <2>6, <2>16, <2>17, IndexerAssumption
    <3> QED
      BY <2>13, <3>1, <3>2
  <2>18. ASSUME NEW e \in OwnOf(db.events, c), ~(e.block <= to) PROVE Passed(e, c)'
    <3>1. e.block = to + 1 /\ db.contractTx[c] # None /\ db.pendingTx # None
          /\ (\A u \in db.contractTx[c] : e.tx <= u) /\ \A p \in db.pendingTx : e.tx <= p
      BY <2>16, <2>18
    <3>2. Cur(c)' = db.contractTx[c]
      <4>1. c \notin DOMAIN touched'
        BY <1>1
      <4> QED
        BY <1>1, <1>2, <4>1 DEF Cur
    <3>3. l # None /\ \A p \in l : e.tx <= p
      <4>1. CASE left = <<>>
        BY <2>3, <3>1, <4>1
      <4>2. CASE left # <<>>
        <5>1. n \in 1..n
          BY <2>1, <2>8, <4>2
        <5>2. e.tx < left[n].hash
          BY <2>17, <2>18, <5>1
        <5>3. e.tx <= left[n].hash
          BY <2>13, <2>16, <5>1, <5>2
        <5> QED
          BY <2>3, <4>2, <5>3 DEF None
      <4> QED
        BY <4>1, <4>2
    <3>4. \A t \in ToSet(ts) : e.tx < t.hash
      BY <2>9, <2>11, <2>17, <2>18
    <3> QED
      BY <1>1, <2>1, <2>2, <3>1, <3>2, <3>3, <3>4 DEF Passed
  <2>19. ASSUME NEW i \in 1..n PROVE Precede(ToSet(db.events), ToSet(ts[i].events), Own(c))
    <3>1. PICK t : t = ts[i]
      OBVIOUS
    <3>2. t \in Todos /\ t.block = to + 1 /\ t.hash = left[i].hash
          /\ \A f \in ToSet(t.events) : f.block = t.block /\ f.tx = t.hash
      BY <2>9, <3>1
    <3>3. t.events \in Seq(Events)
      BY <3>2 DEF Todos
    <3> SUFFICES ASSUME NEW e \in ToSet(db.events), NEW f \in ToSet(t.events) PROVE <<e, f>> \in Own(c)
      BY <3>1 DEF Precede
    <3>4. e \in Events /\ f \in Events
      BY <2>6, <3>3, SeqToSet
    <3>5. f.block = to + 1 /\ f.tx = left[i].hash
      BY <3>2
    <3>6. CASE e.from # c
      BY <3>4, <3>6, OthersOwn
    <3>7. CASE e.from = c /\ e.block <= to
      <4>1. e.block \in Int
        BY <3>4, IndexerAssumption DEF Events
      <4>2. e.block < f.block
        BY <2>5, <3>5, <3>7, <4>1
      <4> QED
        BY <3>4, <4>2 DEF Own, Before
    <3>8. CASE e.from = c /\ ~(e.block <= to)
      <4>1. e \in OwnOf(db.events, c)
        BY <3>8 DEF OwnOf
      <4>2. e.tx < f.tx /\ e.block = f.block
        BY <2>16, <2>17, <3>5, <3>8, <4>1
      <4>3. e.block \in Int
        BY <3>4, IndexerAssumption DEF Events
      <4>4. Pre(e, f)
        BY <4>2, <4>3 DEF Pre
      <4> QED
        BY <3>4, <4>4, PreBefore
    <3> QED
      BY <3>6, <3>7, <3>8
  <2>20. \A e \in ToSet(tasks) : e \in Events /\ e.from # c
    BY <1>2, <2>4, SeqToSet DEF OwnOf
  <2>21. ASSUME NEW t \in ToSet(ts) PROVE Coming(t, c, db, tasks)
    <3>1. PICK i \in 1..n : t = ts[i]
      BY <2>11
    <3>2. t \in Todos /\ Ordered(t.events, Own(c)) /\ \A f \in ToSet(t.events) : f.block = t.block /\ f.tx = t.hash
      BY <2>9, <3>1
    <3>3. Precede(ToSet(db.events), ToSet(t.events), Own(c))
      BY <2>19, <3>1
    <3>4. Precede(ToSet(tasks), ToSet(t.events), Own(c))
      <4> SUFFICES ASSUME NEW x \in ToSet(tasks), NEW y \in ToSet(t.events) PROVE <<x, y>> \in Own(c)
        BY DEF Precede
      <4>1. t.events \in Seq(Events)
        BY <3>2 DEF Todos
      <4>2. y \in Events
        BY <4>1, SeqToSet
      <4> QED
        BY <2>20, <4>2, OthersOwn
    <3> QED
      BY <3>2, <3>3, <3>4 DEF Coming
  <2>22. Ordered(tasks, Own(c))
    BY <1>2, <2>4, OrderedOthers
  <2>23. Precede(ToSet(db.events), ToSet(tasks), Own(c))
    <3> SUFFICES ASSUME NEW x \in ToSet(db.events), NEW y \in ToSet(tasks) PROVE <<x, y>> \in Own(c)
      BY DEF Precede
    <3>1. x \in Events
      BY <2>6, SeqToSet
    <3> QED
      BY <2>20, <3>1, OthersOwn
  <2>24. \A e \in Done(c)' : e \in OwnOf(db.events, c)
    BY <1>1, <1>2 DEF Done
  <2>25. OfPending(c)'
    <3>1. \A e \in Done(c)' : e.block <= range'.to \/ Passed(e, c)'
      BY <1>1, <2>1, <2>18, <2>24
    <3>2. \A t \in ToSet(ts) : t.block = to + 1 /\ l # None /\ \A p \in l : t.hash <= p
      BY <2>9, <2>11, <2>15
    <3> QED
      BY <1>1, <2>1, <2>2, <2>14, <3>1, <3>2 DEF OfPending
  <2>26. Latest' = Latest
    BY <1>1 DEF Latest
  <2>27. Ordered(db.events, Own(c))
    BY <1>2 DEF Settled
  <2>28. Processing(c)'
    BY <1>1, <1>2, <2>2, <2>14, <2>21, <2>22, <2>23, <2>25, <2>26, <2>27 DEF Processing
  <2> QED
    BY <1>1, <1>2, <2>3, <2>26, <2>28 DEF OnceOf
<1> QED
  BY <1>3, <1>4

\* The events of a page are those that remain, and come before the ones that remain after it.
LEMMA PageRemains ==
    ASSUME ChainInv, HashInv, config \in Configs, range.from \in Nat, NEW c \in Contracts,
           NEW token \in SUBSET TokensOf(config), NEW page, Splits(page, c, token),
           page.buffer \in Seq(PageEvents), page.cursor \in SUBSET TokensOf(config)
    PROVE  /\ Ordered(page.buffer, Pres) /\ ToSet(page.buffer) \subseteq ToSet(Remaining(c, token))
           /\ page.cursor # None =>
                 /\ ToSet(Remaining(c, page.cursor)) \subseteq ToSet(Remaining(c, token))
                 /\ Precede(ToSet(page.buffer), ToSet(Remaining(c, page.cursor)), Pres)
<1>1. PICK b, k, all, rest : b = page.buffer /\ k = page.cursor /\ all = Remaining(c, token) /\ rest = Remaining(c, k)
  OBVIOUS
<1>2. all \in Seq(PageEvents) /\ Ordered(all, Pres) /\ rest \in Seq(PageEvents) /\ b \in Seq(PageEvents)
  BY <1>1, RemainingIs
<1>3. CASE k = None
  <2>1. b = all
    BY <1>1, <1>3 DEF Splits
  <2> QED
    BY <1>1, <1>2, <1>3, <2>1
<1>4. CASE k # None
  <2>1. b \o rest = all
    BY <1>1, <1>4 DEF Splits
  <2>2. Ordered(b, Pres) /\ Precede(ToSet(b), ToSet(rest), Pres)
    BY <1>2, <2>1, OrderedConcat
  <2>3. ToSet(all) = ToSet(b) \cup ToSet(rest)
    BY <1>2, <2>1, ConcatSet
  <2> QED
    BY <1>1, <2>2, <2>3
<1> QED
  BY <1>3, <1>4

\* What an answer does to the requests: that of another contract.
LEMMA AwaitsOthers ==
    ASSUME NEW r, NEW c, NEW d, NEW evs \in Seq(Events), NEW kept \in Seq(Events), Awaits(r, c, d, evs),
           r.contract = c => OwnOf(kept, c) = {}
    PROVE  Awaits(r, c, d, evs \o kept)
<1>1. ToSet(evs \o kept) = ToSet(evs) \cup ToSet(kept)
  BY ConcatSet
<1>2. r.contract = c => OwnOf(evs \o kept, c) = OwnOf(evs, c)
  BY <1>1 DEF OwnOf
<1> QED
  BY <1>2 DEF Awaits, Follows

\* A page is fetched.
LEMMA PageOnce ==
    ASSUME IndexerInv, HashInv, NEW c \in Contracts, OnceOf(c), FetchPage
    PROVE  OnceOf(c)'
<1>1. UNCHANGED <<chain, config, db, open, tasks>> /\ pc = "pages"
  BY DEF FetchPage, chainVars, storeVars, writeVars
<1>2. PICK k, t, page, kept, next : Fetched(k, t, page, kept, next) /\ FetchedTypes(k, t, page, kept, next)
  BY FetchPageIs
<1>3. PICK T, hd, tl, nx, evs, buffer, cursor, to :
          /\ T = Requests(config) /\ hd = Head(range.requests) /\ tl = Tail(range.requests) /\ nx = range.next
          /\ evs = range.events /\ buffer = page.buffer /\ cursor = page.cursor /\ to = range.to
  OBVIOUS
<1>4. range \in Ranges(config) /\ db \in Dbs /\ ChainInv /\ config \in Configs /\ range.requests # <<>>
  BY <1>1 DEF IndexerInv, EngineInv, StoreInv, NodeInv
<1>5. /\ range.requests \in Seq(T) /\ nx \in Seq(T) /\ evs \in Seq(Events) /\ range.from \in Nat
      /\ db.events \in Seq(Events)
  BY <1>3, <1>4, RangeIs, DbIs
<1>6. /\ k \in Contracts /\ t \in SUBSET TokensOf(config) /\ hd \in T /\ tl \in Seq(T)
      /\ buffer \in Seq(PageEvents) /\ buffer \in Seq(Events) /\ cursor \in SUBSET TokensOf(config)
      /\ kept \in Seq(Events) /\ next \in Seq(T)
  BY <1>2, <1>3 DEF FetchedTypes
<1>7. PICK new, add : /\ new = [contract |-> k, token |-> cursor]
                      /\ add = IF Continues(page) THEN <<new>> ELSE <<>>
  OBVIOUS
<1>8. /\ hd.contract = k /\ hd.token = t /\ page = EventsPage(range.from, k, t)
      /\ kept = Kept(buffer, db.contractTx[k]) /\ next = nx \o add
  BY <1>2, <1>3, <1>7 DEF Fetched
<1>9. PICK reqs2, nx2, evs2 : reqs2 = (IF tl = <<>> THEN next ELSE tl) /\ nx2 = (IF tl = <<>> THEN <<>> ELSE next)
                              /\ evs2 = evs \o kept
  OBVIOUS
<1>10. range' = [latest |-> range.latest, from |-> range.from, to |-> to, requests |-> reqs2, next |-> nx2, events |-> evs2]
       /\ pc' \in {"blocks", "pages"}
  BY <1>2, <1>3, <1>9 DEF Fetched
<1>11. range'.from = range.from /\ range'.to = to /\ range'.requests = reqs2 /\ range'.next = nx2 /\ range'.events = evs2
  BY ONLY <1>10
<1>12. \A i \in DOMAIN buffer : buffer[i].block # NoBlock
  <2>1. Page = page
    BY <1>3, <1>8 DEF Page
  <2>2. \A i \in DOMAIN Page.buffer : Page.buffer[i].block # NoBlock
    BY DEF FetchPage
  <2> QED
    BY <1>3, <2>1, <2>2
<1>13. Splits(page, k, t)
  BY <1>3, <1>4, <1>5, <1>6, <1>8, <1>12, PageSplits
<1>14. /\ Ordered(buffer, Pres) /\ ToSet(buffer) \subseteq ToSet(Remaining(k, t))
       /\ cursor # None => /\ ToSet(Remaining(k, cursor)) \subseteq ToSet(Remaining(k, t))
                           /\ Precede(ToSet(buffer), ToSet(Remaining(k, cursor)), Pres)
  BY <1>3, <1>4, <1>5, <1>6, <1>13, PageRemains
<1>15. \A f \in ToSet(Remaining(k, t)) : f.from = k /\ f.block \in Nat \ {0} /\ f \in PageEvents
  BY <1>4, <1>5, <1>6, RemainingIs, SeqToSet
<1>16. Selects(kept, buffer, to, db.contractTx[k])
  BY <1>3, <1>6, <1>8, <1>14, KeptAfter
<1>17. /\ Ordered(kept, Pres) /\ ToSet(kept) \subseteq ToSet(buffer)
       /\ \A f \in ToSet(kept) : f.block <= to /\ (db.contractTx[k] # None => \E u \in db.contractTx[k] : u < f.tx)
  BY <1>16 DEF Selects
<1>18. Settled(db, c, Latest) /\ OwnOf(tasks, c) = {} /\ open = db /\ Begun(range, db, c, Latest) /\ Asking(c)
  BY <1>1 DEF OnceOf
<1>19. /\ range.from <= to /\ to <= Latest /\ (db.head # None => Value(db.head) < to)
       /\ Ordered(evs, Own(c)) /\ Precede(ToSet(db.events), ToSet(evs), Own(c))
       /\ \A f \in OwnOf(evs, c) : f.block <= to
  BY <1>3, <1>18 DEF Begun
<1>20. /\ range.requests = <<hd>> \o tl /\ ToSet(range.requests) = {hd} \cup ToSet(tl)
  BY <1>3, <1>4, <1>5, TailSet
<1>21. Ordered(range.requests \o nx, Apart(T)) /\ \A r \in ToSet(range.requests) \cup ToSet(nx) : Awaits(r, c, db, evs)
  BY <1>3, <1>18 DEF Asking
<1>22. /\ Ordered(tl, Apart(T)) /\ Ordered(nx, Apart(T)) /\ Precede(ToSet(tl), ToSet(nx), Apart(T))
       /\ \A r \in ToSet(tl) \cup ToSet(nx) : r \in T /\ <<hd, r>> \in Apart(T)
  <2>1. PICK reqs : reqs = range.requests
    OBVIOUS
  <2>2. Ordered(reqs, Apart(T)) /\ Ordered(nx, Apart(T)) /\ Precede(ToSet(reqs), ToSet(nx), Apart(T))
    BY <1>5, <1>21, <2>1, OrderedConcat
  <2>3. <<hd>> \in Seq(T) /\ ToSet(<<hd>>) = {hd}
    BY <1>6 DEF ToSet
  <2>4. Ordered(<<hd>> \o tl, Apart(T))
    BY <1>20, <2>1, <2>2
  <2>5. Ordered(tl, Apart(T)) /\ Precede(ToSet(<<hd>>), ToSet(tl), Apart(T))
    BY <1>6, <2>3, <2>4, OrderedConcat
  <2>6. \A r \in ToSet(tl) \cup ToSet(nx) : r \in T
    BY <1>5, <1>6, SeqToSet
  <2>7. \A r \in ToSet(tl) \cup ToSet(nx) : <<hd, r>> \in Apart(T)
    BY <1>20, <2>1, <2>2, <2>3, <2>5 DEF Precede
  <2>8. Precede(ToSet(tl), ToSet(nx), Apart(T))
    BY <1>20, <2>1, <2>2 DEF Precede
  <2> QED
    BY <2>2, <2>5, <2>6, <2>7, <2>8
<1>23. \A r \in ToSet(tl) \cup ToSet(nx) : r.contract # k
  BY <1>8, <1>22 DEF Apart
<1>24. add \in Seq(T) /\ Ordered(add, Apart(T)) /\ ToSet(add) \subseteq {new} /\ (add # <<>> => cursor # None) /\ new \in T
  <2>1. new \in T
    BY <1>3, <1>6, <1>7 DEF Requests
  <2>2. ToSet(<<>>) = {} /\ ToSet(<<new>>) = {new}
    BY DEF ToSet
  <2>3. Ordered(<<>>, Apart(T)) /\ Ordered(<<new>>, Apart(T))
    BY DEF Ordered
  <2>4. Continues(page) => cursor # None
    BY <1>3 DEF Continues
  <2> QED
    BY <1>7, <2>1, <2>2, <2>3, <2>4
<1>25. /\ Ordered(reqs2 \o nx2, Apart(T))
       /\ ToSet(reqs2) \cup ToSet(nx2) \subseteq ToSet(tl) \cup ToSet(nx) \cup ToSet(add)
  <2>1. ToSet(next) = ToSet(nx) \cup ToSet(add)
    BY <1>5, <1>8, <1>24, ConcatSet
  <2>2. \A r \in ToSet(tl) \cup ToSet(nx), q \in ToSet(add) : <<r, q>> \in Apart(T)
    <3> SUFFICES ASSUME NEW r \in ToSet(tl) \cup ToSet(nx) PROVE <<r, new>> \in Apart(T)
      BY <1>24
    <3>1. r \in T /\ new \in T /\ r.contract # new.contract
      BY <1>7, <1>22, <1>23, <1>24
    <3> QED
      BY <3>1 DEF Apart
  <2>3. Ordered(nx \o add, Apart(T))
    <3>1. Precede(ToSet(nx), ToSet(add), Apart(T))
      BY <2>2 DEF Precede
    <3> QED
      BY <1>5, <1>22, <1>24, <3>1, OrderedConcat
  <2>4. Ordered(tl \o next, Apart(T))
    <3>1. Precede(ToSet(tl), ToSet(next), Apart(T))
      BY <1>22, <2>1, <2>2 DEF Precede
    <3> QED
      BY <1>6, <1>8, <1>22, <2>3, <3>1, OrderedConcat
  <2>5. reqs2 \o nx2 = IF tl = <<>> THEN next ELSE tl \o next
    BY <1>6, <1>9
  <2>6. ToSet(<<>>) = {}
    BY DEF ToSet
  <2> QED
    BY <1>8, <1>9, <2>1, <2>3, <2>4, <2>5, <2>6
<1>26. ASSUME NEW f \in ToSet(kept) PROVE f \in Events /\ f \in ToSet(buffer) /\ f \in ToSet(Remaining(k, t)) /\ f.from = k
  BY <1>6, <1>14, <1>15, <1>17, SeqToSet
<1>27. /\ Ordered(kept, Own(c)) /\ Precede(ToSet(evs), ToSet(kept), Own(c))
       /\ Precede(ToSet(db.events), ToSet(kept), Own(c))
       /\ \A f \in OwnOf(kept, c) : f.block <= to
  <2>1. Ordered(kept, Own(c))
    BY <1>6, <1>17, OrderedOwn DEF Pres
  <2>2. \A f \in OwnOf(kept, c) : f.block <= to
    BY <1>17 DEF OwnOf
  <2>3. CASE k # c
    <3>1. ASSUME NEW e \in ToSet(evs) \cup ToSet(db.events), NEW f \in ToSet(kept) PROVE <<e, f>> \in Own(c)
      <4>1. e \in Events
        BY <1>5, SeqToSet
      <4> QED
        BY <1>26, <2>3, <4>1, OthersOwn
    <3> QED
      BY <2>1, <2>2, <3>1 DEF Precede
  <2>4. CASE k = c
    <3>1. ASSUME NEW f \in ToSet(kept) PROVE Follows(f, db, c, evs)
      <4>1. Awaits(hd, c, db, evs)
        BY <1>20, <1>21
      <4> QED
        BY <1>8, <1>26, <2>4, <4>1 DEF Awaits
    <3>2. ASSUME NEW e \in ToSet(evs), NEW f \in ToSet(kept) PROVE <<e, f>> \in Own(c)
      <4>1. e \in Events /\ f \in Events
        BY <1>5, <1>26, SeqToSet
      <4>2. CASE e.from = c
        <5>1. e \in OwnOf(evs, c)
          BY <4>2 DEF OwnOf
        <5>2. Before(e, f)
          BY <3>1, <5>1 DEF Follows
        <5> QED
          BY <4>1, <5>2 DEF Own
      <4>3. CASE e.from # c
        BY <4>1, <4>3, OthersOwn
      <4> QED
        BY <4>2, <4>3
    <3>3. ASSUME NEW e \in ToSet(db.events), NEW f \in ToSet(kept) PROVE <<e, f>> \in Own(c)
      <4>1. db.head # None => Value(db.head) < f.block
        BY <3>1 DEF Follows
      <4>2. db.contractTx[c] # None => \E u \in db.contractTx[c] : u < f.tx
        BY <1>17, <2>4
      <4> QED
        BY <1>4, <1>18, <1>26, <4>1, <4>2, PlacedBefore
    <3> QED
      BY <2>1, <2>2, <3>2, <3>3 DEF Precede
  <2> QED
    BY <2>3, <2>4
<1>28. ToSet(evs2) = ToSet(evs) \cup ToSet(kept) /\ evs2 \in Seq(Events)
  BY <1>5, <1>6, <1>9, ConcatSet
<1>29. Begun(range', db, c, Latest)
  <2>1. Ordered(evs2, Own(c))
    BY <1>5, <1>6, <1>9, <1>19, <1>27, OrderedConcat
  <2>2. Precede(ToSet(db.events), ToSet(evs2), Own(c))
    BY <1>19, <1>27, <1>28 DEF Precede
  <2>3. \A f \in OwnOf(evs2, c) : f.block <= to
    BY <1>19, <1>27, <1>28 DEF OwnOf
  <2> QED
    BY <1>11, <1>19, <2>1, <2>2, <2>3 DEF Begun
<1>30. ASSUME NEW r \in ToSet(tl) \cup ToSet(nx) PROVE Awaits(r, c, db, evs2)
  <2>1. Awaits(r, c, db, evs)
    BY <1>20, <1>21
  <2>2. r.contract = c => OwnOf(kept, c) = {}
    BY <1>23, <1>26 DEF OwnOf
  <2> QED
    BY <1>5, <1>6, <1>9, <2>1, <2>2, AwaitsOthers
<1>31. ASSUME cursor # None PROVE Awaits(new, c, db, evs2)
  <2>1. new.contract = k /\ new.token = cursor
    BY <1>7
  <2> SUFFICES ASSUME k = c, NEW f \in ToSet(Remaining(c, cursor)) PROVE Follows(f, db, c, evs2)
    BY <2>1 DEF Awaits
  <2>2. f \in ToSet(Remaining(k, t))
    BY <1>14, <1>31
  <2>3. Follows(f, db, c, evs)
    <3>1. Awaits(hd, c, db, evs)
      BY <1>20, <1>21
    <3> QED
      BY <1>8, <2>2, <3>1 DEF Awaits
  <2>4. f \in Events /\ f.from = c
    <3>1. f \in PageEvents /\ f.from = k /\ f.block \in Nat \ {0}
      BY <1>15, <2>2
    <3> QED
      BY <3>1, IndexerAssumption DEF PageEvents, Events
  <2>5. ASSUME NEW e \in OwnOf(evs2, c) PROVE Before(e, f)
    <3>1. CASE e \in ToSet(evs)
      BY <2>3, <2>5, <3>1 DEF Follows, OwnOf
    <3>2. CASE e \in ToSet(kept)
      <4>1. e \in Events /\ e.from = c /\ e \in ToSet(buffer)
        BY <1>26, <3>2
      <4>2. <<e, f>> \in Pres
        BY <1>14, <1>31, <4>1 DEF Precede
      <4>3. Pre(e, f)
        BY <4>2 DEF Pres, PresOf
      <4>4. <<e, f>> \in Own(c)
        BY <2>4, <4>1, <4>3, PreBefore
      <4> QED
        BY <2>4, <4>1, <4>4 DEF Own
    <3> QED
      BY <1>28, <2>5, <3>1, <3>2 DEF OwnOf
  <2> QED
    BY <2>3, <2>5 DEF Follows
<1>32. ASSUME NEW r \in ToSet(reqs2) \cup ToSet(nx2) PROVE Awaits(r, c, db, evs2)
  <2>1. r \in ToSet(tl) \cup ToSet(nx) \/ (r \in ToSet(add) /\ r = new)
    BY <1>24, <1>25
  <2>2. r \in ToSet(add) => add # <<>>
    BY DEF ToSet
  <2> QED
    BY <1>24, <1>30, <1>31, <2>1, <2>2
<1>33. ASSUME NEW r, Awaits(r, c, db, evs2) PROVE Awaits(r, c, db, range.events)'
  <2>1. PICK u : u = r.token
    OBVIOUS
  <2>2. (Remaining(c, u))' = Remaining(c, u)
    BY <1>1, <1>11, RemainingSame
  <2> QED
    BY <1>1, <1>11, <1>33, <2>1, <2>2 DEF Awaits
<1>34. Asking(c)'
  BY <1>1, <1>3, <1>11, <1>25, <1>32, <1>33 DEF Asking
<1>35. Latest' = Latest
  BY <1>1 DEF Latest
<1> QED
  BY <1>1, <1>10, <1>18, <1>29, <1>34, <1>35 DEF OnceOf

\* It holds at first ...
LEMMA InitOnce == Init => NumberInv /\ OnceInv
<1> SUFFICES ASSUME Init PROVE NumberInv /\ OnceInv
  OBVIOUS
<1>1. /\ chain = <<<<>>>> /\ pending = <<>> /\ db = NoDb /\ open = NoDb /\ tasks = <<>> /\ pc = "loop"
  BY DEF Init
<1>2. DOMAIN chain = {1} /\ chain[1] = <<>> /\ DOMAIN chain[1] = {} /\ DOMAIN pending = {}
  BY <1>1
<1>3. NumberInv
  BY <1>1, <1>2 DEF NumberInv, HashInv
<1>4. ToSet(<<>>) = {} /\ \A c : Ordered(<<>>, Own(c))
  BY DEF ToSet, Ordered
<1>5. db.events = <<>> /\ db.head = None
  BY <1>1 DEF NoDb
<1>6. ASSUME NEW c \in Contracts PROVE OnceOf(c)
  <2>1. Settled(db, c, Latest)
    BY <1>4, <1>5 DEF Settled, OwnOf
  <2>2. OwnOf(tasks, c) = {}
    BY <1>1, <1>4 DEF OwnOf
  <2> QED
    BY <1>1, <2>1, <2>2 DEF OnceOf
<1> QED
  BY <1>3, <1>6 DEF OnceInv

\* ... and every step preserves it.
LEMMA NextOnce ==
    ASSUME IndexerInv, IndexerInv', OrderInv, NumberInv, OnceInv, [Next]_vars
    PROVE  NumberInv' /\ OnceInv'
<1>1. NumberInv'
  <2>1. CASE ExecuteTx \/ MineBlock
    BY <2>1, NextNumbered DEF IndexerInv
  <2>2. CASE ~(ExecuteTx \/ MineBlock)
    <3>1. UNCHANGED <<chain, pending, config, txs>>
      BY <2>2 DEF Next, Engine, vars, FetchRange, FetchLatest, FetchPending, FetchPage, FetchBlocks, FetchFails,
                  Restart, ProcessTransaction, ProcessFails, ProcessTasks, Commit, RelayMessage, Crash, Panics,
                  Lost, chainVars, countVars
    <3> QED
      BY <3>1 DEF NumberInv, HashInv
  <2> QED
    BY <2>1, <2>2
<1>2. HashInv
  BY DEF NumberInv
<1>3. config' = config
  BY DEF Next, Engine, vars, ExecuteTx, MineBlock, FetchRange, FetchLatest, FetchPending, FetchPage,
         FetchBlocks, FetchFails, Restart, ProcessTransaction, ProcessFails, ProcessTasks, Commit,
         RelayMessage, Crash, Panics, Lost
<1>4. RelayMessage => messages' # 0
  BY DEF RelayMessage, IndexerInv, NodeInv
<1>5. ~RelayMessage => messages' = messages
  BY DEF Next, Engine, vars, ExecuteTx, MineBlock, FetchRange, FetchLatest, FetchPending, FetchPage,
         FetchBlocks, FetchFails, Restart, ProcessTransaction, ProcessFails, ProcessTasks, Commit,
         Crash, Panics, Lost, countVars
<1>6. ASSUME ~RelayMessage, NEW c \in Contracts, Safe(c), OnceOf(c) PROVE OnceOf(c)'
  <2>1. CASE ExecuteTx \/ MineBlock
    BY <1>1, <1>6, <2>1, NodeOnce
  <2>2. CASE FetchRange
    BY <1>2, <1>6, <2>2, RangeOnce
  <2>3. CASE FetchLatest
    BY <1>6, <2>3, LatestOnce
  <2>4. CASE FetchPending
    BY <1>2, <1>6, <2>4, PendingOnce
  <2>5. CASE FetchPage
    BY <1>2, <1>6, <2>5, PageOnce
  <2>6. CASE FetchBlocks
    BY <1>6, <2>6, BlocksOnce
  <2>7. CASE ProcessTransaction
    BY <1>6, <2>7, TransactionOnce
  <2>8. CASE ProcessTasks
    BY <1>6, <2>8, TasksOnce
  <2>9. CASE Commit
    BY <1>6, <2>9, CommitOnce
  <2>10. CASE Crash \/ Panics
    BY <1>6, <2>10, LostOnce
  <2>11. CASE FetchFails \/ Restart
    BY <1>6, <2>11, FailOnce
  <2>12. CASE ProcessFails
    BY <1>6, <2>12, ProcessFailsOnce
  <2>13. CASE UNCHANGED vars
    <3>1. UNCHANGED <<chain, config, db, open, tasks, pc, range, todo, last, touched>>
      BY <2>13 DEF vars, chainVars, storeVars, writeVars, engineVars
    <3> QED
      BY <1>6, <3>1, OnceSame
  <2> QED
    BY <1>6, <2>1, <2>2, <2>3, <2>4, <2>5, <2>6, <2>7, <2>8, <2>9, <2>10, <2>11, <2>12, <2>13 DEF Next, Engine
<1>7. ASSUME messages' = 0, NEW c \in Contracts, Safe(c)' PROVE OnceOf(c)'
  <2>1. ~RelayMessage /\ messages = 0
    BY <1>4, <1>5, <1>7
  <2>2. Safe(c)
    BY <1>3, <1>7 DEF Safe
  <2>3. OnceOf(c)
    BY <2>1, <2>2 DEF OnceInv
  <2> QED
    BY <1>6, <2>1, <2>2, <2>3
<1> QED
  BY <1>1, <1>7 DEF OnceInv

\* AppliedOnce: while the relay has committed no message, the events of a contract are in the
\* database once and in the order of the chain, whatever was indexed from the pending block before
\* it was mined, however often a request or a transaction fails, or torii ends and starts again.
THEOREM AppliedInOrder == Spec => []AppliedOnce
<1>1. IndexerInv /\ OnceInv => AppliedOnce
  <2> SUFFICES ASSUME IndexerInv, OnceInv, messages = 0, NEW c \in Contracts, c \in Parallel => ~config.transactions,
                      NEW own, own = Of(db.events, c), NEW i \in DOMAIN own, NEW j \in DOMAIN own, i < j
               PROVE  Before(own[i], own[j])
    BY DEF AppliedOnce
  <2>1. PICK evs, S : evs = db.events /\ S = {e \in ToSet(db.events) : e.from = c}
    OBVIOUS
  <2>2. evs \in Seq(Events)
    BY <2>1, DbIs DEF IndexerInv, StoreInv
  <2>3. Ordered(evs, Own(c))
    BY <2>1 DEF OnceInv, OnceOf, Safe, Settled
  <2>4. own = Among(evs, S)
    BY <2>1 DEF Of, Where
  <2>5. own \in Seq(Events) /\ Ordered(own, Own(c)) /\ ToSet(own) = ToSet(evs) \cap S
    <3>1. own \in Seq(Events)
      BY <2>2, <2>4, AmongType
    <3>2. Ordered(own, Own(c))
      BY <2>2, <2>3, <2>4, OrderedAmong
    <3>3. ToSet(own) = ToSet(evs) \cap S
      BY <2>2, <2>4, AmongSet
    <3> QED
      BY <3>1, <3>2, <3>3
  <2>6. i \in 1..Len(own) /\ j \in 1..Len(own)
    BY <2>5
  <2>7. own[i].from = c /\ own[j].from = c
    <3>1. own[i] \in ToSet(own) /\ own[j] \in ToSet(own)
      BY <2>5, <2>6, InSet
    <3> QED
      BY <2>1, <2>5, <3>1
  <2>8. <<own[i], own[j]>> \in Own(c)
    BY <2>5, <2>6 DEF Ordered
  <2> QED
    BY <2>7, <2>8 DEF Own
<1>2. Spec => [](IndexerInv /\ PublishInv)
  BY InitPublished, NextPublished, IndexerInvHolds, PTL DEF Spec
<1>3. Spec => []HeadInv
  BY <1>2, InitHead, NextHead, PTL DEF Spec
<1>4. HeadInv => OrderInv
  BY DEF HeadInv
<1>5. Spec => [](NumberInv /\ OnceInv)
  BY <1>2, <1>3, <1>4, InitOnce, NextOnce, PTL DEF Spec
<1> QED
  BY <1>1, <1>2, <1>5, PTL
=============================================================================
