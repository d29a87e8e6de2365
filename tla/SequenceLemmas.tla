--------------------------- MODULE SequenceLemmas ---------------------------
(***************************************************************************)
(* Facts about the sequence operators the models are built from.  They     *)
(* model no code of their own; the proofs of the components cite them.     *)
(***************************************************************************)
EXTENDS Integers, SequencesExt, SequenceTheorems, WellFoundedInduction, TLAPS

\* RemoveAt closes the gap: what is left keeps its order.
LEMMA RemoveAtElements ==
  ASSUME NEW S, NEW s \in Seq(S), NEW k \in 1..Len(s)
  PROVE  /\ RemoveAt(s, k) \in Seq(S)
         /\ Len(RemoveAt(s, k)) = Len(s) - 1
         /\ \A i \in 1..(Len(s) - 1) :
              RemoveAt(s, k)[i] = s[IF i < k THEN i ELSE i + 1]
<1> DEFINE front == SubSeq(s, 1, k - 1)
           back == SubSeq(s, k + 1, Len(s))
<1>1. /\ front \in Seq(S)
      /\ Len(front) = k - 1
      /\ \A i \in 1..(k - 1) : front[i] = s[i]
  BY SubSeqProperties
<1>2. /\ back \in Seq(S)
      /\ Len(back) = Len(s) - k
      /\ \A i \in 1..(Len(s) - k) : back[i] = s[k + i]
  BY SubSeqProperties
<1>3. RemoveAt(s, k) = front \o back
  BY DEF RemoveAt
<1> HIDE DEF front, back
<1>4. /\ front \o back \in Seq(S)
      /\ Len(front \o back) = Len(front) + Len(back)
      /\ \A i \in 1..(Len(front) + Len(back)) : (front \o back)[i] =
            IF i <= Len(front) THEN front[i] ELSE back[i - Len(front)]
  BY <1>1, <1>2, ConcatProperties
<1>5. ASSUME NEW i \in 1..(Len(s) - 1)
      PROVE  RemoveAt(s, k)[i] = s[IF i < k THEN i ELSE i + 1]
  <2>1. CASE i < k
    BY <1>1, <1>2, <1>3, <1>4, <2>1
  <2>2. CASE i >= k
    <3> DEFINE j == i - (k - 1)
    <3>1. RemoveAt(s, k)[i] = back[j]
      BY <1>1, <1>2, <1>3, <1>4, <2>2
    <3>2. j \in 1..(Len(s) - k) /\ k + j = i + 1
      BY <2>2
    <3>3. back[j] = s[k + j]
      BY <1>2, <3>2
    <3> QED
      BY <2>2, <3>1, <3>2, <3>3
  <2> QED
    BY <2>1, <2>2
<1> QED
  BY <1>1, <1>2, <1>3, <1>4, <1>5

\* InsertAt makes room for an element and keeps the order of the others.
LEMMA InsertAtElements ==
  ASSUME NEW S, NEW s \in Seq(S), NEW k \in 1..(Len(s) + 1), NEW e \in S
  PROVE  /\ InsertAt(s, k, e) \in Seq(S)
         /\ Len(InsertAt(s, k, e)) = Len(s) + 1
         /\ \A i \in 1..(Len(s) + 1) :
              InsertAt(s, k, e)[i] =
                IF i < k THEN s[i] ELSE IF i = k THEN e ELSE s[i - 1]
<1> DEFINE front == SubSeq(s, 1, k - 1)
           back == SubSeq(s, k, Len(s))
           first == front \o <<e>>
<1>1. /\ front \in Seq(S)
      /\ Len(front) = k - 1
      /\ \A i \in 1..(k - 1) : front[i] = s[i]
  BY SubSeqProperties
<1>2. /\ back \in Seq(S)
      /\ Len(back) = Len(s) - k + 1
      /\ \A i \in 1..(Len(s) - k + 1) : back[i] = s[k + i - 1]
  BY SubSeqProperties
<1>3. InsertAt(s, k, e) = first \o back
  BY DEF InsertAt
<1>4. <<e>> \in Seq(S) /\ Len(<<e>>) = 1 /\ <<e>>[1] = e
  OBVIOUS
<1> HIDE DEF front, back
<1>5. /\ first \in Seq(S)
      /\ Len(first) = k
      /\ \A i \in 1..k : first[i] = IF i < k THEN s[i] ELSE e
  BY <1>1, <1>4, ConcatProperties
<1> HIDE DEF first
<1>6. Len(first) + Len(back) = Len(s) + 1 /\ Len(s) \in Nat
  BY <1>2, <1>5
<1>7. /\ first \o back \in Seq(S)
      /\ Len(first \o back) = Len(s) + 1
      /\ \A i \in 1..(Len(s) + 1) : (first \o back)[i] =
            IF i <= k THEN first[i] ELSE back[i - k]
  BY <1>2, <1>5, <1>6, ConcatProperties
<1>8. ASSUME NEW i \in 1..(Len(s) + 1)
      PROVE  (first \o back)[i] =
               IF i < k THEN s[i] ELSE IF i = k THEN e ELSE s[i - 1]
  <2>1. CASE i <= k
    BY <1>5, <1>7, <2>1
  <2>2. CASE i > k
    <3>1. i - k \in 1..(Len(s) - k + 1) /\ k + (i - k) - 1 = i - 1
      BY <1>6, <2>2
    <3>2. back[i - k] = s[k + (i - k) - 1]
      BY <1>2, <3>1
    <3> QED
      BY <1>7, <2>2, <3>1, <3>2
  <2> QED
    BY <1>6, <2>1, <2>2
<1> QED
  BY <1>3, <1>7, <1>8

\* A set of positive numbers that is not empty has a least one.
LEMMA MinOfIndices ==
  ASSUME NEW I, I \subseteq Nat, I # {}
  PROVE  Min(I) \in I /\ \A i \in I : Min(I) <= i
<1>1. PICK x \in I : \A y \in I : ~ (<<y, x>> \in OpToRel(<, Nat))
  BY NatLessThanWellFounded, WFMin
<1>2. ASSUME NEW y \in I, y < x
      PROVE  FALSE
  <2>1. <<y, x>> \in {p \in Nat \X Nat : p[1] < p[2]}
    BY <1>2
  <2>2. <<y, x>> \in OpToRel(<, Nat)
    BY <2>1, Zenon DEF OpToRel
  <2> QED
    BY <1>1, <2>2
<1>3. \A y \in I : x =< y
  BY <1>2
<1> QED
  BY <1>3 DEF Min

\* A set that has 0, and with each number the next one, has all of them.
LEMMA SetInduction ==
  ASSUME NEW G, 0 \in G, \A n \in Nat : n \in G => n + 1 \in G
  PROVE  Nat \subseteq G
<1> DEFINE B == Nat \ G
<1>1. CASE B # {}
  <2>1. B \subseteq Nat
    OBVIOUS
  <2>2. Min(B) \in B /\ \A i \in B : Min(B) <= i
    <3> HIDE DEF B
    <3> QED
      BY <1>1, <2>1, MinOfIndices
  <2>3. PICK b \in Nat : b = Min(B)
    BY <2>2
  <2>4. b # 0 /\ b - 1 \in Nat /\ b - 1 \notin B
    BY <2>2, <2>3
  <2>5. (b - 1) + 1 \in G
    BY <2>4
  <2> QED
    BY <2>2, <2>3, <2>5
<1>2. CASE B = {}
  BY <1>2
<1> QED
  BY <1>1, <1>2

\* The values of f, each built from the one before, up to the nth.
Iterates(f, first, Step, n) ==
  f[0] = first /\ \A i \in 1..n : f[i] = Step[<<f[i - 1], i>>]

\* A function can be built so.
LEMMA IterationExists ==
  ASSUME NEW W, NEW first \in W, NEW N \in Nat, NEW Step \in [W \X (1..N) -> W]
  PROVE  \E f \in [0..N -> W] : Iterates(f, first, Step, N)
<1> DEFINE Built(f, n) == Iterates(f, first, Step, n)
           G == {n \in Nat : n <= N => \E f \in [0..n -> W] : Built(f, n)}
<1>1. 0 \in G
  <2> DEFINE f == [k \in 0..0 |-> first]
  <2>1. f \in [0..0 -> W] /\ Built(f, 0)
    BY DEF Iterates
  <2> QED
    BY <2>1
<1>2. ASSUME NEW n \in Nat, n \in G
      PROVE  n + 1 \in G
  <2> SUFFICES ASSUME n + 1 <= N
               PROVE  \E f \in [0..(n + 1) -> W] : Built(f, n + 1)
    OBVIOUS
  <2>1. PICK f \in [0..n -> W] : Built(f, n)
    BY <1>2
  <2> DEFINE next == Step[<<f[n], n + 1>>]
             g == [k \in 0..(n + 1) |-> IF k = n + 1 THEN next ELSE f[k]]
  <2>2. next \in W
    <3>1. <<f[n], n + 1>> \in W \X (1..N)
      BY <2>1
    <3> QED
      BY <3>1
  <2>3. g \in [0..(n + 1) -> W]
    <3> HIDE DEF next
    <3> QED
      BY <2>1, <2>2
  <2>4. g[0] = first
    BY <2>1 DEF Iterates
  <2>5. ASSUME NEW k \in 1..(n + 1)
        PROVE  g[k] = Step[<<g[k - 1], k>>]
    <3>1. CASE k = n + 1
      <4>1. k - 1 \in 0..n /\ k - 1 = n /\ g[k - 1] = f[n] /\ g[k] = next
        BY <3>1
      <4> QED
        BY <3>1, <4>1
    <3>2. CASE k \in 1..n
      <4>1. g[k] = f[k] /\ g[k - 1] = f[k - 1]
        BY <3>2
      <4> HIDE DEF g
      <4> QED
        BY <2>1, <3>2, <4>1 DEF Iterates
    <3> QED
      BY <3>1, <3>2
  <2>6. Built(g, n + 1)
    <3> HIDE DEF g
    <3> QED
      BY <2>4, <2>5 DEF Iterates
  <2> HIDE DEF g, Built
  <2> QED
    BY <2>3, <2>6
<1>3. Nat \subseteq G
  <2> HIDE DEF G
  <2> QED
    BY <1>1, <1>2, SetInduction
<1>4. N \in G
  BY <1>3
<1> QED
  BY <1>4
=============================================================================
