------------------------ MODULE NetworkEditingProofs -------------------------
(***************************************************************************)
(* Theorems about the editing of a network (NetworkEditing), for every     *)
(* list of inputs and outputs that the box offers and for every number of  *)
(* elements that the display has room for.                                 *)
(***************************************************************************)
EXTENDS NetworkEditing, SequenceLemmas, FiniteSetTheorems
-----------------------------------------------------------------------------
(* The elements at some places *)

\* The equations of the sequences that AtPlaces builds up.
Picks(g, seq, places) ==
  \A n \in DOMAIN g :
    g[n] = IF n = 0 THEN <<>>
           ELSE IF n \in places THEN Append(g[n - 1], seq[n]) ELSE g[n - 1]

LEMMA PicksExist ==
  ASSUME NEW S, NEW seq \in Seq(S), NEW places
  PROVE  \E g \in [0..Len(seq) -> Seq(S)] : Picks(g, seq, places)
<1> DEFINE G == {n \in Nat : n <= Len(seq) => \E g \in [0..n -> Seq(S)] : Picks(g, seq, places)}
<1>1. 0 \in G
  <2> DEFINE g == [k \in 0..0 |-> <<>>]
  <2>1. g \in [0..0 -> Seq(S)] /\ Picks(g, seq, places)
    BY DEF Picks
  <2> QED
    BY <2>1
<1>2. ASSUME NEW n \in Nat, n \in G
      PROVE  n + 1 \in G
  <2> SUFFICES ASSUME n + 1 <= Len(seq)
               PROVE  \E g \in [0..(n + 1) -> Seq(S)] : Picks(g, seq, places)
    OBVIOUS
  <2>1. PICK g \in [0..n -> Seq(S)] : Picks(g, seq, places)
    BY <1>2
  <2> DEFINE next == IF n + 1 \in places THEN Append(g[n], seq[n + 1]) ELSE g[n]
             h == [k \in 0..(n + 1) |-> IF k = n + 1 THEN next ELSE g[k]]
  <2>2. next \in Seq(S)
    <3>1. g[n] \in Seq(S) /\ seq[n + 1] \in S
      BY <2>1
    <3> QED
      BY <3>1
  <2>3. h \in [0..(n + 1) -> Seq(S)]
    <3> HIDE DEF next
    <3> QED
      BY <2>1, <2>2
  <2>4. ASSUME NEW k \in 0..(n + 1)
        PROVE  h[k] = IF k = 0 THEN <<>>
                      ELSE IF k \in places THEN Append(h[k - 1], seq[k]) ELSE h[k - 1]
    <3>1. CASE k = n + 1
      <4>1. k - 1 \in 0..n /\ k - 1 = n /\ h[k - 1] = g[n] /\ h[k] = next
        BY <3>1
      <4> QED
        BY <3>1, <4>1
    <3>2. CASE k = 0
      <4>1. h[k] = g[k] /\ k \in DOMAIN g
        BY <2>1, <3>2
      <4> QED
        BY <2>1, <3>2, <4>1 DEF Picks
    <3>3. CASE k \in 1..n
      <4>1. h[k] = g[k] /\ h[k - 1] = g[k - 1] /\ k \in DOMAIN g
        BY <2>1, <3>3
      <4> HIDE DEF h
      <4> QED
        BY <2>1, <3>3, <4>1 DEF Picks
    <3> QED
      BY <3>1, <3>2, <3>3
  <2>5. Picks(h, seq, places)
    <3>1. DOMAIN h = 0..(n + 1)
      OBVIOUS
    <3> HIDE DEF h
    <3> QED
      BY <2>4, <3>1 DEF Picks
  <2> HIDE DEF h
  <2> QED
    BY <2>3, <2>5
<1>3. Nat \subseteq G
  <2> HIDE DEF G
  <2> QED
    BY <1>1, <1>2, SetInduction
<1>4. Len(seq) \in Nat
  OBVIOUS
<1> QED
  BY <1>3, <1>4

\* What is picked from the first n elements: places says which, in their order.
PickedFrom(r, seq, places, n) ==
  /\ Len(r) <= n
  /\ \E place \in [1..Len(r) -> 1..n] :
       /\ \A j \in 1..Len(r) : place[j] \in places /\ r[j] = seq[place[j]]
       /\ \A i, j \in 1..Len(r) : i < j => place[i] < place[j]
       /\ \A k \in 1..n : k \in places => \E j \in 1..Len(r) : place[j] = k

\* One element more.
LEMMA PickedMore ==
  ASSUME NEW S, NEW seq \in Seq(S), NEW places, NEW n \in Nat, n + 1 <= Len(seq),
         NEW r \in Seq(S), PickedFrom(r, seq, places, n)
  PROVE  PickedFrom(IF n + 1 \in places THEN Append(r, seq[n + 1]) ELSE r, seq, places, n + 1)
<1>1. PICK place \in [1..Len(r) -> 1..n] :
        /\ \A j \in 1..Len(r) : place[j] \in places /\ r[j] = seq[place[j]]
        /\ \A i, j \in 1..Len(r) : i < j => place[i] < place[j]
        /\ \A k \in 1..n : k \in places => \E j \in 1..Len(r) : place[j] = k
  BY DEF PickedFrom
<1>2. CASE n + 1 \notin places
  <2>1. place \in [1..Len(r) -> 1..(n + 1)]
    BY <1>1
  <2>2. \A k \in 1..(n + 1) : k \in places => k \in 1..n
    BY <1>2
  <2>3. Len(r) <= n + 1
    BY DEF PickedFrom
  <2>4. \A k \in 1..(n + 1) : k \in places => \E j \in 1..Len(r) : place[j] = k
    BY <1>1, <2>2
  <2>5. PickedFrom(r, seq, places, n + 1)
    BY <1>1, <2>1, <2>3, <2>4 DEF PickedFrom
  <2> QED
    BY <1>2, <2>5
<1>3. CASE n + 1 \in places
  <2> DEFINE more == [j \in 1..(Len(r) + 1) |-> IF j = Len(r) + 1 THEN n + 1 ELSE place[j]]
             t == Append(r, seq[n + 1])
  <2>1. t \in Seq(S) /\ Len(t) = Len(r) + 1 /\ t[Len(r) + 1] = seq[n + 1]
        /\ \A j \in 1..Len(r) : t[j] = r[j]
    <3>1. seq[n + 1] \in S
      OBVIOUS
    <3> QED
      BY <3>1
  <2>2. more \in [1..Len(t) -> 1..(n + 1)]
    BY <1>1, <2>1
  <2>3. \A j \in 1..Len(t) : more[j] \in places /\ t[j] = seq[more[j]]
    <3> HIDE DEF t
    <3> QED
      BY <1>1, <1>3, <2>1
  <2>4. ASSUME NEW i \in 1..Len(t), NEW j \in 1..Len(t), i < j
        PROVE  more[i] < more[j]
    <3> HIDE DEF t
    <3>1. i \in 1..Len(r) /\ more[i] = place[i] /\ place[i] \in 1..n
      BY <1>1, <2>1, <2>4
    <3>2. CASE j = Len(r) + 1
      BY <2>1, <3>1, <3>2
    <3>3. CASE j \in 1..Len(r)
      <4>1. more[j] = place[j]
        BY <2>1, <3>3
      <4> QED
        BY <1>1, <2>4, <3>1, <3>3, <4>1
    <3> QED
      BY <2>1, <3>2, <3>3
  <2>5. \A k \in 1..(n + 1) : k \in places => \E j \in 1..Len(t) : more[j] = k
    <3> SUFFICES ASSUME NEW k \in 1..(n + 1), k \in places
                 PROVE  \E j \in 1..Len(t) : more[j] = k
      OBVIOUS
    <3>1. CASE k = n + 1
      <4>1. more[Len(r) + 1] = k /\ Len(r) + 1 \in 1..Len(t)
        BY <2>1, <3>1
      <4> QED
        BY <4>1
    <3>2. CASE k \in 1..n
      <4>1. PICK j \in 1..Len(r) : place[j] = k
        BY <1>1, <3>2
      <4>2. more[j] = k /\ j \in 1..Len(t)
        BY <2>1, <4>1
      <4> QED
        BY <4>2
    <3> QED
      BY <3>1, <3>2
  <2> HIDE DEF more, t
  <2>6. PickedFrom(t, seq, places, n + 1)
    <3>1. Len(t) <= n + 1
      BY <2>1 DEF PickedFrom
    <3> QED
      BY <3>1, <2>2, <2>3, <2>4, <2>5 DEF PickedFrom
  <2> QED
    BY <1>3, <2>6 DEF t
<1> QED
  BY <1>2, <1>3

\* AtPlaces returns the elements at the places, and keeps their order.
LEMMA AtPlacesElements ==
  ASSUME NEW S, NEW seq \in Seq(S), NEW places
  PROVE  /\ AtPlaces(seq, places) \in Seq(S)
         /\ PickedFrom(AtPlaces(seq, places), seq, places, Len(seq))
<1> DEFINE picked[n \in 0..Len(seq)] ==
             IF n = 0 THEN <<>>
             ELSE IF n \in places THEN Append(picked[n - 1], seq[n]) ELSE picked[n - 1]
<1>1. AtPlaces(seq, places) = picked[Len(seq)]
  BY DEF AtPlaces
<1>2. PICK g \in [0..Len(seq) -> Seq(S)] : Picks(g, seq, places)
  BY PicksExist
<1>3. g = [n \in 0..Len(seq) |->
             IF n = 0 THEN <<>>
             ELSE IF n \in places THEN Append(g[n - 1], seq[n]) ELSE g[n - 1]]
  BY <1>2 DEF Picks
<1>4. picked = [n \in 0..Len(seq) |->
             IF n = 0 THEN <<>>
             ELSE IF n \in places THEN Append(picked[n - 1], seq[n]) ELSE picked[n - 1]]
  BY <1>3
<1> HIDE DEF picked
<1> DEFINE G == {n \in Nat : n <= Len(seq) =>
                   picked[n] \in Seq(S) /\ PickedFrom(picked[n], seq, places, n)}
<1>5. 0 \in G
  <2>1. picked[0] = <<>>
    BY <1>4
  <2>2. <<>> \in Seq(S) /\ Len(<<>>) = 0
    OBVIOUS
  <2>3. PickedFrom(<<>>, seq, places, 0)
    <3>1. [j \in 1..Len(<<>>) |-> j] \in [1..Len(<<>>) -> 1..0]
      OBVIOUS
    <3> QED
      BY <3>1 DEF PickedFrom
  <2> QED
    BY <2>1, <2>2, <2>3
<1>6. ASSUME NEW n \in Nat, n \in G
      PROVE  n + 1 \in G
  <2> SUFFICES ASSUME n + 1 <= Len(seq)
               PROVE  picked[n + 1] \in Seq(S) /\ PickedFrom(picked[n + 1], seq, places, n + 1)
    OBVIOUS
  <2>1. picked[n] \in Seq(S) /\ PickedFrom(picked[n], seq, places, n)
    BY <1>6
  <2>2. picked[n + 1] = IF n + 1 \in places THEN Append(picked[n], seq[n + 1]) ELSE picked[n]
    <3>1. n + 1 \in 0..Len(seq) /\ n + 1 # 0 /\ (n + 1) - 1 = n
      OBVIOUS
    <3> QED
      BY <1>4, <3>1
  <2>3. seq[n + 1] \in S
    OBVIOUS
  <2>4. picked[n + 1] \in Seq(S)
    BY <2>1, <2>2, <2>3
  <2> QED
    BY <2>1, <2>2, <2>4, PickedMore
<1>7. Nat \subseteq G
  <2> HIDE DEF G
  <2> QED
    BY <1>5, <1>6, SetInduction
<1>8. Len(seq) \in Nat
  OBVIOUS
<1> QED
  BY <1>1, <1>7, <1>8
-----------------------------------------------------------------------------
(* The inductive invariant *)

Edits == {"Regular", "Selected", "Editing"}
ElementItems == [type : Types, edit : Edits]
Ends == {"ContinuationIn", "ContinuationOut"}

OneOutput(elements) ==
  \A i, j \in DOMAIN elements :
    IsOutput(elements[i].type) /\ IsOutput(elements[j].type) => i = j

\* A wire may be beyond the ends, for as long as it is to be removed.
InPlace(elements) ==
  /\ OneOutput(elements)
  /\ \A i, j \in DOMAIN elements :
       /\ elements[i].type = "ContinuationIn" /\ i < j => elements[j].type = "Wire"
       /\ elements[i].type = "ContinuationOut" /\ j < i => elements[j].type = "Wire"

AtEnds(elements) ==
  /\ OneOutput(elements)
  /\ \A i \in DOMAIN elements :
       /\ elements[i].type = "ContinuationIn" => i = Len(elements)
       /\ elements[i].type = "ContinuationOut" => i = 1

AllRegular(elements) == \A i \in DOMAIN elements : elements[i].edit = "Regular"
OneMarked(elements) ==
  \A i, j \in DOMAIN elements : elements[i].edit # "Regular" /\ elements[j].edit # "Regular" => i = j
OneWire(elements) ==
  \A i, j \in DOMAIN elements : elements[i].type = "Wire" /\ elements[j].type = "Wire" => i = j
NoWire(elements) == \A i \in DOMAIN elements : elements[i].type # "Wire"

\* Outside a box the network is as it may be saved, but for one wire.
OutsideInv ==
  /\ \A i \in DOMAIN items : items[i].edit # "Editing"
  /\ OneMarked(items) /\ OneWire(items) /\ AtEnds(items)
  /\ ~editing => AllRegular(items) /\ NoWire(items)

\* Inside, whatever the box offers has its place there.
InsideInv(e) ==
  /\ editing
  /\ box = [offered |-> box.offered, index |-> box.index, in_property |-> box.in_property]
  /\ box.offered \in Seq(Types) /\ box.index \in DOMAIN box.offered
  /\ items[e] = [type |-> box.offered[box.index], edit |-> "Editing"]
  /\ \A i \in DOMAIN items : i # e => items[i].edit = "Regular"
  /\ \A i, j \in DOMAIN items :
       i # e /\ j # e /\ items[i].type = "Wire" /\ items[j].type = "Wire" => i = j
  /\ \A k \in DOMAIN box.offered : InPlace([items EXCEPT ![e].type = box.offered[k]])

EditingInv ==
  /\ items \in Seq(ElementItems) /\ Len(items) <= Room
  /\ editing \in BOOLEAN
  /\ ~InBox => OutsideInv
  /\ InBox => \E e \in DOMAIN items : InsideInv(e)
-----------------------------------------------------------------------------
(* The network without its wires, and with one *)

LEMMA SolidElements ==
  ASSUME NEW x \in Seq(ElementItems)
  PROVE  /\ Solid(x) \in Seq(ElementItems) /\ Len(Solid(x)) <= Len(x)
         /\ \E place \in [DOMAIN Solid(x) -> DOMAIN x] :
              /\ \A j \in DOMAIN Solid(x) :
                   Solid(x)[j] = x[place[j]] /\ x[place[j]].type # "Wire"
              /\ \A i, j \in DOMAIN Solid(x) : i < j => place[i] < place[j]
<1> DEFINE solids == {i \in DOMAIN x : x[i].type # "Wire"}
           r == AtPlaces(x, solids)
<1>1. r \in Seq(ElementItems) /\ PickedFrom(r, x, solids, Len(x))
  <2> HIDE DEF solids
  <2> QED
    BY AtPlacesElements
<1>2. Solid(x) = r
  BY DEF Solid
<1>3. DOMAIN r = 1..Len(r) /\ DOMAIN x = 1..Len(x)
  BY <1>1
<1> HIDE DEF r
<1> QED
  BY <1>1, <1>2, <1>3 DEF PickedFrom

\* Without the wires, what has its place is at its ends.
LEMMA SolidAtEnds ==
  ASSUME NEW x \in Seq(ElementItems), InPlace(x)
  PROVE  AtEnds(Solid(x)) /\ NoWire(Solid(x))
<1> DEFINE r == Solid(x)
<1>1. PICK place \in [DOMAIN r -> DOMAIN x] :
        /\ \A j \in DOMAIN r : r[j] = x[place[j]] /\ x[place[j]].type # "Wire"
        /\ \A i, j \in DOMAIN r : i < j => place[i] < place[j]
  BY SolidElements
<1>2. r \in Seq(ElementItems) /\ DOMAIN r = 1..Len(r) /\ Len(r) \in Nat
      /\ DOMAIN x = 1..Len(x) /\ Len(x) \in Nat
  BY SolidElements
<1> HIDE DEF r
<1>3. NoWire(r)
  BY <1>1 DEF NoWire
<1>4. OneOutput(r)
  <2> SUFFICES ASSUME NEW i \in DOMAIN r, NEW j \in DOMAIN r,
                      IsOutput(r[i].type), IsOutput(r[j].type)
               PROVE  i = j
    BY DEF OneOutput
  <2>1. place[i] = place[j]
    BY <1>1 DEF InPlace, OneOutput
  <2> QED
    BY <1>1, <1>2, <2>1
<1>5. ASSUME NEW i \in DOMAIN r, r[i].type = "ContinuationIn"
      PROVE  i = Len(r)
  <2>1. SUFFICES ASSUME i # Len(r)
                 PROVE  FALSE
    OBVIOUS
  <2>2. i + 1 \in DOMAIN r /\ i < i + 1
    BY <1>2, <2>1
  <2>3. place[i] < place[i + 1] /\ x[place[i]].type = "ContinuationIn"
    BY <1>1, <1>5, <2>2
  <2>4. x[place[i + 1]].type # "Wire" /\ place[i] \in DOMAIN x /\ place[i + 1] \in DOMAIN x
    BY <1>1, <2>2
  <2> QED
    BY <2>3, <2>4 DEF InPlace
<1>6. ASSUME NEW i \in DOMAIN r, r[i].type = "ContinuationOut"
      PROVE  i = 1
  <2>1. SUFFICES ASSUME i # 1
                 PROVE  FALSE
    OBVIOUS
  <2>2. i - 1 \in DOMAIN r /\ i - 1 < i
    BY <1>2, <2>1
  <2>3. place[i - 1] < place[i] /\ x[place[i]].type = "ContinuationOut"
    BY <1>1, <1>6, <2>2
  <2>4. x[place[i - 1]].type # "Wire" /\ place[i] \in DOMAIN x /\ place[i - 1] \in DOMAIN x
    BY <1>1, <2>2
  <2> QED
    BY <2>3, <2>4 DEF InPlace
<1>7. AtEnds(r)
  BY <1>4, <1>5, <1>6 DEF AtEnds
<1> QED
  BY <1>3, <1>7 DEF r

\* What is left may be saved.
LEMMA SolidFits ==
  ASSUME NEW x \in Seq(ElementItems), InPlace(x), AllRegular(x)
  PROVE  AtEnds(Solid(x)) /\ AllRegular(Solid(x)) /\ NoWire(Solid(x))
<1>1. AllRegular(Solid(x))
  BY SolidElements DEF AllRegular
<1> QED
  BY <1>1, SolidAtEnds

\* What is at its ends has its place.
LEMMA EndsAreInPlace ==
  ASSUME NEW x \in Seq(ElementItems), AtEnds(x)
  PROVE  InPlace(x)
<1>1. DOMAIN x = 1..Len(x) /\ Len(x) \in Nat
  OBVIOUS
<1>2. ASSUME NEW i \in DOMAIN x, NEW j \in DOMAIN x
      PROVE  /\ ~(x[i].type = "ContinuationIn" /\ i < j)
             /\ ~(x[i].type = "ContinuationOut" /\ j < i)
  BY <1>1 DEF AtEnds
<1> QED
  BY <1>2 DEF InPlace, AtEnds

\* The wire is put before the output and before the ContinuationIn.
LEMMA WithWireFits ==
  ASSUME NEW x \in Seq(ElementItems), AtEnds(x), AllRegular(x), NoWire(x)
  PROVE  /\ WithWire(x) \in Seq(ElementItems) /\ Len(WithWire(x)) = Len(x) + 1
         /\ AtEnds(WithWire(x)) /\ AllRegular(WithWire(x)) /\ OneWire(WithWire(x))
<1> DEFINE wire == [type |-> "Wire", edit |-> "Regular"]
           I == {i \in 1..Len(x) : IsOutput(x[i].type) \/ x[i].type = "ContinuationIn"}
           ends == SelectInSeq(x, LAMBDA e : IsOutput(e.type) \/ e.type = "ContinuationIn")
           k == IF ends = 0 THEN Len(x) + 1 ELSE ends
           r == InsertAt(x, k, wire)
<1>1. /\ k \in 1..(Len(x) + 1)
      /\ \A i \in 1..Len(x) : i < k => i \notin I
      /\ k <= Len(x) => k \in I
  <2>1. CASE I = {}
    <3>1. ends = 0
      BY <2>1 DEF SelectInSeq
    <3> QED
      BY <2>1, <3>1
  <2>2. CASE I # {}
    <3>1. ends = Min(I)
      BY <2>2 DEF SelectInSeq
    <3>2. I \subseteq Nat
      OBVIOUS
    <3>3. Min(I) \in I /\ \A i \in I : Min(I) <= i
      <4> HIDE DEF I
      <4> QED
        BY <2>2, <3>2, MinOfIndices
    <3>4. I \subseteq 1..Len(x)
      OBVIOUS
    <3>5. ends \in I /\ \A i \in I : ends <= i
      BY <3>1, <3>3
    <3>6. ends \in 1..Len(x) /\ k = ends /\ \A i \in 1..Len(x) : i < ends => i \notin I
      <4> HIDE DEF I, ends
      <4>1. ends \in 1..Len(x)
        BY <3>4, <3>5
      <4> QED
        BY <3>5, <4>1
    <3> HIDE DEF I, ends, k
    <3> QED
      BY <3>5, <3>6
  <2> QED
    BY <2>1, <2>2
<1>2. wire \in ElementItems
  BY DEF ElementItems, Types, Edits
<1>3. WithWire(x) = r
  BY DEF WithWire
<1> HIDE DEF k
<1>4. /\ r \in Seq(ElementItems) /\ Len(r) = Len(x) + 1
      /\ \A i \in 1..(Len(x) + 1) : r[i] = IF i < k THEN x[i] ELSE IF i = k THEN wire ELSE x[i - 1]
  BY <1>1, <1>2, InsertAtElements
<1> DEFINE old(i) == IF i < k THEN i ELSE i - 1
<1>5. DOMAIN r = 1..(Len(x) + 1) /\ DOMAIN x = 1..Len(x) /\ Len(x) \in Nat
  BY <1>4
<1> HIDE DEF r
<1>6. \A i \in DOMAIN r : i # k => old(i) \in DOMAIN x /\ r[i] = x[old(i)]
  BY <1>1, <1>4, <1>5
<1>7. r[k] = wire /\ k \in DOMAIN r
  BY <1>1, <1>4, <1>5
<1>8. \A i, j \in DOMAIN r : i # k /\ j # k /\ old(i) = old(j) => i = j
  BY <1>1, <1>5
<1> HIDE DEF old
<1>9. ~IsOutput("Wire")
  BY TypesAssumption DEF IsOutput
<1>10. AllRegular(r)
  BY <1>6, <1>7 DEF AllRegular
<1>11. OneWire(r)
  BY <1>6, <1>7 DEF OneWire, NoWire
<1>12. OneOutput(r)
  BY <1>6, <1>7, <1>8, <1>9 DEF OneOutput, AtEnds
<1>13. ASSUME NEW i \in DOMAIN r, r[i].type = "ContinuationIn"
       PROVE  i = Len(r)
  <2>1. i # k /\ r[i] = x[old(i)] /\ old(i) \in DOMAIN x
    BY <1>6, <1>7, <1>13
  <2>2. old(i) = Len(x) /\ old(i) \in I
    BY <1>5, <1>13, <2>1 DEF AtEnds
  <2> QED
    BY <1>1, <1>4, <1>5, <2>1, <2>2 DEF old
<1>14. ASSUME NEW i \in DOMAIN r, r[i].type = "ContinuationOut"
       PROVE  i = 1
  <2>1. i # k /\ r[i] = x[old(i)] /\ old(i) \in DOMAIN x
    BY <1>6, <1>7, <1>14
  <2>2. old(i) = 1 /\ x[1].type = "ContinuationOut"
    BY <1>14, <2>1 DEF AtEnds
  <2>3. 1 \notin I
    BY <2>2, TypesAssumption DEF IsOutput
  <2> QED
    BY <1>1, <1>5, <2>1, <2>2, <2>3 DEF old
<1>15. AtEnds(r)
  BY <1>12, <1>13, <1>14 DEF AtEnds
<1> QED
  BY <1>3, <1>4, <1>10, <1>11, <1>15
-----------------------------------------------------------------------------
(* Elements whose edit or type is changed *)

\* The selected element is one that is not regular, if there is one.
LEMMA SelectedIsMarked ==
  ASSUME items \in Seq(ElementItems)
  PROVE  /\ SelectedElement = 0 => AllRegular(items)
         /\ SelectedElement # 0 =>
              SelectedElement \in DOMAIN items /\ items[SelectedElement].edit # "Regular"
<1> DEFINE I == {i \in 1..Len(items) : items[i].edit # "Regular"}
<1>1. SelectedElement = IF I # {} THEN Min(I) ELSE 0
  BY DEF SelectedElement, SelectInSeq
<1>2. I \subseteq 1..Len(items) /\ \A i \in 1..Len(items) : i \notin I => items[i].edit = "Regular"
  OBVIOUS
<1>3. \A i \in I : items[i].edit # "Regular"
  OBVIOUS
<1>4. DOMAIN items = 1..Len(items) /\ I \subseteq Nat
  OBVIOUS
<1> HIDE DEF I
<1>5. CASE I = {}
  BY <1>1, <1>2, <1>4, <1>5 DEF AllRegular
<1>6. CASE I # {}
  <2>1. SelectedElement \in I
    BY <1>1, <1>4, <1>6, MinOfIndices
  <2> QED
    BY <1>2, <1>3, <1>4, <2>1
<1> QED
  BY <1>5, <1>6

LEMMA SelectedIs ==
  ASSUME items \in Seq(ElementItems), NEW e \in DOMAIN items, items[e].edit # "Regular",
         \A i \in DOMAIN items : i # e => items[i].edit = "Regular"
  PROVE  SelectedElement = e
BY SelectedIsMarked DEF AllRegular

LEMMA MarkedElements ==
  ASSUME NEW x \in Seq(ElementItems), NEW i, NEW edit \in Edits
  PROVE  /\ Marked(x, i, edit) \in Seq(ElementItems)
         /\ Len(Marked(x, i, edit)) = Len(x) /\ DOMAIN Marked(x, i, edit) = DOMAIN x
         /\ \A k \in DOMAIN x :
              /\ Marked(x, i, edit)[k].type = x[k].type
              /\ Marked(x, i, edit)[k].edit = IF k = i THEN edit ELSE x[k].edit
<1>1. CASE i \in DOMAIN x
  <2> DEFINE y == [x EXCEPT ![i].edit = edit]
  <2>1. \A k \in DOMAIN x : x[k] \in ElementItems
    OBVIOUS
  <2>2. \A k \in DOMAIN x : y[k] = IF k = i THEN [x[k] EXCEPT !.edit = edit] ELSE x[k]
    BY <1>1
  <2>3. \A k \in DOMAIN x : y[k] \in ElementItems
    BY <2>1, <2>2 DEF ElementItems
  <2>4. DOMAIN y = DOMAIN x /\ DOMAIN x = 1..Len(x) /\ Len(x) \in Nat
    OBVIOUS
  <2>5. y \in Seq(ElementItems) /\ Len(y) = Len(x)
    <3>1. y = [k \in 1..Len(x) |-> y[k]]
      BY <2>4
    <3> HIDE DEF y
    <3> QED
      BY <2>3, <2>4, <3>1
  <2>6. \A k \in DOMAIN x : /\ y[k].type = x[k].type
                            /\ y[k].edit = IF k = i THEN edit ELSE x[k].edit
    BY <2>1, <2>2 DEF ElementItems
  <2> HIDE DEF y
  <2> QED
    BY <1>1, <2>4, <2>5, <2>6 DEF Marked, y
<1>2. CASE i \notin DOMAIN x
  BY <1>2 DEF Marked
<1> QED
  BY <1>1, <1>2

LEMMA WithTypeElements ==
  ASSUME NEW x \in Seq(ElementItems), NEW e \in DOMAIN x, NEW t \in Types
  PROVE  LET y == [x EXCEPT ![e].type = t] IN
         /\ y \in Seq(ElementItems) /\ Len(y) = Len(x) /\ DOMAIN y = DOMAIN x
         /\ y[e] = [type |-> t, edit |-> x[e].edit]
         /\ \A k \in DOMAIN x : k # e => y[k] = x[k]
<1> DEFINE y == [x EXCEPT ![e].type = t]
<1>1. \A k \in DOMAIN x : x[k] \in ElementItems
  OBVIOUS
<1>2. \A k \in DOMAIN x : y[k] = IF k = e THEN [x[k] EXCEPT !.type = t] ELSE x[k]
  OBVIOUS
<1>3. [x[e] EXCEPT !.type = t] = [type |-> t, edit |-> x[e].edit]
  BY <1>1 DEF ElementItems
<1>4. \A k \in DOMAIN x : y[k] \in ElementItems
  BY <1>1, <1>2 DEF ElementItems
<1>5. DOMAIN y = DOMAIN x /\ DOMAIN x = 1..Len(x) /\ Len(x) \in Nat
  OBVIOUS
<1>6. y \in Seq(ElementItems) /\ Len(y) = Len(x)
  <2>1. y = [k \in 1..Len(x) |-> y[k]]
    BY <1>5
  <2> HIDE DEF y
  <2> QED
    BY <1>4, <1>5, <2>1
<1> HIDE DEF y
<1>7. y[e] = [type |-> t, edit |-> x[e].edit] /\ \A k \in DOMAIN x : k # e => y[k] = x[k]
  BY <1>2, <1>3
<1> QED
  BY <1>5, <1>6, <1>7 DEF y

\* Where the elements are depends on nothing but their types.
SameTypes(x, y) ==
  Len(x) = Len(y) /\ DOMAIN x = DOMAIN y /\ \A k \in DOMAIN x : x[k].type = y[k].type

LEMMA SameTypesFit ==
  ASSUME NEW x \in Seq(ElementItems), NEW y \in Seq(ElementItems), SameTypes(x, y)
  PROVE  /\ AtEnds(x) => AtEnds(y)
         /\ InPlace(x) => InPlace(y)
         /\ OneWire(x) => OneWire(y)
         /\ NoWire(x) => NoWire(y)
<1>1. OneOutput(x) => OneOutput(y)
  BY DEF SameTypes, OneOutput
<1>2. AtEnds(x) => AtEnds(y)
  BY <1>1 DEF SameTypes, AtEnds
<1>3. InPlace(x) => InPlace(y)
  BY <1>1 DEF SameTypes, InPlace
<1> QED
  BY <1>2, <1>3 DEF SameTypes, OneWire, NoWire
-----------------------------------------------------------------------------
(* What the box offers *)

LEMMA FillOrderTypes ==
  FillOrder \in Seq(Types) /\ \A t \in Types : \E k \in DOMAIN FillOrder : FillOrder[k] = t
<1> DEFINE last == <<"ContinuationIn", "ContinuationOut", "Wire">>
<1>1. Inputs \in Seq(Types) /\ Outputs \in Seq(Types) /\ last \in Seq(Types)
  <2>1. Inputs \in Seq(ToSet(Inputs)) /\ Outputs \in Seq(ToSet(Outputs))
    BY TypesAssumption
  <2>2. ToSet(Inputs) \subseteq Types /\ ToSet(Outputs) \subseteq Types
    BY DEF Types
  <2>3. last \in Seq(Types)
    BY DEF Types
  <2> QED
    BY <2>1, <2>2, <2>3
<1>2. /\ Len(last) = 3
      /\ last[1] = "ContinuationIn" /\ last[2] = "ContinuationOut" /\ last[3] = "Wire"
  OBVIOUS
<1>3. FillOrder = (Inputs \o Outputs) \o last
  BY DEF FillOrder
<1> HIDE DEF last
<1> DEFINE n == Len(Inputs)
           m == Len(Outputs)
<1>4. /\ FillOrder \in Seq(Types) /\ n \in Nat /\ m \in Nat
      /\ Len(FillOrder) = n + m + 3
      /\ \A k \in 1..n : FillOrder[k] = Inputs[k]
      /\ \A k \in 1..m : FillOrder[n + k] = Outputs[k]
      /\ \A k \in 1..3 : FillOrder[n + m + k] = last[k]
  <2> DEFINE both == Inputs \o Outputs
  <2>1. /\ both \in Seq(Types) /\ n \in Nat /\ m \in Nat /\ Len(both) = n + m
        /\ \A k \in 1..n : both[k] = Inputs[k]
        /\ \A k \in 1..m : both[n + k] = Outputs[k]
    BY <1>1
  <2> HIDE DEF both
  <2>2. /\ both \o last \in Seq(Types) /\ Len(both \o last) = Len(both) + 3
        /\ \A k \in 1..Len(both) : (both \o last)[k] = both[k]
        /\ \A k \in 1..3 : (both \o last)[Len(both) + k] = last[k]
    <3>1. both \in Seq(Types) /\ last \in Seq(Types) /\ Len(last) = 3 /\ Len(both) \in Nat
      BY <1>1, <1>2, <2>1
    <3>2. /\ both \o last \in Seq(Types) /\ Len(both \o last) = Len(both) + 3
          /\ \A k \in 1..(Len(both) + 3) :
               (both \o last)[k] = IF k <= Len(both) THEN both[k] ELSE last[k - Len(both)]
      <4>1. /\ both \o last \in Seq(Types) /\ Len(both \o last) = Len(both) + Len(last)
            /\ \A k \in 1..(Len(both) + Len(last)) :
                 (both \o last)[k] = IF k <= Len(both) THEN both[k] ELSE last[k - Len(both)]
        BY <3>1, ConcatProperties, Zenon
      <4> QED
        BY <3>1, <4>1
    <3>3. \A k \in 1..3 : /\ Len(both) + k \in 1..(Len(both) + 3)
                          /\ ~(Len(both) + k <= Len(both)) /\ Len(both) + k - Len(both) = k
      BY <3>1
    <3> QED
      BY <3>1, <3>2, <3>3
  <2>3. FillOrder = both \o last
    BY <1>3 DEF both
  <2> HIDE DEF n, m
  <2>4. \A k \in 1..n : k \in 1..Len(both)
    BY <2>1
  <2>5. \A k \in 1..m : n + k \in 1..Len(both)
    BY <2>1
  <2> QED
    BY <2>1, <2>2, <2>3, <2>4, <2>5
<1>5. DOMAIN FillOrder = 1..(n + m + 3)
  BY <1>4
<1>6. ASSUME NEW t \in Types
      PROVE  \E k \in DOMAIN FillOrder : FillOrder[k] = t
  <2>1. CASE t \in ToSet(Inputs)
    <3>1. PICK k \in 1..n : t = Inputs[k]
      BY <1>1, <2>1 DEF ToSet
    <3>2. k \in DOMAIN FillOrder
      BY <1>4, <1>5
    <3> QED
      BY <1>4, <3>1, <3>2
  <2>2. CASE t \in ToSet(Outputs)
    <3>1. PICK k \in 1..m : t = Outputs[k]
      BY <1>1, <2>2 DEF ToSet
    <3>2. n + k \in DOMAIN FillOrder
      BY <1>4, <1>5
    <3> QED
      BY <1>4, <3>1, <3>2
  <2>3. CASE t \in {"ContinuationIn", "ContinuationOut", "Wire"}
    <3>1. PICK k \in 1..3 : t = last[k]
      BY <1>2, <2>3
    <3>2. n + m + k \in DOMAIN FillOrder
      BY <1>4, <1>5
    <3> QED
      BY <1>4, <3>1, <3>2
  <2> QED
    BY <2>1, <2>2, <2>3 DEF Types
<1> QED
  BY <1>4, <1>6

\* A wire always, and the element itself wherever it may be.
LEMMA OfferedElements ==
  ASSUME NEW i \in DOMAIN items, NEW fitting, items[i].type \in Types
  PROVE  /\ Offered(i, fitting) \in Seq(Types)
         /\ \A k \in DOMAIN Offered(i, fitting) : Offers(i, Offered(i, fitting)[k])
         /\ DOMAIN Offered(i, fitting) # {}
         /\ Offers(i, items[i].type) =>
              \E k \in DOMAIN Offered(i, fitting) : Offered(i, fitting)[k] = items[i].type
<1> DEFINE places == {k \in DOMAIN FillOrder : /\ Offers(i, FillOrder[k])
                                               /\ FillOrder[k] \in fitting \cup {items[i].type, "Wire"}}
           r == AtPlaces(FillOrder, places)
<1>1. r = Offered(i, fitting)
  BY DEF Offered
<1>2. FillOrder \in Seq(Types) /\ DOMAIN FillOrder = 1..Len(FillOrder)
  BY FillOrderTypes
<1>3. r \in Seq(Types) /\ PickedFrom(r, FillOrder, places, Len(FillOrder))
  <2> HIDE DEF places
  <2> QED
    BY <1>2, AtPlacesElements
<1> HIDE DEF r
<1>4. DOMAIN r = 1..Len(r)
  BY <1>3
<1>5. PICK place \in [1..Len(r) -> 1..Len(FillOrder)] :
        /\ \A j \in 1..Len(r) : place[j] \in places /\ r[j] = FillOrder[place[j]]
        /\ \A k \in 1..Len(FillOrder) : k \in places => \E j \in 1..Len(r) : place[j] = k
  BY <1>3 DEF PickedFrom
<1>6. \A k \in DOMAIN r : Offers(i, r[k])
  BY <1>4, <1>5
<1>7. ASSUME NEW t \in {items[i].type, "Wire"}, Offers(i, t)
      PROVE  \E k \in DOMAIN r : r[k] = t
  <2>1. t \in Types
    BY DEF Types
  <2>2. PICK k \in DOMAIN FillOrder : FillOrder[k] = t
    BY <2>1, FillOrderTypes
  <2>3. k \in places
    BY <1>7, <2>2
  <2> HIDE DEF places
  <2> QED
    BY <1>2, <1>4, <1>5, <2>2, <2>3
<1>8. Offers(i, "Wire")
  BY DEF Offers
<1> HIDE DEF places
<1> QED
  BY <1>1, <1>3, <1>6, <1>7, <1>8

\* Each type that is offered has its place there.
LEMMA OfferedFits ==
  ASSUME items \in Seq(ElementItems), AtEnds(items), NEW e \in DOMAIN items,
         NEW t, Offers(e, t), NEW y \in Seq(ElementItems), DOMAIN y = DOMAIN items,
         y[e].type = t, \A k \in DOMAIN items : k # e => y[k].type = items[k].type
  PROVE  InPlace(y)
<1>1. DOMAIN items = 1..Len(items) /\ Len(items) \in Nat
  OBVIOUS
<1>2. IsOutput(t) => \A k \in DOMAIN items : k # e => ~IsOutput(items[k].type)
  <2> SUFFICES ASSUME IsOutput(t), NEW k \in DOMAIN items, k # e
               PROVE  ~IsOutput(items[k].type)
    OBVIOUS
  <2>1. OptionShowOutputElement(e)
    BY TypesAssumption DEF Offers, IsOutput
  <2> QED
    BY <2>1 DEF OptionShowOutputElement, HasOutputElement, AtEnds, OneOutput
<1>3. OneOutput(y)
  BY <1>2 DEF OneOutput, AtEnds
<1>4. ASSUME NEW i \in DOMAIN y, NEW j \in DOMAIN y, y[i].type = "ContinuationIn", i < j
      PROVE  y[j].type = "Wire"
  <2>1. i = e
    BY <1>1, <1>4 DEF AtEnds
  <2>2. OptionShowContinuationIn(e)
    BY <1>4, <2>1, TypesAssumption DEF Offers, IsOutput
  <2>3. j = Len(items) /\ LastType = "Wire"
    BY <1>1, <1>4, <2>1, <2>2 DEF OptionShowContinuationIn
  <2> QED
    BY <1>4, <2>1, <2>3 DEF LastType
<1>5. ASSUME NEW i \in DOMAIN y, NEW j \in DOMAIN y, y[i].type = "ContinuationOut"
      PROVE  ~(j < i)
  <2>1. CASE i # e
    <3>1. i = 1
      BY <1>5, <2>1 DEF AtEnds
    <3> QED
      BY <1>1, <3>1
  <2>2. CASE i = e
    <3>1. OptionShowContinuationOut(e)
      BY <1>5, <2>2, TypesAssumption DEF Offers, IsOutput
    <3> QED
      BY <1>1, <2>2, <3>1 DEF OptionShowContinuationOut
  <2> QED
    BY <2>1, <2>2
<1> QED
  BY <1>3, <1>4, <1>5 DEF InPlace
-----------------------------------------------------------------------------
(* The steps *)

LEMMA InsideIsInBox ==
  ASSUME NEW e, InsideInv(e)
  PROVE  InBox
<1>1. box.index \in Nat /\ box.index # 0
  BY DEF InsideInv
<1> QED
  BY <1>1 DEF InBox, NoBox

LEMMA InsideSelected ==
  ASSUME items \in Seq(ElementItems), NEW e \in DOMAIN items, InsideInv(e)
  PROVE  SelectedElement = e
<1>1. items[e].edit # "Regular"
  BY DEF InsideInv
<1> QED
  BY <1>1, SelectedIs DEF InsideInv

\* An edited network, with or without the wire.
Spaced(x) ==
  /\ x \in Seq(ElementItems) /\ Len(x) <= Room
  /\ AtEnds(x) /\ AllRegular(x) /\ OneWire(x)

LEMMA AddedSpace ==
  ASSUME NEW x \in Seq(ElementItems), Len(x) <= Room, AtEnds(x), AllRegular(x), NoWire(x),
         NEW y \in AddSpaceForNewElement(x)
  PROVE  Spaced(y)
<1>1. CASE y = x
  BY <1>1 DEF Spaced, OneWire, NoWire
<1>2. CASE y = WithWire(x) /\ Len(x) < Room
  <2>1. Len(WithWire(x)) <= Room
    <3>1. Len(x) \in Nat /\ Room \in Nat /\ Len(x) + 1 <= Room
      BY <1>2, RoomAssumption
    <3> QED
      BY <3>1, WithWireFits
  <2> QED
    BY <1>2, <2>1, WithWireFits DEF Spaced
<1> QED
  BY <1>1, <1>2 DEF AddSpaceForNewElement

LEMMA SpacedIsOutside ==
  ASSUME Spaced(items'), editing' = TRUE, box' = NoBox
  PROVE  EditingInv'
<1>1. ~InBox'
  BY DEF InBox, NoBox
<1>2. OutsideInv'
  BY DEF Spaced, OutsideInv, AllRegular, OneMarked
<1> QED
  BY <1>1, <1>2 DEF EditingInv, Spaced

LEMMA BeginEditingStep ==
  ASSUME EditingInv, BeginEditing
  PROVE  EditingInv'
<1>1. ~InBox
  BY InsideIsInBox DEF EditingInv, BeginEditing, InsideInv
<1>2. items \in Seq(ElementItems) /\ Len(items) <= Room /\ OutsideInv
  BY <1>1 DEF EditingInv
<1>3. Spaced(items')
  BY <1>2, AddedSpace DEF BeginEditing, OutsideInv
<1> QED
  BY <1>1, <1>3, SpacedIsOutside DEF BeginEditing, InBox

LEMMA SelectPriorOrNextStep ==
  ASSUME EditingInv, SelectPriorOrNext
  PROVE  EditingInv'
<1>1. items \in Seq(ElementItems) /\ Len(items) <= Room /\ OutsideInv /\ editing /\ box = NoBox
  BY DEF EditingInv, SelectPriorOrNext, InBox
<1>2. PICK j : items' = Marked(Marked(items, SelectedElement, "Regular"), j, "Selected")
  BY DEF SelectPriorOrNext
<1> DEFINE x == Marked(items, SelectedElement, "Regular")
<1>3. "Regular" \in Edits /\ "Selected" \in Edits
  BY DEF Edits
<1>4. /\ x \in Seq(ElementItems) /\ Len(x) = Len(items) /\ DOMAIN x = DOMAIN items
      /\ \A k \in DOMAIN items :
           /\ x[k].type = items[k].type
           /\ x[k].edit = IF k = SelectedElement THEN "Regular" ELSE items[k].edit
  BY <1>1, <1>3, MarkedElements
<1>5. AllRegular(x)
  <2>1. CASE SelectedElement = 0
    BY <1>1, <1>4, <2>1, SelectedIsMarked DEF AllRegular
  <2>2. CASE SelectedElement # 0
    <3>1. \A k \in DOMAIN items : k # SelectedElement => items[k].edit = "Regular"
      BY <1>1, <2>2, SelectedIsMarked DEF OutsideInv, OneMarked
    <3> QED
      BY <1>4, <3>1 DEF AllRegular
  <2> QED
    BY <2>1, <2>2
<1> HIDE DEF x
<1>6. /\ items' \in Seq(ElementItems) /\ Len(items') = Len(x) /\ DOMAIN items' = DOMAIN x
      /\ \A k \in DOMAIN x :
           /\ items'[k].type = x[k].type
           /\ items'[k].edit = IF k = j THEN "Selected" ELSE x[k].edit
  BY <1>2, <1>3, <1>4, MarkedElements DEF x
<1>7. SameTypes(items, items')
  BY <1>4, <1>6 DEF SameTypes
<1>8. AtEnds(items') /\ OneWire(items')
  BY <1>1, <1>6, <1>7, SameTypesFit DEF OutsideInv
<1>9. OneMarked(items') /\ \A k \in DOMAIN items' : items'[k].edit # "Editing"
  BY <1>5, <1>6 DEF OneMarked, AllRegular
<1>10. editing' = TRUE /\ box' = NoBox
  BY <1>1 DEF SelectPriorOrNext, EditingInv
<1>11. OutsideInv'
  BY <1>8, <1>9, <1>10 DEF OutsideInv
<1>12. ~InBox' /\ Len(items') <= Room
  BY <1>1, <1>4, <1>6, <1>10 DEF InBox, NoBox
<1> QED
  BY <1>6, <1>10, <1>11, <1>12 DEF EditingInv

LEMMA TurnedIndex ==
  ASSUME NEW n \in Nat, NEW i \in 1..n, NEW step \in {1, n - 1}
  PROVE  ((i - 1 + step) % n) + 1 \in 1..n
<1>1. i - 1 + step \in Nat /\ n > 0
  OBVIOUS
<1>2. (i - 1 + step) % n \in 0..(n - 1)
  BY <1>1
<1> QED
  BY <1>2

LEMMA TurnBoxStep ==
  ASSUME EditingInv, TurnBox
  PROVE  EditingInv'
<1>1. PICK e \in DOMAIN items : InsideInv(e)
  BY DEF EditingInv, TurnBox
<1>2. items \in Seq(ElementItems) /\ Len(items) <= Room
  BY DEF EditingInv
<1>3. SelectedElement = e
  BY <1>1, <1>2, InsideSelected
<1>4. PICK step \in {1, Len(box.offered) - 1} :
        /\ box' = [box EXCEPT !.index = Turned(step)]
        /\ items' = [items EXCEPT ![e].type = box.offered[box'.index]]
  BY <1>3 DEF TurnBox
<1>5. /\ box' = [offered |-> box.offered, index |-> box'.index, in_property |-> box.in_property]
      /\ box'.index = Turned(step)
  BY <1>1, <1>4 DEF InsideInv
<1>6. box'.index \in DOMAIN box.offered
  <2>1. Len(box.offered) \in Nat /\ DOMAIN box.offered = 1..Len(box.offered)
    BY <1>1 DEF InsideInv
  <2>2. Turned(step) \in 1..Len(box.offered)
    BY <1>1, <1>4, <2>1, TurnedIndex DEF InsideInv, Turned
  <2> QED
    BY <1>5, <2>1, <2>2
<1> DEFINE t == box.offered[box'.index]
<1>7. t \in Types
  BY <1>1, <1>6 DEF InsideInv
<1>8. /\ items' \in Seq(ElementItems) /\ Len(items') = Len(items) /\ DOMAIN items' = DOMAIN items
      /\ items'[e] = [type |-> t, edit |-> items[e].edit]
      /\ \A k \in DOMAIN items : k # e => items'[k] = items[k]
  <2> HIDE DEF t
  <2> QED
    BY <1>2, <1>4, <1>7, WithTypeElements DEF t
<1>9. ASSUME NEW k \in DOMAIN box.offered
      PROVE  [items' EXCEPT ![e].type = box.offered[k]] = [items EXCEPT ![e].type = box.offered[k]]
  <2>1. items[e] \in ElementItems /\ items'[e] \in ElementItems /\ items[e].edit = items'[e].edit
    BY <1>2, <1>8
  <2>2. [items'[e] EXCEPT !.type = box.offered[k]] = [items[e] EXCEPT !.type = box.offered[k]]
    BY <2>1 DEF ElementItems
  <2> QED
    BY <1>2, <1>8, <2>2
<1>10. box'.offered = box.offered /\ editing' = editing
  BY <1>5 DEF TurnBox
<1>11. InsideInv(e)'
  <2>1. /\ editing'
        /\ box' = [offered |-> box'.offered, index |-> box'.index, in_property |-> box'.in_property]
        /\ box'.offered \in Seq(Types) /\ box'.index \in DOMAIN box'.offered
    BY <1>1, <1>5, <1>6, <1>10 DEF InsideInv
  <2>2. items'[e] = [type |-> box'.offered[box'.index], edit |-> "Editing"]
    BY <1>1, <1>8, <1>10 DEF InsideInv
  <2>3. \A i \in DOMAIN items' : i # e => items'[i].edit = "Regular"
    BY <1>1, <1>8 DEF InsideInv
  <2>4. \A i, j \in DOMAIN items' :
          i # e /\ j # e /\ items'[i].type = "Wire" /\ items'[j].type = "Wire" => i = j
    BY <1>1, <1>8 DEF InsideInv
  <2>5. \A k \in DOMAIN box'.offered : InPlace([items' EXCEPT ![e].type = box'.offered[k]])
    BY <1>1, <1>9, <1>10 DEF InsideInv
  <2> QED
    BY <2>1, <2>2, <2>3, <2>4, <2>5 DEF InsideInv
<1>12. InBox'
  <2>1. box'.index \in Nat /\ box'.index # 0
    BY <1>1, <1>6 DEF InsideInv
  <2> QED
    BY <2>1 DEF InBox, NoBox
<1>13. editing' \in BOOLEAN
  BY <1>10 DEF EditingInv
<1> QED
  BY <1>2, <1>8, <1>11, <1>12, <1>13 DEF EditingInv

LEMMA OpenElementStep ==
  ASSUME EditingInv, OpenElement
  PROVE  EditingInv'
<1>0. PICK e : e = SelectedElement
  OBVIOUS
<1>1. items \in Seq(ElementItems) /\ Len(items) <= Room /\ OutsideInv /\ editing
  BY DEF EditingInv, OpenElement
<1>2. e \in DOMAIN items /\ items[e].edit # "Regular"
  BY <1>0, <1>1, SelectedIsMarked DEF OpenElement
<1>3. \A i \in DOMAIN items : i # e => items[i].edit = "Regular"
  BY <1>1, <1>2 DEF OutsideInv, OneMarked
<1>4. PICK fitting \in SUBSET Types : OpenBox(e, fitting)
  BY <1>0 DEF OpenElement
<1> DEFINE offered == Offered(e, fitting)
           own == SelectInSeq(offered, LAMBDA t : t = items[e].type)
           index == IF own = 0 THEN 1 ELSE own
<1>5. items[e].type \in Types
  <2>1. items[e] \in ElementItems
    BY <1>1, <1>2
  <2> QED
    BY <2>1 DEF ElementItems
<1>6. /\ offered \in Seq(Types) /\ DOMAIN offered # {}
      /\ \A k \in DOMAIN offered : Offers(e, offered[k])
  BY <1>2, <1>5, OfferedElements
<1>7. /\ box' = [offered |-> offered, index |-> index, in_property |-> FALSE]
      /\ items' = [items EXCEPT ![e] = [type |-> offered[index], edit |-> "Editing"]]
  BY <1>4 DEF OpenBox
<1> HIDE DEF offered
<1>8. index \in DOMAIN offered
  <2> DEFINE I == {i \in 1..Len(offered) : offered[i] = items[e].type}
  <2>1. own = IF I # {} THEN Min(I) ELSE 0
    BY DEF SelectInSeq
  <2>2. I \subseteq 1..Len(offered) /\ I \subseteq Nat /\ DOMAIN offered = 1..Len(offered)
    BY <1>6
  <2> HIDE DEF I, own
  <2>3. CASE I = {}
    BY <1>6, <2>1, <2>2, <2>3
  <2>4. CASE I # {}
    <3>1. own \in I
      BY <2>1, <2>2, <2>4, MinOfIndices
    <3>2. own \in 1..Len(offered)
      BY <2>2, <3>1
    <3> QED
      BY <2>2, <3>2
  <2> QED
    BY <2>3, <2>4
<1> HIDE DEF index
<1>9. offered[index] \in Types
  BY <1>6, <1>8
<1> DEFINE new == [type |-> offered[index], edit |-> "Editing"]
<1>10. new \in ElementItems
  BY <1>9 DEF ElementItems, Edits
<1>11. /\ items' \in Seq(ElementItems) /\ Len(items') = Len(items) /\ DOMAIN items' = DOMAIN items
       /\ items'[e] = new /\ \A k \in DOMAIN items : k # e => items'[k] = items[k]
  <2> HIDE DEF new
  <2> QED
    BY <1>1, <1>2, <1>7, <1>10 DEF new
<1>12. ASSUME NEW k \in DOMAIN offered
       PROVE  InPlace([items' EXCEPT ![e].type = offered[k]])
  <2> DEFINE y == [items' EXCEPT ![e].type = offered[k]]
  <2>1. offered[k] \in Types /\ Offers(e, offered[k])
    BY <1>6
  <2>2. /\ y \in Seq(ElementItems) /\ DOMAIN y = DOMAIN items'
        /\ y[e] = [type |-> offered[k], edit |-> items'[e].edit]
        /\ \A j \in DOMAIN items' : j # e => y[j] = items'[j]
    <3> HIDE DEF new
    <3> QED
      BY <1>2, <1>11, <2>1, WithTypeElements
  <2> HIDE DEF y
  <2>3. y[e].type = offered[k] /\ \A j \in DOMAIN items : j # e => y[j].type = items[j].type
    BY <1>11, <2>2
  <2> QED
    BY <1>1, <1>2, <1>11, <2>1, <2>2, <2>3, OfferedFits DEF OutsideInv, y
<1>13. InsideInv(e)'
  <2>1. editing' /\ box'.offered = offered /\ box'.index = index /\ box'.in_property = FALSE
    BY <1>1, <1>7 DEF OpenElement
  <2>2. items'[e] = [type |-> box'.offered[box'.index], edit |-> "Editing"]
    BY <1>11, <2>1
  <2>3. \A i \in DOMAIN items' : i # e => items'[i].edit = "Regular"
    BY <1>3, <1>11
  <2>4. \A i, j \in DOMAIN items' :
          i # e /\ j # e /\ items'[i].type = "Wire" /\ items'[j].type = "Wire" => i = j
    BY <1>1, <1>11 DEF OutsideInv, OneWire
  <2>5. /\ box' = [offered |-> box'.offered, index |-> box'.index, in_property |-> box'.in_property]
        /\ box'.offered \in Seq(Types) /\ box'.index \in DOMAIN box'.offered
    BY <1>6, <1>7, <1>8, <2>1
  <2>6. \A k \in DOMAIN box'.offered : InPlace([items' EXCEPT ![e].type = box'.offered[k]])
    BY <1>12, <2>1
  <2> QED
    BY <2>1, <2>2, <2>3, <2>4, <2>5, <2>6 DEF InsideInv
<1>14. InBox'
  <2>1. index \in Nat /\ index # 0 /\ box'.index = index
    BY <1>6, <1>7, <1>8
  <2> QED
    BY <2>1 DEF InBox, NoBox
<1>15. editing' \in BOOLEAN
  BY DEF EditingInv, OpenElement
<1> QED
  BY <1>1, <1>2, <1>11, <1>13, <1>14, <1>15 DEF EditingInv

LEMMA EditPropertyStep ==
  ASSUME EditingInv, EditProperty
  PROVE  EditingInv'
<1>1. PICK e \in DOMAIN items : InsideInv(e)
  BY DEF EditingInv, EditProperty
<1>2. /\ box' = [offered |-> box.offered, index |-> box.index, in_property |-> TRUE]
      /\ items' = items /\ editing' = editing
  BY <1>1 DEF InsideInv, EditProperty
<1>3. box'.offered = box.offered /\ box'.index = box.index /\ box'.in_property = TRUE
  BY <1>2
<1>4. InsideInv(e)'
  BY <1>1, <1>2, <1>3 DEF InsideInv
<1>5. InBox'
  <2>1. box'.index \in Nat /\ box'.index # 0
    BY <1>1, <1>3 DEF InsideInv
  <2> QED
    BY <2>1 DEF InBox, NoBox
<1> QED
  BY <1>2, <1>4, <1>5 DEF EditingInv

LEMMA CompleteElementStep ==
  ASSUME EditingInv, CompleteElement
  PROVE  EditingInv'
<1>1. PICK e \in DOMAIN items : InsideInv(e)
  BY DEF EditingInv, CompleteElement
<1>2. items \in Seq(ElementItems) /\ Len(items) <= Room
  BY DEF EditingInv
<1>3. SelectedElement = e
  BY <1>1, <1>2, InsideSelected
<1> DEFINE x == [items EXCEPT ![e].edit = "Regular"]
<1>4. items' \in AddSpaceForNewElement(Solid(x)) /\ box' = NoBox /\ editing' = TRUE
  BY <1>1, <1>3 DEF CompleteElement, CloseBox, RemoveSpaceForNewElement, InsideInv, EditingInv
<1>5. /\ x \in Seq(ElementItems) /\ Len(x) = Len(items) /\ DOMAIN x = DOMAIN items
      /\ \A k \in DOMAIN items :
           /\ x[k].type = items[k].type
           /\ x[k].edit = IF k = e THEN "Regular" ELSE items[k].edit
  <2>1. x = Marked(items, e, "Regular")
    BY DEF Marked
  <2> HIDE DEF x
  <2> QED
    BY <1>2, <2>1, MarkedElements DEF Edits
<1> HIDE DEF x
<1>6. AllRegular(x)
  BY <1>1, <1>5 DEF AllRegular, InsideInv
<1>7. InPlace(x)
  <2> DEFINE t == box.offered[box.index]
             y == [items EXCEPT ![e].type = t]
  <2>1. InPlace(y) /\ t \in Types /\ items[e].type = t
    BY <1>1 DEF InsideInv
  <2>2. /\ y \in Seq(ElementItems) /\ Len(y) = Len(items) /\ DOMAIN y = DOMAIN items
        /\ y[e] = [type |-> t, edit |-> items[e].edit]
        /\ \A k \in DOMAIN items : k # e => y[k] = items[k]
    <3> HIDE DEF t
    <3> QED
      BY <1>2, <2>1, WithTypeElements
  <2> HIDE DEF y, t
  <2>3. SameTypes(y, x)
    BY <1>5, <2>1, <2>2 DEF SameTypes
  <2> QED
    BY <1>5, <2>1, <2>2, <2>3, SameTypesFit
<1>8. /\ Solid(x) \in Seq(ElementItems) /\ Len(Solid(x)) <= Room
      /\ AtEnds(Solid(x)) /\ AllRegular(Solid(x)) /\ NoWire(Solid(x))
  <2>1. Solid(x) \in Seq(ElementItems) /\ Len(Solid(x)) <= Len(x)
    BY <1>5, SolidElements
  <2>2. Len(Solid(x)) \in Nat /\ Len(x) \in Nat /\ Len(x) <= Room /\ Room \in Nat
    BY <1>2, <1>5, <2>1, RoomAssumption
  <2>3. Len(Solid(x)) <= Room
    BY <2>1, <2>2
  <2> QED
    BY <1>5, <1>6, <1>7, <2>1, <2>3, SolidFits
<1>9. Spaced(items')
  BY <1>4, <1>8, AddedSpace
<1> QED
  BY <1>4, <1>9, SpacedIsOutside

LEMMA EndEditingStep ==
  ASSUME EditingInv, EndEditing
  PROVE  EditingInv'
<1>1. items \in Seq(ElementItems) /\ Len(items) <= Room /\ OutsideInv
  BY DEF EditingInv, EndEditing
<1>2. AllRegular(items) /\ InPlace(items)
  BY <1>1, SelectedIsMarked, EndsAreInPlace DEF EndEditing, OutsideInv
<1>3. items' = Solid(items) /\ editing' = FALSE /\ box' = box
  BY DEF EndEditing, RemoveSpaceForNewElement
<1>4. /\ items' \in Seq(ElementItems) /\ Len(items') <= Len(items)
      /\ AtEnds(items') /\ AllRegular(items') /\ NoWire(items')
  BY <1>1, <1>2, <1>3, SolidElements, SolidFits
<1>5. Len(items') <= Room
  <2>1. Len(items') \in Nat /\ Len(items) \in Nat /\ Room \in Nat
    BY <1>1, <1>4, RoomAssumption
  <2> QED
    BY <1>1, <1>4, <2>1
<1>6. OutsideInv'
  BY <1>4 DEF OutsideInv, AllRegular, OneMarked, NoWire, OneWire
<1>7. ~InBox'
  BY <1>3 DEF EndEditing, InBox
<1> QED
  BY <1>3, <1>4, <1>5, <1>6, <1>7 DEF EditingInv

LEMMA EditingStep ==
  ASSUME EditingInv, [Next]_vars
  PROVE  EditingInv'
<1>1. CASE UNCHANGED vars
  <2>1. items' = items /\ editing' = editing /\ box' = box
    BY <1>1 DEF vars
  <2>2. OutsideInv => OutsideInv'
    BY <2>1 DEF OutsideInv
  <2>3. \A e : InsideInv(e) => InsideInv(e)'
    BY <2>1 DEF InsideInv
  <2> QED
    BY <2>1, <2>2, <2>3 DEF EditingInv, InBox
<1>2. CASE Next
  BY <1>2, BeginEditingStep, SelectPriorOrNextStep, TurnBoxStep, OpenElementStep,
     EditPropertyStep, CompleteElementStep, EndEditingStep DEF Next
<1> QED
  BY <1>1, <1>2

LEMMA EditingInit == Init => EditingInv
<1> SUFFICES ASSUME Init
             PROVE  EditingInv
  OBVIOUS
<1>1. items = <<>> /\ editing = FALSE /\ ~InBox
  BY DEF Init, InBox
<1>2. Len(items) = 0 /\ items \in Seq(ElementItems) /\ DOMAIN items = {}
  BY <1>1
<1>3. OutsideInv
  BY <1>1, <1>2 DEF OutsideInv, OneMarked, OneWire, AtEnds, OneOutput, AllRegular, NoWire
<1>4. Len(items) <= Room
  BY <1>2, RoomAssumption
<1> QED
  BY <1>1, <1>2, <1>3, <1>4 DEF EditingInv

LEMMA EditingInvariant == Spec => []EditingInv
BY EditingInit, EditingStep, PTL DEF Spec
LEMMA OneAtMost ==
  ASSUME NEW I, \A i, j \in I : i = j
  PROVE  Cardinality(I) <= 1
<1>1. CASE I = {}
  BY <1>1, FS_EmptySet
<1>2. CASE I # {}
  <2>1. PICK i \in I : I = {i}
    BY <1>2
  <2> QED
    BY <2>1, FS_Singleton
<1> QED
  BY <1>1, <1>2

LEMMA OpenedAsItIs ==
  ASSUME EditingInv, OpenElement, NEW i \in DOMAIN items,
         items[i].edit = "Selected", items'[i].edit = "Editing"
  PROVE  \/ items'[i].type = items[i].type
         \/ IsOutput(items[i].type) /\ LastType = "ContinuationIn"
<1>1. items \in Seq(ElementItems) /\ OutsideInv
  BY DEF EditingInv, OpenElement
<1>2. SelectedElement = i
  BY <1>1, SelectedIsMarked DEF OpenElement, OutsideInv, OneMarked
<1>3. PICK fitting \in SUBSET Types : OpenBox(i, fitting)
  BY <1>2 DEF OpenElement
<1> DEFINE offered == Offered(i, fitting)
           own == SelectInSeq(offered, LAMBDA t : t = items[i].type)
           index == IF own = 0 THEN 1 ELSE own
<1>4. items[i].type \in Types
  <2>1. items[i] \in ElementItems
    BY <1>1
  <2> QED
    BY <2>1 DEF ElementItems
<1>5. items'[i].type = offered[index]
  BY <1>1, <1>3 DEF OpenBox
<1>6. CASE ~Offers(i, items[i].type)
  <2>1. IsOutput(items[i].type)
    BY <1>1, <1>4, <1>6 DEF Offers, Types, IsOutput, OutsideInv, AtEnds,
       OptionShowContinuationIn, OptionShowContinuationOut
  <2> QED
    BY <1>6, <2>1 DEF Offers, OptionShowOutputElement
<1>7. CASE Offers(i, items[i].type)
  <2> DEFINE I == {k \in 1..Len(offered) : offered[k] = items[i].type}
  <2>1. offered \in Seq(Types) /\ \E k \in DOMAIN offered : offered[k] = items[i].type
    BY <1>4, <1>7, OfferedElements
  <2>2. own = IF I # {} THEN Min(I) ELSE 0
    BY DEF SelectInSeq
  <2> HIDE DEF offered, own
  <2>3. I # {} /\ I \subseteq Nat /\ 0 \notin I /\ \A k \in I : offered[k] = items[i].type
    BY <2>1
  <2> HIDE DEF I
  <2>4. own \in I
    BY <2>2, <2>3, MinOfIndices
  <2> QED
    BY <1>5, <2>3, <2>4
<1> QED
  BY <1>6, <1>7
-----------------------------------------------------------------------------
(* Theorems *)

\* Every variable has its type, and the box shows one of its elements in the
\* place of the one that is edited, however it was turned: a turn stays inside of
\* what the box offers, and the element that is edited stays the selected one.
THEOREM EditingTyped == Spec => []TypeOK
<1>1. ASSUME EditingInv
      PROVE  TypeOK
  <2>1. items \in Seq([type : Types, edit : {"Regular", "Selected", "Editing"}])
    BY <1>1 DEF EditingInv, ElementItems, Edits
  <2>2. ASSUME InBox
        PROVE  /\ box.index \in DOMAIN box.offered
               /\ items[SelectedElement] = [type |-> box.offered[box.index], edit |-> "Editing"]
    <3>1. PICK e \in DOMAIN items : InsideInv(e)
      BY <1>1, <2>2 DEF EditingInv
    <3>2. SelectedElement = e
      BY <1>1, <3>1, InsideSelected DEF EditingInv
    <3> QED
      BY <3>1, <3>2 DEF InsideInv
  <2> QED
    BY <1>1, <2>1, <2>2 DEF TypeOK, EditingInv
<1> QED
  BY <1>1, EditingInvariant, PTL

\* At most one element that is edited and one wire that makes space, and none of
\* them when the editing has ended.
THEOREM EditingEndsClean == Spec => []EndsClean
<1> DEFINE edited == {i \in DOMAIN items : items[i].edit # "Regular"}
           wires == {i \in DOMAIN items : items[i] = [type |-> "Wire", edit |-> "Regular"]}
<1>1. ASSUME EditingInv
      PROVE  EndsClean
  <2>1. \A i, j \in edited : i = j
    BY <1>1 DEF EditingInv, OutsideInv, OneMarked, InsideInv
  <2>2. \A i, j \in wires : i = j
    <3>1. CASE InBox
      <4>1. PICK e \in DOMAIN items : InsideInv(e)
        BY <1>1, <3>1 DEF EditingInv
      <4>2. items[e].edit = "Editing"
        BY <4>1 DEF InsideInv
      <4>3. \A i \in wires : i # e /\ i \in DOMAIN items /\ items[i].type = "Wire"
        BY <4>2
      <4> HIDE DEF wires
      <4> QED
        BY <4>1, <4>3 DEF InsideInv
    <3>2. CASE ~InBox
      <4>1. \A i \in wires : i \in DOMAIN items /\ items[i].type = "Wire"
        OBVIOUS
      <4> HIDE DEF wires
      <4> QED
        BY <1>1, <3>2, <4>1 DEF EditingInv, OutsideInv, OneWire
    <3> QED
      BY <3>1, <3>2
  <2>3. ASSUME ~editing
        PROVE  edited = {} /\ wires = {}
    <3>1. OutsideInv /\ AllRegular(items) /\ NoWire(items)
      BY <1>1, <2>3 DEF EditingInv, InsideInv, OutsideInv
    <3> QED
      BY <3>1 DEF AllRegular, NoWire
  <2>4. EditedCount = Cardinality(edited) /\ WiresCount = Cardinality(wires)
    BY DEF EditedCount, WiresCount
  <2> HIDE DEF edited, wires
  <2>5. EditedCount <= 1 /\ WiresCount <= 1
    BY <2>1, <2>2, <2>4, OneAtMost
  <2>6. ~editing => EditedCount = 0 /\ WiresCount = 0
    BY <2>3, <2>4, FS_EmptySet
  <2> QED
    BY <2>5, <2>6 DEF EndsClean
<1> QED
  BY <1>1, EditingInvariant, PTL

\* Whatever single elements were replaced, the network has one output at most, a
\* ContinuationIn at its end only and a ContinuationOut at its beginning only.
THEOREM EditingEndsInPlace == Spec => []EndsInPlace
<1>1. ASSUME EditingInv
      PROVE  EndsInPlace
  <2> SUFFICES ASSUME ~InBox
               PROVE  AtEnds(Solid(items))
    BY DEF EndsInPlace, AtEnds, OneOutput
  <2>1. items \in Seq(ElementItems) /\ InPlace(items)
    BY <1>1, EndsAreInPlace DEF EditingInv, OutsideInv
  <2> QED
    BY <2>1, SolidAtEnds
<1> QED
  BY <1>1, EditingInvariant, PTL

\* Opening an element shows that element and deletes nothing, but for an output
\* that is before a ContinuationIn.
THEOREM EditingOpensAsItIs == Spec => OpensAsItIs
<1> DEFINE Opens(i) ==
      items[i].edit = "Selected" /\ items'[i].edit = "Editing"
        => \/ items'[i].type = items[i].type
           \/ IsOutput(items[i].type) /\ LastType = "ContinuationIn"
<1>1. ASSUME EditingInv, [Next]_vars, NEW i \in DOMAIN items \cap DOMAIN items'
      PROVE  Opens(i)
  <2> SUFFICES ASSUME items[i].edit = "Selected", items'[i].edit = "Editing"
               PROVE  \/ items'[i].type = items[i].type
                      \/ IsOutput(items[i].type) /\ LastType = "ContinuationIn"
    OBVIOUS
  <2>1. EditingInv'
    BY <1>1, EditingStep
  <2>2. ~InBox
    BY <1>1 DEF EditingInv, InsideInv
  <2>3. InBox'
    BY <2>1 DEF EditingInv, OutsideInv
  <2>4. OpenElement
    BY <1>1, <2>2, <2>3 DEF Next, vars, BeginEditing, SelectPriorOrNext, TurnBox, EditProperty,
       CompleteElement, EndEditing, InBox
  <2> QED
    BY <1>1, <2>4, OpenedAsItIs
<1>2. ASSUME EditingInv, [Next]_vars
      PROVE  [\A i \in DOMAIN items \cap DOMAIN items' :
                items[i].edit = "Selected" /\ items'[i].edit = "Editing"
                  => \/ items'[i].type = items[i].type
                     \/ IsOutput(items[i].type) /\ LastType = "ContinuationIn"]_vars
  BY <1>1, <1>2
<1> QED
  BY <1>2, EditingInvariant, PTL DEF Spec, OpensAsItIs
=============================================================================
