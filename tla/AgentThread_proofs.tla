-------------------------- MODULE AgentThread_proofs --------------------------
(***************************************************************************)
(* The feed of an open Agent tab, for every Thread, every history, any     *)
(* number of requests, lost connections and late answers: its index finds  *)
(* the blocks, an artifact is shown once, an approval that was resolved is *)
(* not asked for again, and no answer is left open by the end of a Turn.   *)
(***************************************************************************)
EXTENDS AgentThread, FiniteSetTheorems, SequenceTheorems, WellFoundedInduction, TLAPS

----------------------------------------------------------------------------
(* Recursive functions.  What the library states of an operator is stated here *)
(* of a set of numbers.                                                        *)

LEMMA Least ==
  ASSUME NEW set \in SUBSET Nat, set # {}
  PROVE  \E m \in set : \A n \in Nat : n < m => n \notin set
<1> DEFINE less == {ss \in Nat \X Nat : ss[1] < ss[2]}
<1>1. IsWellFoundedOn(less, Nat)
  BY NatLessThanWellFounded DEF OpToRel
<1>2. \A m, n \in Nat : n < m => <<n, m>> \in less
  OBVIOUS
<1> HIDE DEF less
<1>3. PICK m \in set : \A n \in set : <<n, m>> \notin less
  BY <1>1, WFMin
<1>4. QED BY <1>2, <1>3

LEMMA Induct ==
  ASSUME NEW n \in Nat, NEW good, 0 \in good, \A i \in 1..n : i - 1 \in good => i \in good
  PROVE  \A i \in 0..n : i \in good
<1> DEFINE bad == {i \in 0..n : i \notin good}
<1>1. SUFFICES ASSUME bad # {} PROVE FALSE
  OBVIOUS
<1>2. bad \in SUBSET Nat
  OBVIOUS
<1>3. PICK m \in bad : \A i \in Nat : i < m => i \notin bad
  <2> HIDE DEF bad
  <2>1. QED BY <1>1, <1>2, Least
<1>4. m \in 0..n /\ m \notin good /\ m # 0
  BY <1>3
<1>5. m \in 1..n /\ m - 1 \in Nat /\ m - 1 \in 0..n /\ m - 1 < m
  BY <1>4
<1>6. m - 1 \in good
  BY <1>3, <1>5
<1>7. QED BY <1>4, <1>5, <1>6

\* f is what n steps make of base.
Recurs(f, n, V, base, step) ==
  f \in [0..n -> V] /\ f[0] = base /\ \A i \in 1..n : f[i] = step[<<i, f[i - 1]>>]

LEMMA Recursion ==
  ASSUME NEW n \in Nat, NEW V, NEW base \in V, NEW step \in [(1..n) \X V -> V]
  PROVE  \E f : Recurs(f, n, V, base, step)
<1> DEFINE Upto(f, k) == f \in [0..k -> V] /\ f[0] = base /\ \A i \in 1..k : f[i] = step[<<i, f[i - 1]>>]
           good == {k \in 0..n : \E f : Upto(f, k)}
<1>1. 0 \in good
  <2>1. Upto([i \in 0..0 |-> base], 0)
    OBVIOUS
  <2> HIDE DEF Upto
  <2>2. QED BY <2>1
<1>2. ASSUME NEW k \in 1..n, k - 1 \in good PROVE k \in good
  <2>1. PICK g : Upto(g, k - 1)
    BY <1>2
  <2> DEFINE last == step[<<k, g[k - 1]>>]
             f == [i \in 0..k |-> IF i = k THEN last ELSE g[i]]
  <2>2. k - 1 \in 0..(k - 1) /\ k # 0 /\ 0 \in 0..(k - 1) /\ k \in 0..n
    OBVIOUS
  <2>3. g[k - 1] \in V /\ last \in V
    BY <2>1, <2>2
  <2>4. f \in [0..k -> V]
    <3>1. \A i \in 0..k : i # k => i \in 0..(k - 1)
      OBVIOUS
    <3> HIDE DEF last
    <3>2. QED BY <2>1, <2>3, <3>1
  <2>5. f[0] = base /\ f[k] = last /\ f[k - 1] = g[k - 1]
    BY <2>1, <2>2
  <2>6. ASSUME NEW i \in 1..k, i # k PROVE f[i] = step[<<i, f[i - 1]>>]
    <3>1. i \in 1..(k - 1) /\ i \in 0..k /\ i - 1 \in 0..k /\ i - 1 # k
      BY <2>6
    <3>2. g[i] = step[<<i, g[i - 1]>>]
      BY <2>1, <3>1
    <3>3. f[i] = g[i] /\ f[i - 1] = g[i - 1]
      BY <2>6, <3>1
    <3>4. QED BY <3>2, <3>3
  <2> HIDE DEF f
  <2>7. Upto(f, k)
    BY <2>4, <2>5, <2>6
  <2> HIDE DEF Upto
  <2>8. QED BY <2>2, <2>7
<1>3. n \in good
  <2> HIDE DEF good
  <2>1. \A i \in 0..n : i \in good
    BY <1>1, <1>2, Induct
  <2>2. QED BY <2>1
<1>4. QED BY <1>3 DEF Recurs

----------------------------------------------------------------------------
(* Sequences.                                                                  *)

LEMMA Appended ==
  ASSUME NEW X, NEW s \in Seq(X), NEW e \in X
  PROVE  /\ Append(s, e) \in Seq(X) /\ Len(Append(s, e)) = Len(s) + 1
         /\ DOMAIN s = 1..Len(s) /\ Len(s) \in Nat
         /\ DOMAIN Append(s, e) = 1..(Len(s) + 1)
         /\ \A i \in 1..Len(s) : Append(s, e)[i] = s[i]
         /\ Append(s, e)[Len(s) + 1] = e
BY AppendProperties

(* all is one and then other.                                                  *)
Chained(one, other, all) ==
  /\ DOMAIN one = 1..Len(one) /\ DOMAIN other = 1..Len(other) /\ Len(one) \in Nat /\ Len(other) \in Nat
  /\ DOMAIN all = 1..(Len(one) + Len(other)) /\ Len(all) = Len(one) + Len(other)
  /\ \A i \in 1..(Len(one) + Len(other)) : all[i] = IF i <= Len(one) THEN one[i] ELSE other[i - Len(one)]

LEMMA Joined ==
  ASSUME NEW X, NEW one \in Seq(X), NEW other \in Seq(X)
  PROVE  one \o other \in Seq(X) /\ Chained(one, other, one \o other)
<1> DEFINE all == one \o other
<1>1. /\ all \in Seq(X) /\ Len(all) = Len(one) + Len(other)
      /\ \A i \in 1..(Len(one) + Len(other)) : all[i] = IF i <= Len(one) THEN one[i] ELSE other[i - Len(one)]
  BY ConcatProperties
<1> HIDE DEF all
<1>2. all \in Seq(X) /\ Chained(one, other, all)
  BY <1>1 DEF Chained
<1>3. QED BY <1>2 DEF all

(* s with e put in before place i.                                             *)
PutBefore(s, i, e, all) ==
  /\ DOMAIN all = 1..(Len(s) + 1) /\ Len(s) \in Nat
  /\ \A j \in 1..(Len(s) + 1) : all[j] = IF j < i THEN s[j] ELSE IF j = i THEN e ELSE s[j - 1]

LEMMA Inserted ==
  ASSUME NEW X, NEW s \in Seq(X), NEW e \in X, NEW i \in 1..(Len(s) + 1)
  PROVE  InsertAt(s, i, e) \in Seq(X) /\ PutBefore(s, i, e, InsertAt(s, i, e))
<1> DEFINE front == SubSeq(s, 1, i - 1)
           back == SubSeq(s, i, Len(s))
           one == <<e>>
<1>1. Len(s) \in Nat /\ i \in Nat /\ i >= 1 /\ i <= Len(s) + 1 /\ DOMAIN s = 1..Len(s)
  OBVIOUS
<1>2. /\ front \in Seq(X) /\ Len(front) = i - 1 /\ \A j \in 1..(i - 1) : front[j] = s[j]
      /\ back \in Seq(X) /\ Len(back) = Len(s) - i + 1
      /\ \A j \in 1..(Len(s) - i + 1) : back[j] = s[j + i - 1]
  BY <1>1
<1>3. one \in Seq(X) /\ Len(one) = 1 /\ one[1] = e
  OBVIOUS
<1>4. InsertAt(s, i, e) = (front \o one) \o back
  BY DEF InsertAt
<1> HIDE DEF front, back, one
<1> DEFINE head == front \o one
           all == head \o back
<1>5. head \in Seq(X) /\ Len(head) = i /\ \A j \in 1..i : head[j] = IF j <= i - 1 THEN front[j] ELSE one[j - (i - 1)]
  <2>1. head \in Seq(X) /\ Chained(front, one, head)
    BY <1>2, <1>3, Joined
  <2>2. Len(front) = i - 1 /\ Len(front) + Len(one) = i
    BY <1>1, <1>2, <1>3
  <2> HIDE DEF head
  <2>3. QED BY <2>1, <2>2 DEF Chained
<1> HIDE DEF head
<1>6. /\ all \in Seq(X) /\ DOMAIN all = 1..(Len(s) + 1)
      /\ \A j \in 1..(Len(s) + 1) : all[j] = IF j <= i THEN head[j] ELSE back[j - i]
  <2>1. all \in Seq(X) /\ Chained(head, back, all)
    BY <1>2, <1>5, Joined
  <2>2. Len(head) = i /\ Len(head) + Len(back) = Len(s) + 1
    BY <1>1, <1>2, <1>5
  <2> HIDE DEF all
  <2>3. QED BY <2>1, <2>2 DEF Chained
<1> HIDE DEF all
<1>7. ASSUME NEW j \in 1..(Len(s) + 1)
      PROVE  all[j] = IF j < i THEN s[j] ELSE IF j = i THEN e ELSE s[j - 1]
  <2>1. CASE j < i
    <3>1. j \in 1..i /\ j \in 1..(i - 1) /\ j <= i - 1 /\ j <= i
      BY <1>1, <2>1
    <3>2. all[j] = head[j] /\ head[j] = front[j] /\ front[j] = s[j]
      BY <1>2, <1>5, <1>6, <3>1
    <3>3. QED BY <2>1, <3>2
  <2>2. CASE j = i
    <3>1. j \in 1..i /\ ~(j <= i - 1) /\ j <= i /\ j - (i - 1) = 1
      BY <1>1, <2>2
    <3>2. all[j] = head[j] /\ head[j] = one[1]
      BY <1>5, <1>6, <3>1
    <3>3. QED BY <1>1, <1>3, <2>2, <3>2
  <2>3. CASE j > i
    <3>1. ~(j <= i) /\ j - i \in 1..(Len(s) - i + 1) /\ (j - i) + i - 1 = j - 1
      BY <1>1, <2>3
    <3>2. all[j] = back[j - i] /\ back[j - i] = s[j - 1]
      BY <1>2, <1>6, <3>1
    <3>3. ~(j < i) /\ j # i
      BY <1>1, <2>3
    <3>4. QED BY <3>2, <3>3
  <2>4. QED BY <1>1, <2>1, <2>2, <2>3
<1>8. InsertAt(s, i, e) = all
  BY <1>4 DEF head, all
<1>9. QED BY <1>1, <1>6, <1>7, <1>8 DEF PutBefore

----------------------------------------------------------------------------
(* The order in which blocks are shown.                                        *)

Distinct(s) == \A i, j \in DOMAIN s : s[i] = s[j] => i = j

LEMMA AtPlace ==
  ASSUME NEW f
  PROVE  /\ \A i \in DOMAIN f : f[i] \in Range(f)
         /\ \A e \in Range(f) : \E i \in DOMAIN f : f[i] = e
BY DEF Range

LEMMA EmptyOrder ==
  ASSUME NEW X
  PROVE  <<>> \in Seq(X) /\ Distinct(<<>>) /\ Range(<<>>) = {}
<1>1. DOMAIN <<>> = {}
  OBVIOUS
<1>2. QED BY <1>1 DEF Distinct, Range

LEMMA AppendedOnce ==
  ASSUME NEW X, NEW s \in Seq(X), Distinct(s), NEW e \in X, e \notin Range(s)
  PROVE  Append(s, e) \in Seq(X) /\ Distinct(Append(s, e)) /\ Range(Append(s, e)) = Range(s) \cup {e}
<1> DEFINE all == Append(s, e)
           n == Len(s)
<1>1. /\ all \in Seq(X) /\ DOMAIN s = 1..n /\ n \in Nat /\ DOMAIN all = 1..(n + 1)
      /\ \A i \in 1..n : all[i] = s[i]
      /\ all[n + 1] = e
  BY Appended
<1> HIDE DEF all, n
<1>2. \A i \in 1..(n + 1) : i \in 1..n \/ i = n + 1
  BY <1>1
<1>3. \A i \in 1..n : all[i] # e
  BY <1>1, AtPlace
<1>4. Distinct(all)
  BY <1>1, <1>2, <1>3 DEF Distinct
<1>5. Range(all) = Range(s) \cup {e}
  <2>1. \A x \in Range(all) : x \in Range(s) \cup {e}
    BY <1>1, <1>2, AtPlace
  <2>2. \A x \in Range(s) : x \in Range(all)
    <3>1. \A i \in 1..n : i \in 1..(n + 1)
      BY <1>1
    <3>2. QED BY <1>1, <3>1, AtPlace
  <2>3. e \in Range(all)
    <3>1. n + 1 \in 1..(n + 1)
      BY <1>1
    <3>2. QED BY <1>1, <3>1, AtPlace
  <2>4. QED BY <2>1, <2>2, <2>3
<1>6. QED BY <1>1, <1>4, <1>5 DEF all

LEMMA InsertedOnce ==
  ASSUME NEW X, NEW s \in Seq(X), Distinct(s), NEW e \in X, e \notin Range(s), NEW k \in DOMAIN s
  PROVE  InsertAt(s, k, e) \in Seq(X) /\ Distinct(InsertAt(s, k, e)) /\ Range(InsertAt(s, k, e)) = Range(s) \cup {e}
<1> DEFINE all == InsertAt(s, k, e)
           n == Len(s)
<1>1. n \in Nat /\ DOMAIN s = 1..n /\ k \in 1..n /\ k \in 1..(n + 1)
  OBVIOUS
<1>2. /\ all \in Seq(X) /\ DOMAIN all = 1..(n + 1)
      /\ \A j \in 1..(n + 1) : all[j] = IF j < k THEN s[j] ELSE IF j = k THEN e ELSE s[j - 1]
  <2>1. k \in 1..(Len(s) + 1)
    BY <1>1
  <2>2. all \in Seq(X) /\ PutBefore(s, k, e, all)
    BY <2>1, Inserted
  <2> HIDE DEF all
  <2>3. QED BY <2>2 DEF PutBefore
<1> HIDE DEF all, n
<1>3. \A i \in 1..n : s[i] # e
  BY <1>1, AtPlace
\* Where a member of all comes from.
<1> DEFINE from(j) == IF j < k THEN j ELSE j - 1
<1>4. \A j \in 1..(n + 1) : j # k => from(j) \in 1..n /\ all[j] = s[from(j)]
  <2>1. \A j \in 1..(n + 1) : j # k => from(j) \in 1..n
    BY <1>1
  <2>2. \A j \in 1..(n + 1) : j # k => all[j] = s[from(j)]
    BY <1>2
  <2>3. QED BY <2>1, <2>2
<1>5. \A i, j \in 1..(n + 1) : i # k /\ j # k /\ from(i) = from(j) => i = j
  BY <1>1
<1>6. \A i \in 1..n : \E j \in 1..(n + 1) : j # k /\ from(j) = i
  <2>1. SUFFICES ASSUME NEW i \in 1..n PROVE \E j \in 1..(n + 1) : j # k /\ from(j) = i
    OBVIOUS
  <2>2. CASE i < k
    BY <1>1, <2>2
  <2>3. CASE ~(i < k)
    <3>1. i + 1 \in 1..(n + 1) /\ i + 1 # k /\ from(i + 1) = i
      BY <1>1, <2>3
    <3>2. QED BY <3>1
  <2>4. QED BY <2>2, <2>3
<1>7. all[k] = e
  BY <1>1, <1>2
<1> HIDE DEF from
<1>8. Distinct(all)
  <2>1. SUFFICES ASSUME NEW i \in 1..(n + 1), NEW j \in 1..(n + 1), all[i] = all[j] PROVE i = j
    BY <1>2 DEF Distinct
  <2>2. CASE i = k \/ j = k
    BY <1>3, <1>4, <1>7, <2>1, <2>2
  <2>3. CASE i # k /\ j # k
    BY <1>1, <1>4, <1>5, <2>1, <2>3 DEF Distinct
  <2>4. QED BY <2>2, <2>3
<1>9. Range(all) = Range(s) \cup {e}
  <2>1. \A x \in Range(all) : x \in Range(s) \cup {e}
    BY <1>1, <1>2, <1>4, <1>7, AtPlace
  <2>2. \A x \in Range(s) : x \in Range(all)
    <3>1. ASSUME NEW i \in 1..n PROVE s[i] \in Range(all)
      <4>1. PICK j \in 1..(n + 1) : j # k /\ from(j) = i
        BY <1>6
      <4>2. all[j] = s[i]
        BY <1>4, <4>1
      <4>3. QED BY <1>2, <4>2, AtPlace
    <3>2. QED BY <1>1, <3>1, AtPlace
  <2>3. e \in Range(all)
    BY <1>1, <1>2, <1>7, AtPlace
  <2>4. QED BY <2>1, <2>2, <2>3
<1>10. QED BY <1>2, <1>8, <1>9 DEF all

(* A recursive function has the value its equation gives it.                   *)
Lists(f, n, places) ==
  f = [i \in 0..n |-> IF i = 0 THEN <<>> ELSE IF i \in places THEN Append(f[i - 1], i) ELSE f[i - 1]]

LEMMA InOrderFacts ==
  ASSUME NEW n \in Nat, NEW places
  PROVE  /\ InOrder(n, places) \in Seq(1..n) /\ Distinct(InOrder(n, places))
         /\ Range(InOrder(n, places)) = (1..n) \cap places
<1> DEFINE V == Seq(1..n)
           step == [is \in (1..n) \X V |-> IF is[1] \in places THEN Append(is[2], is[1]) ELSE is[2]]
<1>1. \A i \in 1..n, s \in V : step[<<i, s>>] = IF i \in places THEN Append(s, i) ELSE s
  OBVIOUS
<1>2. ASSUME NEW i \in 1..n, NEW s \in V PROVE (IF i \in places THEN Append(s, i) ELSE s) \in V
  <2>1. Append(s, i) \in V
    BY Appended
  <2> HIDE DEF V
  <2>2. QED BY <2>1
<1>3. step \in [(1..n) \X V -> V]
  <2> HIDE DEF V
  <2>1. QED BY <1>2
<1> DEFINE none == <<>>
<1>4. none \in V
  OBVIOUS
<1> HIDE DEF V, step, none
<1>5. PICK g : Recurs(g, n, V, none, step)
  BY <1>3, <1>4, Recursion
<1>g. g \in [0..n -> V] /\ g[0] = none /\ \A i \in 1..n : g[i] = step[<<i, g[i - 1]>>]
  BY <1>5 DEF Recurs
<1>6. Lists(g, n, places)
  <2>1. ASSUME NEW i \in 0..n
        PROVE  g[i] = IF i = 0 THEN <<>> ELSE IF i \in places THEN Append(g[i - 1], i) ELSE g[i - 1]
    <3>1. CASE i = 0
      BY <1>g, <3>1 DEF none
    <3>2. CASE i # 0
      <4>1. i \in 1..n /\ i - 1 \in 0..n
        BY <3>2
      <4>2. g[i - 1] \in V
        BY <1>g, <4>1
      <4>3. QED BY <1>1, <1>g, <3>2, <4>1, <4>2
    <3>3. QED BY <3>1, <3>2
  <2>2. g = [i \in 0..n |-> g[i]]
    BY <1>g
  <2>3. QED BY <2>1, <2>2 DEF Lists
<1>7. PICK f : Lists(f, n, places) /\ InOrder(n, places) = f[n]
  <2> DEFINE f == CHOOSE f : Lists(f, n, places)
  <2>1. Lists(f, n, places)
    BY <1>6
  <2>2. InOrder(n, places) = f[n]
    BY DEF InOrder, Lists
  <2> HIDE DEF f
  <2>3. QED BY <2>1, <2>2
<1> DEFINE Right(i) == f[i] \in Seq(1..n) /\ Distinct(f[i]) /\ Range(f[i]) = (1..i) \cap places
           good == {i \in 0..n : Right(i)}
<1>8. 0 \in good
  <2>1. f[0] = <<>>
    BY <1>7 DEF Lists
  <2>2. (1..0) \cap places = {} /\ 0 \in 0..n
    OBVIOUS
  <2>3. QED BY <2>1, <2>2, EmptyOrder
<1>9. ASSUME NEW i \in 1..n, i - 1 \in good PROVE i \in good
  <2>1. i \in 0..n /\ i # 0 /\ Right(i - 1)
    BY <1>9
  <2>2. f[i] = IF i \in places THEN Append(f[i - 1], i) ELSE f[i - 1]
    BY <1>7, <2>1 DEF Lists
  <2>3. 1..i = (1..(i - 1)) \cup {i} /\ i \notin 1..(i - 1)
    OBVIOUS
  <2> DEFINE s == f[i - 1]
  <2>4. s \in Seq(1..n) /\ Distinct(s) /\ Range(s) = (1..(i - 1)) \cap places
    BY <2>1
  <2> HIDE DEF s
  <2>5. i \notin Range(s)
    BY <2>3, <2>4
  <2>6. Append(s, i) \in Seq(1..n) /\ Distinct(Append(s, i)) /\ Range(Append(s, i)) = Range(s) \cup {i}
    BY <2>4, <2>5, AppendedOnce
  <2>7. Right(i)
    BY <2>2, <2>3, <2>4, <2>6 DEF s
  <2>8. QED BY <2>1, <2>7
<1>10. n \in good
  <2> HIDE DEF good
  <2>1. \A i \in 0..n : i \in good
    BY <1>8, <1>9, Induct
  <2>2. QED BY <2>1
<1>11. QED BY <1>7, <1>10

\* order with p shown too.
WithPlace(new, X, order, p) == new \in Seq(X) /\ Distinct(new) /\ Range(new) = Range(order) \cup {p}

LEMMA PutInOnce ==
  ASSUME NEW blocks, NEW X, NEW order \in Seq(X), Distinct(order), NEW p \in X, p \notin Range(order)
  PROVE  WithPlace(PutIn(blocks, order, p), X, order, p)
<1> DEFINE later == {i \in DOMAIN order : blocks[p].ts # NoTime /\ blocks[order[i]].ts > blocks[p].ts}
           first == CHOOSE i \in later : \A j \in later : i <= j
<1>1. PutIn(blocks, order, p) = IF later = {} THEN Append(order, p) ELSE InsertAt(order, first, p)
  BY DEF PutIn
<1>2. later \in SUBSET Nat /\ later \subseteq DOMAIN order
  OBVIOUS
<1>3. later # {} => first \in DOMAIN order
  <2>1. SUFFICES ASSUME later # {} PROVE first \in later
    BY <1>2
  <2> HIDE DEF later
  <2>2. PICK m \in later : \A n \in Nat : n < m => n \notin later
    BY <1>2, <2>1, Least
  <2>3. \A j \in later : m <= j
    BY <1>2, <2>2
  <2>4. QED BY <2>3
<1> HIDE DEF later, first
<1>4. CASE later = {}
  BY <1>1, <1>4, AppendedOnce DEF WithPlace
<1>5. CASE later # {}
  BY <1>1, <1>3, <1>5, InsertedOnce DEF WithPlace
<1>6. QED BY <1>4, <1>5

LEMMA EarliestIsLeft ==
  ASSUME NEW blocks, NEW left \in SUBSET Nat, left # {}, \A p \in left : blocks[p].ts \in Nat
  PROVE  Earliest(blocks, left) \in left
<1> DEFINE timed == {p \in left : blocks[p].ts # NoTime}
           first == IF timed = {} THEN left ELSE timed
           times == {blocks[p].ts : p \in first}
           Best(p) == \A q \in first : blocks[p].ts < blocks[q].ts \/ (blocks[p].ts = blocks[q].ts /\ p <= q)
<1>1. Earliest(blocks, left) = CHOOSE p \in first : Best(p)
  BY DEF Earliest
<1>2. first \subseteq left /\ first # {} /\ \A p \in first : p \in Nat /\ blocks[p].ts \in Nat
  OBVIOUS
<1> HIDE DEF first
<1>3. times \in SUBSET Nat /\ times # {}
  BY <1>2
<1>4. PICK m \in times : \A n \in Nat : n < m => n \notin times
  <2> HIDE DEF times
  <2>1. QED BY <1>3, Least
<1> DEFINE tied == {p \in first : blocks[p].ts = m}
<1>5. tied \in SUBSET Nat /\ tied # {}
  BY <1>2, <1>4
<1>6. PICK p \in tied : \A n \in Nat : n < p => n \notin tied
  <2> HIDE DEF tied
  <2>1. QED BY <1>5, Least
<1>7. p \in first /\ blocks[p].ts = m /\ p \in Nat
  BY <1>2, <1>6
<1>8. ASSUME NEW q \in first PROVE blocks[p].ts < blocks[q].ts \/ (blocks[p].ts = blocks[q].ts /\ p <= q)
  <2>1. ~(blocks[q].ts < m) /\ blocks[q].ts \in Nat /\ m \in Nat /\ q \in Nat
    BY <1>2, <1>3, <1>4
  <2>2. CASE blocks[q].ts = m
    <3>1. q \in tied
      BY <2>2
    <3>2. ~(q < p)
      BY <1>6, <2>1, <3>1
    <3>3. QED BY <1>7, <2>1, <2>2, <3>2
  <2>3. CASE blocks[q].ts # m
    BY <1>7, <2>1, <2>3
  <2>4. QED BY <2>2, <2>3
<1>9. Best(p)
  BY <1>8
<1> HIDE DEF Best
<1>10. QED BY <1>1, <1>2, <1>7, <1>9

\* A list of blocks that have their time, whatever the rest of them is.
Timed(blocks) ==
  Len(blocks) \in Nat /\ DOMAIN blocks = 1..Len(blocks) /\ \A p \in DOMAIN blocks : blocks[p].ts \in Nat

\* An order in which every block of the trajectory is shown, and none twice.
Covers(order, blocks) ==
  /\ order \in Seq(DOMAIN blocks) /\ Distinct(order)
  /\ DOMAIN blocks \ PlacesOf(blocks) \subseteq Range(order)

Placing(f, blocks) ==
  f = [n \in 0..Len(blocks) |->
        IF n = 0 THEN InOrder(Len(blocks), DOMAIN blocks \ PlacesOf(blocks))
        ELSE LET order == f[n - 1]
                 left == PlacesOf(blocks) \ Range(order)
             IN IF left = {} THEN order ELSE PutIn(blocks, order, Earliest(blocks, left))]

LEMMA InterleaveCovers ==
  ASSUME NEW blocks, Timed(blocks)
  PROVE  Covers(interleaveArtifacts(blocks), blocks)
<1> DEFINE n == Len(blocks)
           V == {order \in Seq(1..n) : Covers(order, blocks)}
           base == InOrder(n, DOMAIN blocks \ PlacesOf(blocks))
           Left(order) == PlacesOf(blocks) \ Range(order)
           Put(order) == IF Left(order) = {} THEN order ELSE PutIn(blocks, order, Earliest(blocks, Left(order)))
           step == [is \in (1..n) \X V |-> Put(is[2])]
<1>1. n \in Nat /\ DOMAIN blocks = 1..n /\ \A p \in 1..n : blocks[p].ts \in Nat
  BY DEF Timed
<1>2. base \in V
  <2>1. /\ base \in Seq(1..n) /\ Distinct(base)
        /\ Range(base) = (1..n) \cap (DOMAIN blocks \ PlacesOf(blocks))
    BY <1>1, InOrderFacts
  <2> HIDE DEF base
  <2>2. QED BY <1>1, <2>1 DEF Covers
<1>3. ASSUME NEW order \in V PROVE Put(order) \in V
  <2>1. order \in Seq(1..n) /\ Distinct(order) /\ DOMAIN blocks \ PlacesOf(blocks) \subseteq Range(order)
    BY DEF Covers
  <2>2. CASE Left(order) = {}
    BY <2>2
  <2>3. CASE Left(order) # {}
    <3>1. Left(order) \in SUBSET Nat /\ \A p \in Left(order) : blocks[p].ts \in Nat /\ p \in 1..n /\ p \notin Range(order)
      BY <1>1 DEF PlacesOf
    <3> DEFINE p == Earliest(blocks, Left(order))
               next == PutIn(blocks, order, p)
    <3>2. p \in Left(order)
      <4> HIDE DEF Left
      <4>1. QED BY <2>3, <3>1, EarliestIsLeft
    <3>3. p \in 1..n /\ p \notin Range(order)
      BY <3>1, <3>2
    <3>4. Put(order) = next
      BY <2>3
    <3> HIDE DEF p
    <3>5. WithPlace(next, 1..n, order, p)
      BY <2>1, <3>3, PutInOnce
    <3> HIDE DEF next, Put, Left
    <3>6. QED BY <1>1, <2>1, <3>4, <3>5 DEF Covers, WithPlace
  <2>4. QED BY <2>2, <2>3
<1> HIDE DEF Put
<1>4. step \in [(1..n) \X V -> V]
  <2> HIDE DEF V
  <2>1. QED BY <1>3
<1>5. \A i \in 1..n, order \in V : step[<<i, order>>] = Put(order)
  OBVIOUS
<1> HIDE DEF V, step, base
<1>6. PICK g : Recurs(g, n, V, base, step)
  BY <1>1, <1>2, <1>4, Recursion
<1>7. g \in [0..n -> V] /\ g[0] = base /\ \A i \in 1..n : g[i] = step[<<i, g[i - 1]>>]
  BY <1>6 DEF Recurs
<1>8. Placing(g, blocks)
  <2>1. ASSUME NEW i \in 0..n PROVE g[i] = IF i = 0 THEN base ELSE Put(g[i - 1])
    <3>1. CASE i = 0
      BY <1>7, <3>1
    <3>2. CASE i # 0
      <4>1. i \in 1..n /\ i - 1 \in 0..n
        BY <1>1, <3>2
      <4>2. g[i - 1] \in V
        BY <1>7, <4>1
      <4>3. QED BY <1>5, <1>7, <3>2, <4>1, <4>2
    <3>3. QED BY <3>1, <3>2
  <2>2. g = [i \in 0..n |-> g[i]]
    BY <1>7
  <2>3. g = [i \in 0..n |-> IF i = 0 THEN base ELSE Put(g[i - 1])]
    BY <2>1, <2>2
  <2>4. QED BY <2>3 DEF Placing, Put, Left, base
<1>9. PICK f : Placing(f, blocks) /\ interleaveArtifacts(blocks) = f[n]
  <2> DEFINE f == CHOOSE f : Placing(f, blocks)
  <2>1. Placing(f, blocks)
    BY <1>8
  <2>2. interleaveArtifacts(blocks) = f[n]
    BY DEF interleaveArtifacts, Placing
  <2> HIDE DEF f
  <2>3. QED BY <2>1, <2>2
<1>10. f = [i \in 0..n |-> IF i = 0 THEN base ELSE Put(f[i - 1])]
  BY <1>9 DEF Placing, Put, Left, base
<1> DEFINE good == {i \in 0..n : f[i] \in V}
<1>11. 0 \in good
  <2>1. 0 \in 0..n
    BY <1>1
  <2>2. QED BY <1>2, <1>10, <2>1
<1>12. ASSUME NEW i \in 1..n, i - 1 \in good PROVE i \in good
  <2>1. i \in 0..n /\ i # 0 /\ f[i - 1] \in V
    BY <1>1, <1>12
  <2>2. f[i] = Put(f[i - 1])
    BY <1>10, <2>1
  <2>3. QED BY <1>3, <2>1, <2>2
<1>13. n \in good
  <2> HIDE DEF good
  <2>1. \A i \in 0..n : i \in good
    BY <1>1, <1>11, <1>12, Induct
  <2>2. QED BY <1>1, <2>1
<1>14. QED BY <1>9, <1>13 DEF V

----------------------------------------------------------------------------
(* Lists of lists put together.                                                *)

Flattening(f, seqs) == f = [i \in 1..Len(seqs) |-> IF i = 1 THEN seqs[i] ELSE f[i - 1] \o seqs[i]]

LEMMA FlattenIn ==
  ASSUME NEW X, NEW seqs \in Seq(Seq(X))
  PROVE  FlattenSeq(seqs) \in Seq(X)
<1> DEFINE n == Len(seqs)
           V == Seq(X)
           none == <<>>
           step == [is \in (1..n) \X V |-> is[2] \o seqs[is[1]]]
<1>1. n \in Nat /\ DOMAIN seqs = 1..n /\ \A i \in 1..n : seqs[i] \in V
  OBVIOUS
<1>2. CASE n = 0
  <2>1. FlattenSeq(seqs) = seqs
    BY <1>2 DEF FlattenSeq
  <2>2. seqs = <<>>
    BY <1>2
  <2>3. QED BY <2>1, <2>2
<1>3. CASE n # 0
  <2>1. n \in 1..n /\ 1 \in 1..n
    BY <1>1, <1>3
  <2>2. \A i \in 1..n, s \in V : s \o seqs[i] \in V
    BY <1>1
  <2>3. none \in V /\ \A s \in V : none \o s = s
    OBVIOUS
  <2> HIDE DEF V, none
  <2>4. step \in [(1..n) \X V -> V] /\ \A i \in 1..n, s \in V : step[<<i, s>>] = s \o seqs[i]
    BY <2>2
  <2> HIDE DEF step
  <2>5. PICK g : Recurs(g, n, V, none, step)
    BY <1>1, <2>3, <2>4, Recursion
  <2>6. g \in [0..n -> V] /\ g[0] = none /\ \A i \in 1..n : g[i] = step[<<i, g[i - 1]>>]
    BY <2>5 DEF Recurs
  <2>7. ASSUME NEW i \in 1..n PROVE i - 1 \in 0..n /\ g[i - 1] \in V /\ g[i] = g[i - 1] \o seqs[i]
    <3>1. i - 1 \in 0..n
      BY <1>1
    <3>2. g[i - 1] \in V
      BY <2>6, <3>1
    <3>3. QED BY <2>4, <2>6, <3>1, <3>2
  <2> DEFINE h == [i \in 1..n |-> g[i]]
  <2>8. Flattening(h, seqs)
    <3>1. ASSUME NEW i \in 1..n PROVE h[i] = IF i = 1 THEN seqs[i] ELSE h[i - 1] \o seqs[i]
      <4>1. CASE i = 1
        <5>1. i - 1 = 0 /\ h[i] = g[i]
          BY <4>1
        <5>2. g[i] = none \o seqs[i]
          BY <2>6, <2>7, <5>1
        <5>3. QED BY <1>1, <2>3, <4>1, <5>1, <5>2
      <4>2. CASE i # 1
        <5>1. i - 1 \in 1..n
          BY <1>1, <4>2
        <5>2. h[i] = g[i] /\ h[i - 1] = g[i - 1]
          BY <5>1
        <5>3. QED BY <2>7, <4>2, <5>2
      <4>3. QED BY <4>1, <4>2
    <3>2. h = [i \in 1..n |-> h[i]]
      OBVIOUS
    <3> HIDE DEF h
    <3>3. QED BY <3>1, <3>2 DEF Flattening
  <2>9. PICK f : Flattening(f, seqs) /\ FlattenSeq(seqs) = f[n]
    <3> DEFINE f == CHOOSE f : Flattening(f, seqs)
    <3>1. Flattening(f, seqs)
      BY <2>8
    <3>2. FlattenSeq(seqs) = f[n]
      BY <1>3 DEF FlattenSeq, Flattening
    <3> HIDE DEF f
    <3>3. QED BY <3>1, <3>2
  <2> DEFINE good == {i \in 0..n : i = 0 \/ f[i] \in V}
  <2>10. 0 \in good
    BY <1>1
  <2>11. ASSUME NEW i \in 1..n, i - 1 \in good PROVE i \in good
    <3>1. i \in 0..n /\ i # 0 /\ (i - 1 = 0 \/ f[i - 1] \in V) /\ (i - 1 = 0 => i = 1)
      BY <2>11
    <3>2. f[i] = IF i = 1 THEN seqs[i] ELSE f[i - 1] \o seqs[i]
      BY <2>9 DEF Flattening
    <3>3. f[i] \in V
      BY <1>1, <2>2, <3>1, <3>2
    <3>4. QED BY <3>1, <3>3
  <2>12. n \in good
    <3> HIDE DEF good
    <3>1. \A i \in 0..n : i \in good
      BY <1>1, <2>10, <2>11, Induct
    <3>2. QED BY <1>1, <3>1
  <2>13. f[n] \in V
    BY <1>3, <2>12
  <2>14. QED BY <2>9, <2>13 DEF V
<1>4. QED BY <1>2, <1>3

\* A list, whatever it is of.
Listed(s) == s \in Seq(Range(s))

LEMMA ListedFacts ==
  ASSUME NEW s, Listed(s)
  PROVE  Len(s) \in Nat /\ DOMAIN s = 1..Len(s) /\ s = [i \in 1..Len(s) |-> s[i]]
<1> DEFINE X == Range(s)
<1>1. s \in Seq(X)
  BY DEF Listed
<1> HIDE DEF X
<1>2. QED BY <1>1

LEMMA InSeq ==
  ASSUME NEW s, Listed(s), NEW X, \A i \in DOMAIN s : s[i] \in X
  PROVE  s \in Seq(X)
<1>1. Range(s) \subseteq X
  BY AtPlace
<1>2. QED BY <1>1, SeqMonotonic DEF Listed

LEMMA SeqListed ==
  ASSUME NEW X, NEW s \in Seq(X)
  PROVE  Listed(s) /\ \A i \in DOMAIN s : s[i] \in X
BY SeqOfRange DEF Listed

LEMMA FunctionListed ==
  ASSUME NEW n \in Nat, NEW g, g = [i \in 1..n |-> g[i]]
  PROVE  Listed(g) /\ DOMAIN g = 1..n /\ Len(g) = n
<1>1. DOMAIN g = 1..n
  OBVIOUS
<1> DEFINE X == Range(g)
<1>2. \A i \in 1..n : g[i] \in X
  BY <1>1, AtPlace
<1> HIDE DEF X
<1>3. g \in [1..n -> X]
  BY <1>2
<1>4. g \in Seq(X)
  BY <1>3
<1>5. Len(g) = n
  BY <1>1, <1>4
<1>6. QED BY <1>1, <1>4, <1>5 DEF Listed, X

----------------------------------------------------------------------------
(* Blocks of history.                                                          *)

BlockFields == {"kind", "id", "ts", "text", "open"}
BlockLike(b) == DOMAIN b = BlockFields /\ b.ts \in Nat
BlocksOK(blocks) == Listed(blocks) /\ \A i \in DOMAIN blocks : BlockLike(blocks[i])

HistoryBlock(b) == BlockLike(b) /\ b.kind # "artifact" /\ b.open = FALSE
HistoryBlocks(blocks) == Listed(blocks) /\ \A i \in DOMAIN blocks : HistoryBlock(blocks[i])

GoodItem(item) == item.kind \in DOMAIN HistoryKind /\ item.ts \in Nat
GoodItems(items) == Listed(items) /\ \A i \in DOMAIN items : GoodItem(items[i])
GoodTurn(turn) == turn.ts \in Nat /\ GoodItems(turn.items)
GoodTurns(turns) == Listed(turns) /\ \A i \in DOMAIN turns : GoodTurn(turns[i])

LEMMA UserIsNoArtifact ==
  ASSUME NEW prompt
  PROVE  userBlockKind(prompt) \notin {"artifact", "agent"}
<1>1. \A text : WorkKind(text) \notin {"artifact", "agent"}
  BY DEF WorkKind
<1>2. loomManagedWorkBlock(prompt) \notin {"artifact", "agent"}
  BY <1>1 DEF loomManagedWorkBlock
<1>3. QED BY <1>1, <1>2 DEF userBlockKind

LEMMA OneOfHistory ==
  ASSUME NEW b, HistoryBlock(b)
  PROVE  HistoryBlocks(<<b>>)
<1> DEFINE one == <<b>>
<1>1. one \in Seq({b}) /\ DOMAIN one = {1} /\ one[1] = b
  OBVIOUS
<1> HIDE DEF one
<1>2. Listed(one)
  BY <1>1, SeqListed
<1>3. HistoryBlocks(one)
  BY <1>1, <1>2 DEF HistoryBlocks
<1>4. QED BY <1>3 DEF one

LEMMA NoHistory == HistoryBlocks(<<>>)
<1> DEFINE none == <<>>
<1>1. none \in Seq({}) /\ DOMAIN none = {}
  OBVIOUS
<1> HIDE DEF none
<1>2. Listed(none)
  BY <1>1, SeqListed
<1>3. HistoryBlocks(none)
  BY <1>1, <1>2 DEF HistoryBlocks
<1>4. QED BY <1>3 DEF none

LEMMA HistoryFlattened ==
  ASSUME NEW seqs, Listed(seqs), \A i \in DOMAIN seqs : HistoryBlocks(seqs[i])
  PROVE  HistoryBlocks(FlattenSeq(seqs))
<1> DEFINE X == {b \in UNION {Range(seqs[i]) : i \in DOMAIN seqs} : HistoryBlock(b)}
<1>1. ASSUME NEW i \in DOMAIN seqs PROVE seqs[i] \in Seq(X)
  <2>1. Listed(seqs[i]) /\ \A j \in DOMAIN seqs[i] : HistoryBlock(seqs[i][j]) /\ seqs[i][j] \in Range(seqs[i])
    BY AtPlace DEF HistoryBlocks
  <2>2. \A j \in DOMAIN seqs[i] : seqs[i][j] \in X
    BY <2>1
  <2> HIDE DEF X
  <2>3. QED BY <2>1, <2>2, InSeq
<1>2. \A b \in X : HistoryBlock(b)
  OBVIOUS
<1> HIDE DEF X
<1>3. seqs \in Seq(Seq(X))
  BY <1>1, InSeq
<1>4. FlattenSeq(seqs) \in Seq(X)
  BY <1>3, FlattenIn
<1>5. QED BY <1>2, <1>4, SeqListed DEF HistoryBlocks

LEMMA HistoryJoined ==
  ASSUME NEW one, NEW other, HistoryBlocks(one), HistoryBlocks(other)
  PROVE  HistoryBlocks(one \o other)
<1> DEFINE X == {b \in Range(one) \cup Range(other) : HistoryBlock(b)}
<1>1. \A i \in DOMAIN one : one[i] \in X
  BY AtPlace DEF HistoryBlocks
<1>2. \A i \in DOMAIN other : other[i] \in X
  BY AtPlace DEF HistoryBlocks
<1>3. \A b \in X : HistoryBlock(b)
  OBVIOUS
<1> HIDE DEF X
<1>4. one \in Seq(X) /\ other \in Seq(X)
  BY <1>1, <1>2, InSeq DEF HistoryBlocks
<1>5. one \o other \in Seq(X)
  BY <1>4, Joined
<1>6. QED BY <1>3, <1>5, SeqListed DEF HistoryBlocks

LEMMA ItemOfHistory ==
  ASSUME NEW item, GoodItem(item)
  PROVE  HistoryBlocks(HistoryItem(item))
<1>1. item.ts \in Nat /\ item.kind \in {"user", "answer", "thinking", "command", "file_change", "image"}
  BY DEF GoodItem, HistoryKind
<1> DEFINE user == userBlock(item.id, item.ts, item.prompt)
           other == Block(HistoryKind[item.kind], item.id, item.ts, item.text, FALSE)
<1>2. HistoryBlock(user)
  <2>1. user = Block(userBlockKind(item.prompt), item.id, item.ts, 1, FALSE)
    BY DEF userBlock
  <2> HIDE DEF user
  <2>2. BlockLike(user) /\ user.kind = userBlockKind(item.prompt) /\ user.open = FALSE
    BY <1>1, <2>1 DEF Block, BlockLike, BlockFields
  <2>3. user.kind # "artifact"
    BY <2>2, UserIsNoArtifact
  <2>4. QED BY <2>2, <2>3 DEF HistoryBlock
<1>3. item.kind # "user" => HistoryBlock(other)
  <2>1. SUFFICES ASSUME item.kind # "user" PROVE HistoryBlock(other)
    OBVIOUS
  <2>2. HistoryKind[item.kind] # "artifact"
    BY <1>1 DEF HistoryKind
  <2>3. BlockLike(other) /\ other.kind = HistoryKind[item.kind] /\ other.open = FALSE
    BY <1>1 DEF Block, BlockLike, BlockFields
  <2> HIDE DEF other
  <2>4. QED BY <2>2, <2>3 DEF HistoryBlock
<1> HIDE DEF user, other
<1>4. HistoryItem(item) \in {<<user>>, <<>>, <<other>>} /\ (HistoryItem(item) = <<other>> => item.kind # "user" \/ <<other>> = <<user>>)
  BY DEF HistoryItem, user, other
<1>5. QED BY <1>2, <1>3, <1>4, OneOfHistory, NoHistory

LEMMA TurnOfHistory ==
  ASSUME NEW turn, GoodTurn(turn)
  PROVE  HistoryBlocks(HistoryTurn(turn))
<1> DEFINE seqs == [i \in DOMAIN turn.items |-> HistoryItem(turn.items[i])]
           usage == Block("usage", turn.id, turn.ts, 1, FALSE)
           end == IF turn.usage THEN <<usage>> ELSE <<>>
<1>1. Listed(turn.items) /\ \A i \in DOMAIN turn.items : GoodItem(turn.items[i])
  BY DEF GoodTurn, GoodItems
<1>2. Len(turn.items) \in Nat /\ DOMAIN turn.items = 1..Len(turn.items)
  BY <1>1, ListedFacts
<1>3. DOMAIN seqs = 1..Len(turn.items) /\ seqs = [i \in 1..Len(turn.items) |-> seqs[i]]
  BY <1>2
<1>4. \A i \in DOMAIN seqs : HistoryBlocks(seqs[i])
  BY <1>1, ItemOfHistory
<1> HIDE DEF seqs
<1>5. Listed(seqs)
  BY <1>2, <1>3, FunctionListed
<1>6. HistoryBlocks(FlattenSeq(seqs))
  BY <1>4, <1>5, HistoryFlattened
<1>7. HistoryBlock(usage)
  <2>1. turn.ts \in Nat
    BY DEF GoodTurn
  <2>2. BlockLike(usage) /\ usage.kind = "usage" /\ usage.open = FALSE
    BY <2>1 DEF Block, BlockLike, BlockFields
  <2> HIDE DEF usage
  <2>3. QED BY <2>2 DEF HistoryBlock
<1> HIDE DEF usage
<1>8. HistoryBlocks(end)
  BY <1>7, OneOfHistory, NoHistory
<1>9. HistoryTurn(turn) = FlattenSeq(seqs) \o end
  BY DEF HistoryTurn, seqs, usage
<1> HIDE DEF end
<1>10. QED BY <1>6, <1>8, <1>9, HistoryJoined

LEMMA HistoryIs ==
  ASSUME NEW turns, GoodTurns(turns)
  PROVE  HistoryBlocks(buildHistoryBlocks(turns))
<1> DEFINE seqs == [i \in DOMAIN turns |-> HistoryTurn(turns[i])]
<1>1. Listed(turns) /\ \A i \in DOMAIN turns : GoodTurn(turns[i])
  BY DEF GoodTurns
<1>2. Len(turns) \in Nat /\ DOMAIN turns = 1..Len(turns)
  BY <1>1, ListedFacts
<1>3. DOMAIN seqs = 1..Len(turns) /\ seqs = [i \in 1..Len(turns) |-> seqs[i]]
  BY <1>2
<1>4. \A i \in DOMAIN seqs : HistoryBlocks(seqs[i])
  BY <1>1, TurnOfHistory
<1>5. buildHistoryBlocks(turns) = FlattenSeq(seqs)
  BY DEF buildHistoryBlocks
<1> HIDE DEF seqs
<1>6. Listed(seqs)
  BY <1>2, <1>3, FunctionListed
<1>7. QED BY <1>4, <1>5, <1>6, HistoryFlattened

----------------------------------------------------------------------------
(* The feed.                                                                   *)

OnceShown(blocks) ==
  \A i, j \in DOMAIN blocks :
    (blocks[i].kind = "artifact" /\ blocks[j].kind = "artifact" /\ blocks[i].id = blocks[j].id) => i = j
Closed(blocks) == \A i \in DOMAIN blocks : blocks[i].kind = "agent" => ~blocks[i].open

\* index finds the blocks of its keys, which are of the trajectory, after "added" new ones.
Finds(index, blocks, added) ==
  \A key \in DOMAIN index :
    /\ index[key] \in Nat /\ index[key] + added \in DOMAIN blocks
    /\ blocks[index[key] + added].kind = key[1] /\ blocks[index[key] + added].id = key[2]
    /\ key[1] # "artifact"

FeedFields == {"blocks", "index", "approvals", "approvalsSeq"}
FeedLike(f) == DOMAIN f = FeedFields /\ f = [x \in FeedFields |-> f[x]]
FeedOK(f) == FeedLike(f) /\ BlocksOK(f.blocks) /\ OnceShown(f.blocks) /\ Finds(f.index, f.blocks, 0)

SameApprovals(f, g) == g.approvals = f.approvals /\ g.approvalsSeq = f.approvalsSeq
\* What a change that is no event of an approval makes of f.
Kept(f, g) == FeedOK(g) /\ SameApprovals(f, g)
Filled(f, g) == Kept(f, g) /\ (Closed(f.blocks) => Closed(g.blocks))

LEMMA Unchanged ==
  ASSUME NEW f, FeedOK(f)
  PROVE  Filled(f, f)
BY DEF Filled, Kept, SameApprovals

\* all is blocks with b at its end.
WithLast(all, blocks, b) ==
  /\ Len(blocks) \in Nat /\ DOMAIN blocks = 1..Len(blocks) /\ DOMAIN all = 1..(Len(blocks) + 1)
  /\ \A i \in 1..Len(blocks) : all[i] = blocks[i]
  /\ all[Len(blocks) + 1] = b

LEMMA BlocksAppended ==
  ASSUME NEW blocks, BlocksOK(blocks), NEW b, BlockLike(b)
  PROVE  BlocksOK(Append(blocks, b)) /\ WithLast(Append(blocks, b), blocks, b)
<1> DEFINE X == {c \in Range(blocks) \cup {b} : BlockLike(c)}
           all == Append(blocks, b)
<1>1. Listed(blocks) /\ \A i \in DOMAIN blocks : blocks[i] \in X
  BY AtPlace DEF BlocksOK
<1>2. b \in X /\ \A c \in X : BlockLike(c)
  OBVIOUS
<1> HIDE DEF X
<1>3. blocks \in Seq(X)
  BY <1>1, InSeq
<1>4. all \in Seq(X) /\ WithLast(all, blocks, b)
  BY <1>2, <1>3, Appended DEF WithLast
<1> HIDE DEF all
<1>5. BlocksOK(all)
  BY <1>2, <1>4, SeqListed DEF BlocksOK
<1>6. QED BY <1>4, <1>5 DEF all

LEMMA LastShownOnce ==
  ASSUME NEW blocks, OnceShown(blocks), NEW b, NEW all, WithLast(all, blocks, b),
         b.kind = "artifact" => ~\E i \in DOMAIN blocks : blocks[i].kind = "artifact" /\ blocks[i].id = b.id
  PROVE  OnceShown(all)
<1> DEFINE n == Len(blocks)
<1>1. n \in Nat /\ DOMAIN blocks = 1..n /\ DOMAIN all = 1..(n + 1) /\ all[n + 1] = b /\ \A i \in 1..n : all[i] = blocks[i]
  BY DEF WithLast
<1> HIDE DEF n
<1>2. \A i \in 1..(n + 1) : i \in 1..n \/ i = n + 1
  BY <1>1
<1>3. SUFFICES ASSUME NEW i \in 1..(n + 1), NEW j \in 1..(n + 1), all[i].kind = "artifact", all[j].kind = "artifact",
                      all[i].id = all[j].id
               PROVE  i = j
  BY <1>1 DEF OnceShown
<1>4. CASE i \in 1..n /\ j \in 1..n
  BY <1>1, <1>3, <1>4 DEF OnceShown
<1>5. CASE i = n + 1 /\ j \in 1..n
  BY <1>1, <1>3, <1>5
<1>6. CASE j = n + 1 /\ i \in 1..n
  BY <1>1, <1>3, <1>6
<1>7. QED BY <1>2, <1>4, <1>5, <1>6

LEMMA LastClosed ==
  ASSUME NEW blocks, Closed(blocks), NEW b, NEW all, WithLast(all, blocks, b), b.kind = "agent" => ~b.open
  PROVE  Closed(all)
<1> DEFINE n == Len(blocks)
<1>1. n \in Nat /\ DOMAIN blocks = 1..n /\ DOMAIN all = 1..(n + 1) /\ all[n + 1] = b /\ \A i \in 1..n : all[i] = blocks[i]
  BY DEF WithLast
<1> HIDE DEF n
<1>2. \A i \in 1..(n + 1) : i \in 1..n \/ i = n + 1
  BY <1>1
<1>3. QED BY <1>1, <1>2 DEF Closed

LEMMA StillFinds ==
  ASSUME NEW index, NEW blocks, Finds(index, blocks, 0), NEW b, NEW all, WithLast(all, blocks, b)
  PROVE  Finds(index, all, 0)
<1>1. \A i \in DOMAIN blocks : i \in DOMAIN all /\ all[i] = blocks[i]
  BY DEF WithLast
<1>2. \A i \in Nat : i + 0 = i
  OBVIOUS
<1>3. QED BY <1>1, <1>2 DEF Finds

LEMMA Pushed ==
  ASSUME NEW f, FeedOK(f), NEW b, BlockLike(b), b.kind = "artifact" => ~HasBlock(f, "artifact", b.id)
  PROVE  /\ Kept(f, push(f, b)) /\ push(f, b).blocks = Append(f.blocks, b)
         /\ Closed(f.blocks) /\ (b.kind = "agent" => ~b.open) => Closed(push(f, b).blocks)
<1> DEFINE all == Append(f.blocks, b)
           g == push(f, b)
<1>1. BlocksOK(all) /\ WithLast(all, f.blocks, b)
  BY BlocksAppended DEF FeedOK
<1> HIDE DEF all
<1>2. FeedLike(g) /\ SameApprovals(f, g) /\ g.blocks = all /\ g.index = f.index
  BY DEF push, FeedOK, FeedLike, FeedFields, SameApprovals, all
<1> HIDE DEF g
<1>3. OnceShown(all)
  <2>1. b.kind = "artifact" => ~\E i \in DOMAIN f.blocks : f.blocks[i].kind = "artifact" /\ f.blocks[i].id = b.id
    BY DEF HasBlock
  <2>2. QED BY <1>1, <2>1, LastShownOnce DEF FeedOK
<1>4. Finds(f.index, all, 0)
  BY <1>1, StillFinds DEF FeedOK
<1>5. FeedOK(g)
  BY <1>1, <1>2, <1>3, <1>4 DEF FeedOK
<1>6. Closed(f.blocks) /\ (b.kind = "agent" => ~b.open) => Closed(all)
  BY <1>1, LastClosed
<1>7. QED BY <1>2, <1>5, <1>6 DEF Kept, g, all

LEMMA PushedKeyed ==
  ASSUME NEW f, FeedOK(f), NEW b, BlockLike(b), NEW key, b.kind = key[1], b.id = key[2], b.kind # "artifact"
  PROVE  Kept(f, PushKeyed(f, b, key))
<1> DEFINE all == Append(f.blocks, b)
           g == PushKeyed(f, b, key)
           index == [k \in DOMAIN f.index \cup {key} |-> IF k = key THEN Len(f.blocks) + 1 ELSE f.index[k]]
<1>1. BlocksOK(all) /\ WithLast(all, f.blocks, b)
  BY BlocksAppended DEF FeedOK
<1> HIDE DEF all
<1>2. FeedLike(g) /\ SameApprovals(f, g) /\ g.blocks = all /\ g.index = index
  BY DEF PushKeyed, FeedOK, FeedLike, FeedFields, SameApprovals, all
<1> HIDE DEF g
<1>3. OnceShown(all)
  BY <1>1, LastShownOnce DEF FeedOK
<1>4. Finds(f.index, all, 0)
  BY <1>1, StillFinds DEF FeedOK
<1>5. Finds(index, all, 0)
  <2>1. ASSUME NEW k \in DOMAIN f.index \cup {key}
        PROVE  /\ index[k] \in Nat /\ index[k] + 0 \in DOMAIN all
               /\ all[index[k] + 0].kind = k[1] /\ all[index[k] + 0].id = k[2] /\ k[1] # "artifact"
    <3>1. CASE k = key
      <4> DEFINE n == Len(f.blocks)
      <4>1. n \in Nat /\ n + 1 \in DOMAIN all /\ all[n + 1] = b /\ index[k] = n + 1
        BY <1>1, <3>1 DEF WithLast
      <4>2. n + 1 \in Nat /\ (n + 1) + 0 = n + 1
        BY <4>1
      <4> HIDE DEF n, index
      <4>3. QED BY <3>1, <4>1, <4>2
    <3>2. CASE k # key
      <4>1. k \in DOMAIN f.index /\ index[k] = f.index[k]
        BY <3>2
      <4> HIDE DEF index
      <4>2. QED BY <1>4, <4>1 DEF Finds
    <3>3. QED BY <3>1, <3>2
  <2>2. DOMAIN index = DOMAIN f.index \cup {key}
    OBVIOUS
  <2> HIDE DEF index
  <2>3. QED BY <2>1, <2>2 DEF Finds
<1>6. FeedOK(g)
  BY <1>1, <1>2, <1>3, <1>5 DEF FeedOK
<1>7. QED BY <1>2, <1>6 DEF Kept, g

LEMMA Replaced ==
  ASSUME NEW f, FeedOK(f), NEW p \in DOMAIN f.blocks, NEW b, BlockLike(b),
         b.kind = f.blocks[p].kind, b.id = f.blocks[p].id
  PROVE  Kept(f, [f EXCEPT !.blocks[p] = b])
<1> DEFINE g == [f EXCEPT !.blocks[p] = b]
           all == [f.blocks EXCEPT ![p] = b]
           n == Len(f.blocks)
<1>1. FeedLike(g) /\ SameApprovals(f, g) /\ g.blocks = all /\ g.index = f.index
  BY DEF FeedOK, FeedLike, FeedFields, SameApprovals
<1>2. n \in Nat /\ DOMAIN f.blocks = 1..n /\ f.blocks = [i \in 1..n |-> f.blocks[i]]
  BY ListedFacts DEF FeedOK, BlocksOK
<1>3. all = [i \in 1..n |-> all[i]] /\ DOMAIN all = 1..n
  BY <1>2
<1>4. ASSUME NEW i \in 1..n PROVE BlockLike(all[i]) /\ all[i].kind = f.blocks[i].kind /\ all[i].id = f.blocks[i].id
  <2>1. all[i] = IF i = p THEN b ELSE f.blocks[i]
    BY <1>2
  <2>2. BlockLike(f.blocks[i])
    BY <1>2 DEF FeedOK, BlocksOK
  <2> HIDE DEF all
  <2>3. QED BY <2>1, <2>2
<1> HIDE DEF all, g
<1>5. BlocksOK(all)
  BY <1>2, <1>3, <1>4, FunctionListed DEF BlocksOK
<1>6. OnceShown(all)
  BY <1>2, <1>3, <1>4 DEF FeedOK, OnceShown
<1>7. Finds(f.index, all, 0)
  BY <1>2, <1>3, <1>4 DEF FeedOK, Finds
<1>8. FeedOK(g)
  BY <1>1, <1>5, <1>6, <1>7 DEF FeedOK
<1>9. QED BY <1>1, <1>8 DEF Kept, g

----------------------------------------------------------------------------
(* Blocks are put in order.                                                    *)

LEMMA BlocksTimed ==
  ASSUME NEW blocks, BlocksOK(blocks)
  PROVE  Timed(blocks)
BY ListedFacts DEF BlocksOK, BlockLike, Timed

\* No harm is done to blocks.
NoHarm(blocks, all) ==
  /\ BlocksOK(all) /\ (OnceShown(blocks) => OnceShown(all)) /\ (Closed(blocks) => Closed(all))

LEMMA ArrangedBlocks ==
  ASSUME NEW blocks, BlocksOK(blocks), NEW order \in Seq(DOMAIN blocks), Distinct(order)
  PROVE  /\ NoHarm(blocks, Arranged(blocks, order))
         /\ DOMAIN Arranged(blocks, order) = DOMAIN order
         /\ \A i \in DOMAIN order : Arranged(blocks, order)[i] = blocks[order[i]] /\ order[i] \in DOMAIN blocks
<1> DEFINE all == Arranged(blocks, order)
           n == Len(order)
<1>1. n \in Nat /\ DOMAIN order = 1..n /\ \A i \in 1..n : order[i] \in DOMAIN blocks
  OBVIOUS
<1>2. all = [i \in 1..n |-> blocks[order[i]]]
  BY <1>1 DEF Arranged
<1> HIDE DEF all, n
<1>3. DOMAIN all = 1..n /\ all = [i \in 1..n |-> all[i]] /\ \A i \in 1..n : all[i] = blocks[order[i]]
  BY <1>2
<1>4. BlocksOK(all)
  BY <1>1, <1>3, FunctionListed DEF BlocksOK
<1>5. OnceShown(blocks) => OnceShown(all)
  BY <1>1, <1>3 DEF OnceShown, Distinct
<1>6. Closed(blocks) => Closed(all)
  BY <1>1, <1>3 DEF Closed
<1>7. QED BY <1>1, <1>3, <1>4, <1>5, <1>6 DEF NoHarm, all

LEMMA Interleaved ==
  ASSUME NEW blocks, BlocksOK(blocks)
  PROVE  NoHarm(blocks, Arranged(blocks, interleaveArtifacts(blocks)))
<1> DEFINE order == interleaveArtifacts(blocks)
<1>1. order \in Seq(DOMAIN blocks) /\ Distinct(order)
  BY BlocksTimed, InterleaveCovers DEF Covers
<1> HIDE DEF order
<1>2. NoHarm(blocks, Arranged(blocks, order))
  BY <1>1, ArrangedBlocks
<1>3. QED BY <1>2 DEF order

\* The index follows its blocks to their new places.
LEMMA Reordered ==
  ASSUME NEW f, FeedLike(f), NEW blocks, BlocksOK(blocks), OnceShown(blocks), NEW added \in Nat, Finds(f.index, blocks, added)
  PROVE  /\ Kept(f, reorderBlocks(f, blocks, added))
         /\ Closed(blocks) => Closed(reorderBlocks(f, blocks, added).blocks)
<1> DEFINE order == interleaveArtifacts(blocks)
           all == Arranged(blocks, order)
           Place(p) == CHOOSE i \in DOMAIN order : order[i] = p
           index == [k \in DOMAIN f.index |-> Place(f.index[k] + added)]
           g == reorderBlocks(f, blocks, added)
<1>1. order \in Seq(DOMAIN blocks) /\ Distinct(order) /\ DOMAIN blocks \ PlacesOf(blocks) \subseteq Range(order)
  BY BlocksTimed, InterleaveCovers DEF Covers
<1>2. g = [f EXCEPT !.blocks = all, !.index = index]
  BY DEF reorderBlocks
<1> HIDE DEF order, Place
<1>3. /\ NoHarm(blocks, all) /\ DOMAIN all = DOMAIN order
      /\ \A i \in DOMAIN order : all[i] = blocks[order[i]]
  BY <1>1, ArrangedBlocks
<1>4. ASSUME NEW p \in DOMAIN blocks, blocks[p].kind # "artifact"
      PROVE  Place(p) \in DOMAIN order /\ order[Place(p)] = p
  <2>1. p \in Range(order)
    BY <1>1, <1>4 DEF PlacesOf
  <2>2. \E i \in DOMAIN order : order[i] = p
    BY <2>1, AtPlace
  <2>3. QED BY <2>2 DEF Place
<1> HIDE DEF all, g
<1>5. ASSUME NEW k \in DOMAIN f.index
      PROVE  /\ index[k] \in Nat /\ index[k] \in DOMAIN all
             /\ all[index[k]].kind = k[1] /\ all[index[k]].id = k[2] /\ k[1] # "artifact"
  <2> DEFINE p == f.index[k] + added
             i == Place(p)
  <2>1. p \in DOMAIN blocks /\ blocks[p].kind = k[1] /\ blocks[p].id = k[2] /\ k[1] # "artifact"
    BY DEF Finds
  <2>2. index[k] = i
    OBVIOUS
  <2> HIDE DEF p, index
  <2>3. i \in DOMAIN order /\ order[i] = p
    BY <1>4, <2>1
  <2>4. i \in Nat
    BY <1>1, <2>3
  <2> HIDE DEF i
  <2>5. QED BY <1>3, <2>1, <2>2, <2>3, <2>4
<1>6. FeedLike(g) /\ SameApprovals(f, g) /\ g.blocks = all /\ g.index = index
  BY <1>2 DEF FeedLike, FeedFields, SameApprovals
<1>7. DOMAIN index = DOMAIN f.index
  OBVIOUS
<1> HIDE DEF index
<1>8. Finds(index, all, 0)
  <2>1. \A i \in Nat : i + 0 = i
    OBVIOUS
  <2>2. QED BY <1>5, <1>7, <2>1 DEF Finds
<1>9. FeedOK(g) /\ (Closed(blocks) => Closed(all))
  BY <1>3, <1>6, <1>8 DEF FeedOK, NoHarm
<1>10. QED BY <1>6, <1>9 DEF Kept, g

LEMMA WithHistory ==
  ASSUME NEW older, HistoryBlocks(older), NEW blocks, BlocksOK(blocks)
  PROVE  NoHarm(blocks, older \o blocks) /\ Chained(older, blocks, older \o blocks)
<1> DEFINE X == {b \in Range(older) \cup Range(blocks) : BlockLike(b)}
           all == older \o blocks
           n == Len(older)
<1>1. Listed(older) /\ \A i \in DOMAIN older : HistoryBlock(older[i]) /\ older[i] \in X
  BY AtPlace DEF HistoryBlocks, HistoryBlock
<1>2. Listed(blocks) /\ \A i \in DOMAIN blocks : blocks[i] \in X
  BY AtPlace DEF BlocksOK
<1>3. \A b \in X : BlockLike(b)
  OBVIOUS
<1> HIDE DEF X
<1>4. older \in Seq(X) /\ blocks \in Seq(X)
  BY <1>1, <1>2, InSeq
<1>5. all \in Seq(X) /\ Chained(older, blocks, all)
  BY <1>4, Joined
<1> HIDE DEF all
<1>6. BlocksOK(all)
  BY <1>3, <1>5, SeqListed DEF BlocksOK
<1>7. /\ n \in Nat /\ DOMAIN older = 1..n /\ Len(blocks) \in Nat /\ DOMAIN blocks = 1..Len(blocks)
      /\ DOMAIN all = 1..(n + Len(blocks))
      /\ \A i \in DOMAIN all : all[i] = IF i <= n THEN older[i] ELSE blocks[i - n]
  BY <1>5 DEF Chained
<1> HIDE DEF n
<1>8. ASSUME NEW i \in DOMAIN all
      PROVE  \/ i <= n /\ HistoryBlock(all[i])
             \/ i > n /\ i - n \in DOMAIN blocks /\ all[i] = blocks[i - n]
  <2>1. CASE i <= n
    <3>1. i \in DOMAIN older /\ all[i] = older[i]
      BY <1>7, <2>1
    <3>2. QED BY <1>1, <2>1, <3>1
  <2>2. CASE ~(i <= n)
    <3>1. i > n /\ i - n \in DOMAIN blocks
      BY <1>7, <2>2
    <3>2. QED BY <1>7, <2>2, <3>1
  <2>3. QED BY <2>1, <2>2
<1>9. ASSUME NEW i \in DOMAIN all, all[i].kind = "artifact"
      PROVE  i \in Nat /\ i - n \in DOMAIN blocks /\ all[i] = blocks[i - n]
  <2>1. ~HistoryBlock(all[i])
    BY <1>9 DEF HistoryBlock
  <2>2. i \in Nat
    BY <1>7
  <2>3. QED BY <1>8, <2>1, <2>2
<1>10. OnceShown(blocks) => OnceShown(all)
  <2>1. SUFFICES ASSUME OnceShown(blocks), NEW i \in DOMAIN all, NEW j \in DOMAIN all,
                        all[i].kind = "artifact", all[j].kind = "artifact", all[i].id = all[j].id
                 PROVE  i = j
    BY DEF OnceShown
  <2>2. i - n = j - n
    BY <1>9, <2>1 DEF OnceShown
  <2>3. QED BY <1>7, <1>9, <2>1, <2>2
<1>11. Closed(blocks) => Closed(all)
  BY <1>8 DEF Closed, HistoryBlock
<1>12. QED BY <1>5, <1>6, <1>10, <1>11 DEF NoHarm, all

----------------------------------------------------------------------------
(* Answers fill the feed.                                                      *)

LEMMA HistoryFills ==
  ASSUME NEW blocks, HistoryBlocks(blocks)
  PROVE  BlocksOK(blocks) /\ OnceShown(blocks) /\ Closed(blocks)
BY DEF HistoryBlocks, HistoryBlock, BlocksOK, OnceShown, Closed

LEMMA Refilled ==
  ASSUME NEW f, FeedLike(f), NEW blocks, BlocksOK(blocks), OnceShown(blocks)
  PROVE  /\ Kept(f, [f EXCEPT !.blocks = blocks, !.index = emptyFeed.index])
         /\ [f EXCEPT !.blocks = blocks, !.index = emptyFeed.index].blocks = blocks
<1> DEFINE index == emptyFeed.index
           g == [f EXCEPT !.blocks = blocks, !.index = index]
<1>1. DOMAIN index = {}
  BY DEF emptyFeed
<1> HIDE DEF index
<1>2. FeedLike(g) /\ SameApprovals(f, g) /\ g.blocks = blocks /\ g.index = index
  BY DEF FeedLike, FeedFields, SameApprovals
<1> HIDE DEF g
<1>3. FeedOK(g)
  BY <1>1, <1>2 DEF FeedOK, Finds
<1>4. QED BY <1>2, <1>3 DEF Kept, g, index

LEMMA SeedFills ==
  ASSUME NEW f, FeedOK(f), NEW turns, GoodTurns(turns)
  PROVE  Filled(f, SeedHistory(f, turns))
<1> DEFINE blocks == buildHistoryBlocks(turns)
           g == [f EXCEPT !.blocks = blocks, !.index = emptyFeed.index]
<1>1. BlocksOK(blocks) /\ OnceShown(blocks) /\ Closed(blocks)
  BY HistoryIs, HistoryFills
<1> HIDE DEF blocks
<1>2. Kept(f, g) /\ g.blocks = blocks
  BY <1>1, Refilled DEF FeedOK
<1>3. SeedHistory(f, turns) = f \/ SeedHistory(f, turns) = g
  BY DEF SeedHistory, blocks
<1> HIDE DEF g
<1>4. Filled(f, g)
  BY <1>1, <1>2 DEF Filled
<1>5. QED BY <1>3, <1>4, Unchanged

LEMMA ReconcileFills ==
  ASSUME NEW f, FeedOK(f), NEW turns, GoodTurns(turns)
  PROVE  Filled(f, ReconcileHistory(f, turns))
<1> DEFINE older == buildHistoryBlocks(turns)
           order == InOrder(Len(f.blocks), PlacesOf(f.blocks))
           artifacts == Arranged(f.blocks, order)
           all == older \o artifacts
           blocks == Arranged(all, interleaveArtifacts(all))
           g == [f EXCEPT !.blocks = blocks, !.index = emptyFeed.index]
<1>1. HistoryBlocks(older)
  BY HistoryIs
<1>2. Len(f.blocks) \in Nat /\ DOMAIN f.blocks = 1..Len(f.blocks)
  BY ListedFacts DEF FeedOK, BlocksOK
<1>3. order \in Seq(DOMAIN f.blocks) /\ Distinct(order)
  BY <1>2, InOrderFacts
<1> HIDE DEF older, order
<1>4. NoHarm(f.blocks, artifacts)
  BY <1>3, ArrangedBlocks DEF FeedOK
<1> HIDE DEF artifacts
<1>5. NoHarm(artifacts, all)
  BY <1>1, <1>4, WithHistory DEF NoHarm
<1> HIDE DEF all
<1>6. NoHarm(all, blocks)
  BY <1>5, Interleaved DEF NoHarm
<1>7. g = ReconcileHistory(f, turns)
  BY DEF ReconcileHistory, older, order, artifacts, all
<1> HIDE DEF blocks
<1>8. BlocksOK(blocks) /\ OnceShown(blocks) /\ (Closed(f.blocks) => Closed(blocks))
  BY <1>4, <1>5, <1>6 DEF NoHarm, FeedOK
<1>9. Kept(f, g) /\ g.blocks = blocks
  BY <1>8, Refilled DEF FeedOK
<1> HIDE DEF g
<1>10. QED BY <1>7, <1>8, <1>9 DEF Filled

LEMMA PrependFills ==
  ASSUME NEW f, FeedOK(f), NEW turns, GoodTurns(turns)
  PROVE  Filled(f, PrependHistory(f, turns))
<1> DEFINE older == buildHistoryBlocks(turns)
           all == older \o f.blocks
           n == Len(older)
           g == reorderBlocks(f, all, n)
<1>1. HistoryBlocks(older)
  BY HistoryIs
<1>2. g = PrependHistory(f, turns)
  BY DEF PrependHistory
<1> HIDE DEF older
<1>3. NoHarm(f.blocks, all) /\ Chained(older, f.blocks, all)
  BY <1>1, WithHistory DEF FeedOK
<1> HIDE DEF all
<1>4. /\ n \in Nat /\ Len(f.blocks) \in Nat /\ DOMAIN f.blocks = 1..Len(f.blocks)
      /\ DOMAIN all = 1..(n + Len(f.blocks))
      /\ \A i \in DOMAIN all : all[i] = IF i <= n THEN older[i] ELSE f.blocks[i - n]
  BY <1>3 DEF Chained
<1> HIDE DEF n
<1>5. ASSUME NEW i \in DOMAIN f.blocks PROVE i + n \in DOMAIN all /\ all[i + n] = f.blocks[i]
  <2>1. i + n \in DOMAIN all /\ ~(i + n <= n) /\ (i + n) - n = i
    BY <1>4
  <2>2. QED BY <1>4, <2>1
<1>6. Finds(f.index, all, n)
  <2>1. ASSUME NEW k \in DOMAIN f.index
        PROVE  /\ f.index[k] \in Nat /\ f.index[k] + n \in DOMAIN all
               /\ all[f.index[k] + n].kind = k[1] /\ all[f.index[k] + n].id = k[2] /\ k[1] # "artifact"
    <3>1. /\ f.index[k] \in Nat /\ f.index[k] + 0 \in DOMAIN f.blocks
          /\ f.blocks[f.index[k] + 0].kind = k[1] /\ f.blocks[f.index[k] + 0].id = k[2] /\ k[1] # "artifact"
      BY DEF FeedOK, Finds
    <3>2. f.index[k] + 0 = f.index[k]
      BY <3>1
    <3>3. QED BY <1>5, <3>1, <3>2
  <2>2. QED BY <2>1 DEF Finds
<1>7. FeedLike(f) /\ BlocksOK(all) /\ OnceShown(all) /\ (Closed(f.blocks) => Closed(all))
  BY <1>3 DEF FeedOK, NoHarm
<1>8. Kept(f, g) /\ (Closed(all) => Closed(g.blocks))
  BY <1>4, <1>6, <1>7, Reordered
<1> HIDE DEF g
<1>9. QED BY <1>2, <1>7, <1>8 DEF Filled

LEMMA ArtifactFills ==
  ASSUME NEW f, FeedOK(f), NEW artifact, artifact.ts \in Nat
  PROVE  Filled(f, ArtifactPublished(f, artifact))
<1> DEFINE b == Block("artifact", artifact.id, artifact.ts, 1, FALSE)
<1>1. BlockLike(b) /\ b.kind = "artifact" /\ b.id = artifact.id
  BY DEF Block, BlockLike, BlockFields
<1>2. \/ ArtifactPublished(f, artifact) = f
      \/ ArtifactPublished(f, artifact) = push(f, b) /\ ~HasBlock(f, "artifact", artifact.id)
  BY DEF ArtifactPublished
<1> HIDE DEF b
<1>3. ~HasBlock(f, "artifact", artifact.id) => Filled(f, push(f, b))
  BY <1>1, Pushed DEF Filled
<1>4. QED BY <1>2, <1>3, Unchanged

LEMMA UsageFills ==
  ASSUME NEW f, FeedOK(f), NEW turn
  PROVE  Filled(f, TurnUsage(f, turn))
<1> DEFINE b == Block("usage", turn.id, NoTime, 1, FALSE)
<1>1. BlockLike(b) /\ b.kind = "usage"
  BY DEF Block, BlockLike, BlockFields, NoTime
<1>2. TurnUsage(f, turn) = f \/ TurnUsage(f, turn) = push(f, b)
  BY DEF TurnUsage
<1> HIDE DEF b
<1>3. Filled(f, push(f, b))
  BY <1>1, Pushed DEF Filled
<1>4. QED BY <1>2, <1>3, Unchanged

\* A list of artifacts, each with its time.
GoodArtifacts(artifacts) == Len(artifacts) \in Nat /\ \A i \in 1..Len(artifacts) : artifacts[i].ts \in Nat

Adding(added, f, artifacts) ==
  added = [i \in 0..Len(artifacts) |-> IF i = 0 THEN f ELSE ArtifactPublished(added[i - 1], artifacts[i])]

LEMMA FilledTwice ==
  ASSUME NEW f, NEW g, NEW h, Filled(f, g), Filled(g, h)
  PROVE  Filled(f, h)
BY DEF Filled, Kept, SameApprovals

LEMMA AllArtifactsFill ==
  ASSUME NEW f, FeedOK(f), NEW artifacts, GoodArtifacts(artifacts), NEW added, Adding(added, f, artifacts)
  PROVE  Filled(f, added[Len(artifacts)])
<1> DEFINE n == Len(artifacts)
           good == {i \in 0..n : Filled(f, added[i])}
<1>1. n \in Nat /\ \A i \in 1..n : artifacts[i].ts \in Nat
  BY DEF GoodArtifacts
<1>2. added = [i \in 0..n |-> IF i = 0 THEN f ELSE ArtifactPublished(added[i - 1], artifacts[i])]
  BY DEF Adding
<1>3. 0 \in good
  <2>1. 0 \in 0..n /\ Filled(f, f)
    BY <1>1, Unchanged
  <2>2. added[0] = f
    BY <1>2, <2>1
  <2>3. QED BY <2>1, <2>2
<1>4. ASSUME NEW i \in 1..n, i - 1 \in good PROVE i \in good
  <2>1. i \in 0..n /\ i # 0 /\ Filled(f, added[i - 1])
    BY <1>1, <1>4
  <2>2. added[i] = ArtifactPublished(added[i - 1], artifacts[i])
    BY <1>2, <2>1
  <2>3. FeedOK(added[i - 1])
    BY <2>1 DEF Filled, Kept
  <2>4. Filled(added[i - 1], added[i])
    BY <1>1, <2>2, <2>3, ArtifactFills
  <2>5. Filled(f, added[i])
    BY <2>1, <2>4, FilledTwice
  <2>6. QED BY <2>1, <2>5
<1>5. n \in good
  <2> HIDE DEF good
  <2>1. \A i \in 0..n : i \in good
    BY <1>1, <1>3, <1>4, Induct
  <2>2. QED BY <1>1, <2>1
<1>6. QED BY <1>5

LEMMA AddingExists ==
  ASSUME NEW f, FeedOK(f), NEW artifacts, GoodArtifacts(artifacts)
  PROVE  \E added : Adding(added, f, artifacts)
<1> DEFINE n == Len(artifacts)
           Shown(i) == Block("artifact", artifacts[i].id, artifacts[i].ts, 1, FALSE)
           B == Range(f.blocks) \cup {Shown(i) : i \in 1..n}
           With(blocks) == [f EXCEPT !.blocks = blocks]
           V == {With(blocks) : blocks \in Seq(B)}
           step == [is \in (1..n) \X V |-> ArtifactPublished(is[2], artifacts[is[1]])]
<1>1. n \in Nat
  BY DEF GoodArtifacts
<1>2. f \in V
  <2>1. f.blocks \in Seq(B)
    <3>1. \A i \in DOMAIN f.blocks : f.blocks[i] \in B
      BY AtPlace
    <3> HIDE DEF B
    <3>2. QED BY <3>1, InSeq DEF FeedOK, BlocksOK
  <2>2. With(f.blocks) = f
    BY DEF FeedOK, FeedLike, FeedFields
  <2> HIDE DEF B, With
  <2>3. QED BY <2>1, <2>2
<1>3. ASSUME NEW i \in 1..n, NEW g \in V PROVE ArtifactPublished(g, artifacts[i]) \in V
  <2> DEFINE b == Shown(i)
  <2>1. b \in B
    OBVIOUS
  <2>2. ArtifactPublished(g, artifacts[i]) = g \/ ArtifactPublished(g, artifacts[i]) = push(g, b)
    BY DEF ArtifactPublished
  <2> HIDE DEF b, B
  <2>3. PICK blocks \in Seq(B) : g = With(blocks)
    OBVIOUS
  <2>4. push(g, b) = With(Append(blocks, b))
    BY <2>3 DEF push, FeedOK, FeedLike, FeedFields
  <2>5. Append(blocks, b) \in Seq(B)
    BY <2>1, Appended
  <2> HIDE DEF With
  <2>6. push(g, b) \in V
    BY <2>4, <2>5
  <2>7. QED BY <2>2, <2>6
<1> HIDE DEF V
<1>4. step \in [(1..n) \X V -> V] /\ \A i \in 1..n, g \in V : step[<<i, g>>] = ArtifactPublished(g, artifacts[i])
  BY <1>3
<1> HIDE DEF step
<1>5. PICK added : Recurs(added, n, V, f, step)
  BY <1>1, <1>2, <1>4, Recursion
<1>6. added \in [0..n -> V] /\ added[0] = f /\ \A i \in 1..n : added[i] = step[<<i, added[i - 1]>>]
  BY <1>5 DEF Recurs
<1>7. ASSUME NEW i \in 0..n PROVE added[i] = IF i = 0 THEN f ELSE ArtifactPublished(added[i - 1], artifacts[i])
  <2>1. CASE i = 0
    BY <1>6, <2>1
  <2>2. CASE i # 0
    <3>1. i \in 1..n /\ i - 1 \in 0..n
      BY <1>1, <2>2
    <3>2. added[i - 1] \in V
      BY <1>6, <3>1
    <3>3. QED BY <1>4, <1>6, <2>2, <3>1, <3>2
  <2>3. QED BY <2>1, <2>2
<1>8. added = [i \in 0..n |-> added[i]]
  BY <1>6
<1>9. Adding(added, f, artifacts)
  BY <1>7, <1>8 DEF Adding
<1>10. QED BY <1>9

LEMMA ArtifactsFill ==
  ASSUME NEW f, FeedOK(f), NEW artifacts, GoodArtifacts(artifacts)
  PROVE  Filled(f, PublishedArtifacts(f, artifacts))
<1> DEFINE added == CHOOSE added : Adding(added, f, artifacts)
           next == added[Len(artifacts)]
           g == reorderBlocks(next, next.blocks, 0)
<1>1. Adding(added, f, artifacts)
  BY AddingExists
<1>2. PublishedArtifacts(f, artifacts) = g
  BY DEF PublishedArtifacts, Adding
<1> HIDE DEF added
<1>3. Filled(f, next)
  BY <1>1, AllArtifactsFill
<1> HIDE DEF next
<1>4. FeedOK(next)
  BY <1>3 DEF Filled, Kept
<1>5. Kept(next, g) /\ (Closed(next.blocks) => Closed(g.blocks))
  BY <1>4, Reordered DEF FeedOK
<1> HIDE DEF g
<1>6. Filled(next, g)
  BY <1>5 DEF Filled
<1>7. QED BY <1>2, <1>3, <1>6, FilledTwice

----------------------------------------------------------------------------
(* Events change the feed.                                                     *)

LEMMA Found ==
  ASSUME NEW f, FeedOK(f), NEW key, Known(f, key)
  PROVE  f.index[key] \in DOMAIN f.blocks /\ BlockLike(f.blocks[f.index[key]])
<1>1. f.index[key] \in Nat /\ f.index[key] + 0 \in DOMAIN f.blocks
  BY DEF FeedOK, Finds, Known
<1>2. f.index[key] + 0 = f.index[key]
  BY <1>1
<1>3. QED BY <1>1, <1>2 DEF FeedOK, BlocksOK

LEMMA TextReplaced ==
  ASSUME NEW f, FeedOK(f), NEW p \in DOMAIN f.blocks, NEW text
  PROVE  Kept(f, [f EXCEPT !.blocks[p] = [f.blocks[p] EXCEPT !.text = text]])
<1> DEFINE b == [f.blocks[p] EXCEPT !.text = text]
<1>1. BlockLike(f.blocks[p])
  BY DEF FeedOK, BlocksOK
<1>2. BlockLike(b) /\ b.kind = f.blocks[p].kind /\ b.id = f.blocks[p].id
  BY <1>1 DEF BlockLike, BlockFields
<1> HIDE DEF b
<1>3. Kept(f, [f EXCEPT !.blocks[p] = b])
  BY <1>2, Replaced
<1>4. QED BY <1>3 DEF b

LEMMA MessageReplaced ==
  ASSUME NEW f, FeedOK(f), NEW p \in DOMAIN f.blocks, NEW text, NEW done
  PROVE  Kept(f, [f EXCEPT !.blocks[p] = [f.blocks[p] EXCEPT !.text = text, !.open = ~done]])
<1> DEFINE b == [f.blocks[p] EXCEPT !.text = text, !.open = ~done]
<1>1. BlockLike(f.blocks[p])
  BY DEF FeedOK, BlocksOK
<1>2. BlockLike(b) /\ b.kind = f.blocks[p].kind /\ b.id = f.blocks[p].id
  BY <1>1 DEF BlockLike, BlockFields
<1> HIDE DEF b
<1>3. Kept(f, [f EXCEPT !.blocks[p] = b])
  BY <1>2, Replaced
<1>4. QED BY <1>3 DEF b

LEMMA SysLineKeeps ==
  ASSUME NEW f, FeedOK(f), NEW ev, ev.ts \in Nat
  PROVE  Filled(f, SysLine(f, ev))
<1> DEFINE b == Block("sys", ev.seq, ev.ts, 1, FALSE)
<1>1. BlockLike(b) /\ b.kind = "sys"
  BY DEF Block, BlockLike, BlockFields
<1>2. SysLine(f, ev) = push(f, b)
  BY DEF SysLine
<1> HIDE DEF b
<1>3. QED BY <1>1, <1>2, Pushed DEF Filled

LEMMA UserMessageKeeps ==
  ASSUME NEW f, FeedOK(f), NEW ev, ev.ts \in Nat
  PROVE  Kept(f, UserMessage(f, ev))
<1> DEFINE b == userBlock(ev.id, ev.ts, ev.prompt)
<1>1. b = Block(userBlockKind(ev.prompt), ev.id, ev.ts, 1, FALSE)
  BY DEF userBlock
<1>2. UserMessage(f, ev) = push(f, b)
  BY DEF UserMessage
<1> HIDE DEF b
<1>3. BlockLike(b) /\ b.kind = userBlockKind(ev.prompt)
  BY <1>1 DEF Block, BlockLike, BlockFields
<1>4. b.kind # "artifact"
  BY <1>3, UserIsNoArtifact
<1>5. QED BY <1>2, <1>3, <1>4, Pushed

LEMMA Finished ==
  ASSUME NEW f, FeedOK(f)
  PROVE  Kept(f, finishStreaming(f)) /\ Closed(finishStreaming(f).blocks)
<1> DEFINE n == Len(f.blocks)
           all == [i \in DOMAIN f.blocks |->
                     IF f.blocks[i].kind = "agent" THEN [f.blocks[i] EXCEPT !.open = FALSE] ELSE f.blocks[i]]
           g == finishStreaming(f)
<1>1. FeedLike(g) /\ SameApprovals(f, g) /\ g.blocks = all /\ g.index = f.index
  BY DEF finishStreaming, FeedOK, FeedLike, FeedFields, SameApprovals
<1>2. n \in Nat /\ DOMAIN f.blocks = 1..n
  BY ListedFacts DEF FeedOK, BlocksOK
<1>3. all = [i \in 1..n |-> all[i]] /\ DOMAIN all = 1..n
  BY <1>2
<1>4. ASSUME NEW i \in 1..n
      PROVE  /\ BlockLike(all[i]) /\ all[i].kind = f.blocks[i].kind /\ all[i].id = f.blocks[i].id
             /\ all[i].kind = "agent" => ~all[i].open
  <2> DEFINE b == f.blocks[i]
  <2>1. all[i] = IF b.kind = "agent" THEN [b EXCEPT !.open = FALSE] ELSE b
    BY <1>2
  <2>2. BlockLike(b)
    BY <1>2 DEF FeedOK, BlocksOK
  <2> HIDE DEF all, b
  <2>3. /\ BlockLike(all[i]) /\ all[i].kind = b.kind /\ all[i].id = b.id
        /\ all[i].kind = "agent" => ~all[i].open
    BY <2>1, <2>2 DEF BlockLike, BlockFields
  <2>4. QED BY <2>3 DEF b
<1> HIDE DEF all, g
<1>5. BlocksOK(all)
  BY <1>2, <1>3, <1>4, FunctionListed DEF BlocksOK
<1>6. OnceShown(all)
  BY <1>2, <1>3, <1>4 DEF FeedOK, OnceShown
<1>7. Finds(f.index, all, 0)
  BY <1>2, <1>3, <1>4 DEF FeedOK, Finds
<1>8. Closed(all)
  BY <1>3, <1>4 DEF Closed
<1>9. FeedOK(g)
  BY <1>1, <1>5, <1>6, <1>7 DEF FeedOK
<1>10. QED BY <1>1, <1>8, <1>9 DEF Kept, g

LEMMA TurnEndedCloses ==
  ASSUME NEW f, FeedOK(f), NEW ev, ev.ts \in Nat
  PROVE  Kept(f, TurnEnded(f, ev)) /\ Closed(TurnEnded(f, ev).blocks)
<1> DEFINE g == finishStreaming(f)
           h == SysLine(g, ev)
<1>1. Kept(f, g) /\ Closed(g.blocks)
  BY Finished
<1>2. h = TurnEnded(f, ev)
  BY DEF TurnEnded
<1> HIDE DEF g
<1>3. Filled(g, h)
  BY <1>1, SysLineKeeps DEF Kept
<1> HIDE DEF h
<1>4. QED BY <1>1, <1>2, <1>3 DEF Filled, Kept, SameApprovals

LEMMA StreamDeltaKeeps ==
  ASSUME NEW f, FeedOK(f), NEW ev, ev.ts \in Nat
  PROVE  Kept(f, StreamDelta(f, ev))
<1> DEFINE kind == IF ev.of = "reasoning" THEN "think" ELSE "agent"
           key == <<kind, ev.id>>
           b == Block(kind, ev.id, ev.ts, ev.text, TRUE)
           p == f.index[key]
           text == f.blocks[p].text + ev.text
           g == [f EXCEPT !.blocks[p] = [f.blocks[p] EXCEPT !.text = text]]
<1>1. BlockLike(b) /\ b.kind = key[1] /\ b.id = key[2] /\ b.kind # "artifact"
  BY DEF Block, BlockLike, BlockFields
<1>2. \/ StreamDelta(f, ev) = f
      \/ StreamDelta(f, ev) = PushKeyed(f, b, key)
      \/ Known(f, key) /\ StreamDelta(f, ev) = g
  BY DEF StreamDelta, update
<1> HIDE DEF b, key, text
<1>3. Kept(f, PushKeyed(f, b, key))
  BY <1>1, PushedKeyed
<1>4. Known(f, key) => Kept(f, g)
  <2>1. SUFFICES ASSUME Known(f, key) PROVE Kept(f, g)
    OBVIOUS
  <2>2. p \in DOMAIN f.blocks
    BY <2>1, Found
  <2> HIDE DEF p
  <2>3. QED BY <2>2, TextReplaced
<1>5. QED BY <1>2, <1>3, <1>4, Unchanged DEF Filled

LEMMA MessageItemKeeps ==
  ASSUME NEW f, FeedOK(f), NEW ev, ev.ts \in Nat
  PROVE  Kept(f, MessageItem(f, ev))
<1> DEFINE key == <<"agent", ev.id>>
           think == <<"think", ev.id>>
           done == ev.type = "item/completed"
           b == Block("agent", ev.id, ev.ts, ev.text, FALSE)
           c == Block("think", ev.id, ev.ts, ev.text, FALSE)
           p == f.index[key]
           text == IF ev.text > 0 THEN ev.text ELSE f.blocks[p].text
           g == [f EXCEPT !.blocks[p] = [f.blocks[p] EXCEPT !.text = text, !.open = ~done]]
<1>1. BlockLike(b) /\ b.kind = key[1] /\ b.id = key[2] /\ b.kind # "artifact"
  BY DEF Block, BlockLike, BlockFields
<1>2. BlockLike(c) /\ c.kind = think[1] /\ c.id = think[2] /\ c.kind # "artifact"
  BY DEF Block, BlockLike, BlockFields
<1>3. \/ MessageItem(f, ev) = f
      \/ MessageItem(f, ev) = PushKeyed(f, b, key)
      \/ MessageItem(f, ev) = PushKeyed(f, c, think)
      \/ Known(f, key) /\ MessageItem(f, ev) = g
  BY DEF MessageItem, update
<1> HIDE DEF b, c, key, think, text, done
<1>4. Kept(f, PushKeyed(f, b, key))
  BY <1>1, PushedKeyed
<1>5. Kept(f, PushKeyed(f, c, think))
  BY <1>2, PushedKeyed
<1>6. Known(f, key) => Kept(f, g)
  <2>1. SUFFICES ASSUME Known(f, key) PROVE Kept(f, g)
    OBVIOUS
  <2>2. p \in DOMAIN f.blocks
    BY <2>1, Found
  <2> HIDE DEF p
  <2>3. QED BY <2>2, MessageReplaced
<1>7. QED BY <1>3, <1>4, <1>5, <1>6, Unchanged DEF Filled

LEMMA ReasoningItemKeeps ==
  ASSUME NEW f, FeedOK(f), NEW ev, ev.ts \in Nat
  PROVE  Kept(f, ReasoningItem(f, ev))
<1> DEFINE key == <<"think", ev.id>>
           done == ev.type = "item/completed"
           b == Block("think", ev.id, ev.ts, ev.text, ~done)
           p == f.index[key]
           text == IF ev.text > 0 THEN ev.text ELSE f.blocks[p].text
           g == [f EXCEPT !.blocks[p] = [f.blocks[p] EXCEPT !.text = text, !.open = ~done]]
<1>1. BlockLike(b) /\ b.kind = key[1] /\ b.id = key[2] /\ b.kind # "artifact"
  BY DEF Block, BlockLike, BlockFields
<1>2. \/ ReasoningItem(f, ev) = f
      \/ ReasoningItem(f, ev) = PushKeyed(f, b, key)
      \/ Known(f, key) /\ ReasoningItem(f, ev) = g
  BY DEF ReasoningItem, update
<1> HIDE DEF b, key, text, done
<1>3. Kept(f, PushKeyed(f, b, key))
  BY <1>1, PushedKeyed
<1>4. Known(f, key) => Kept(f, g)
  <2>1. SUFFICES ASSUME Known(f, key) PROVE Kept(f, g)
    OBVIOUS
  <2>2. p \in DOMAIN f.blocks
    BY <2>1, Found
  <2> HIDE DEF p
  <2>3. QED BY <2>2, MessageReplaced
<1>5. QED BY <1>2, <1>3, <1>4, Unchanged DEF Filled

LEMMA WorkItemKeeps ==
  ASSUME NEW f, FeedOK(f), NEW ev, ev.ts \in Nat, NEW kind, kind # "artifact"
  PROVE  Kept(f, WorkItem(f, ev, kind))
<1> DEFINE key == <<kind, ev.id>>
           b == Block(kind, ev.id, ev.ts, ev.text, FALSE)
           p == f.index[key]
           text == ev.text
           g == [f EXCEPT !.blocks[p] = [f.blocks[p] EXCEPT !.text = text]]
<1>1. BlockLike(b) /\ b.kind = key[1] /\ b.id = key[2] /\ b.kind # "artifact"
  BY DEF Block, BlockLike, BlockFields
<1>2. \/ WorkItem(f, ev, kind) = f
      \/ WorkItem(f, ev, kind) = PushKeyed(f, b, key)
      \/ Known(f, key) /\ WorkItem(f, ev, kind) = g
  BY DEF WorkItem, update
<1> HIDE DEF b, key, text
<1>3. Kept(f, PushKeyed(f, b, key))
  BY <1>1, PushedKeyed
<1>4. Known(f, key) => Kept(f, g)
  <2>1. SUFFICES ASSUME Known(f, key) PROVE Kept(f, g)
    OBVIOUS
  <2>2. p \in DOMAIN f.blocks
    BY <2>1, Found
  <2> HIDE DEF p
  <2>3. QED BY <2>2, TextReplaced
<1>5. QED BY <1>2, <1>3, <1>4, Unchanged DEF Filled

LEMMA OtherItemKeeps ==
  ASSUME NEW f, FeedOK(f), NEW ev, ev.ts \in Nat
  PROVE  Kept(f, OtherItem(f, ev))
<1> DEFINE key == <<"raw", ev.id>>
           b == Block("raw", ev.id, ev.ts, 1, FALSE)
<1>1. BlockLike(b) /\ b.kind = key[1] /\ b.id = key[2] /\ b.kind # "artifact"
  BY DEF Block, BlockLike, BlockFields
<1>2. OtherItem(f, ev) = f \/ OtherItem(f, ev) = PushKeyed(f, b, key)
  BY DEF OtherItem
<1> HIDE DEF b, key
<1>3. Kept(f, PushKeyed(f, b, key))
  BY <1>1, PushedKeyed
<1>4. QED BY <1>2, <1>3, Unchanged DEF Filled

LEMMA ItemEventKeeps ==
  ASSUME NEW f, FeedOK(f), NEW ev, ev.ts \in Nat
  PROVE  Kept(f, ItemEvent(f, ev))
<1>w. "agentMessage" \notin DOMAIN WorkItems /\ "reasoning" \notin DOMAIN WorkItems
  BY DEF WorkItems
<1>1. CASE ev.of = "agentMessage"
  <2>1. ItemEvent(f, ev) = MessageItem(f, ev)
    BY <1>w, <1>1 DEF ItemEvent
  <2>2. QED BY <2>1, MessageItemKeeps
<1>2. CASE ev.of = "reasoning"
  <2>1. ItemEvent(f, ev) = ReasoningItem(f, ev)
    BY <1>w, <1>2 DEF ItemEvent
  <2>2. QED BY <2>1, ReasoningItemKeeps
<1>3. CASE ev.of \in DOMAIN WorkItems
  <2>1. WorkItems[ev.of] # "artifact" /\ ev.of # "agentMessage" /\ ev.of # "reasoning"
    BY <1>3 DEF WorkItems
  <2>2. ItemEvent(f, ev) = WorkItem(f, ev, WorkItems[ev.of])
    BY <1>3, <2>1 DEF ItemEvent
  <2>3. QED BY <2>1, <2>2, WorkItemKeeps
<1>4. CASE ev.of # "agentMessage" /\ ev.of # "reasoning" /\ ev.of \notin DOMAIN WorkItems
  <2>1. ItemEvent(f, ev) = OtherItem(f, ev)
    BY <1>4 DEF ItemEvent
  <2>2. QED BY <2>1, OtherItemKeeps
<1>5. QED BY <1>1, <1>2, <1>3, <1>4

\* The approvals are another set, as of another moment.
WithApprovals(f, g, approvals, seq) ==
  FeedOK(g) /\ g.approvals = approvals /\ g.approvalsSeq = seq /\ g.blocks = f.blocks

LEMMA ApprovalsReplaced ==
  ASSUME NEW f, FeedOK(f), NEW approvals, NEW seq
  PROVE  WithApprovals(f, [f EXCEPT !.approvals = approvals, !.approvalsSeq = seq], approvals, seq)
<1> DEFINE g == [f EXCEPT !.approvals = approvals, !.approvalsSeq = seq]
<1>1. FeedLike(g) /\ g.approvals = approvals /\ g.approvalsSeq = seq /\ g.blocks = f.blocks /\ g.index = f.index
  BY DEF FeedOK, FeedLike, FeedFields
<1> HIDE DEF g
<1>2. FeedOK(g)
  BY <1>1 DEF FeedOK
<1>3. QED BY <1>1, <1>2 DEF WithApprovals, g

\* What the event of an approval makes of those that wait.
Asked(f, g, ev) ==
  /\ FeedOK(g) /\ g.approvals = f.approvals \cup {ev.id}
  /\ g.approvalsSeq = IF ev.seq > f.approvalsSeq THEN ev.seq ELSE f.approvalsSeq
Settled(f, g, ev) ==
  /\ FeedOK(g) /\ g.approvals = f.approvals \ {ev.id}
  /\ g.approvalsSeq = IF ev.seq > f.approvalsSeq THEN ev.seq ELSE f.approvalsSeq

LEMMA RequestAsks ==
  ASSUME NEW f, FeedOK(f), NEW ev, ev.ts \in Nat
  PROVE  Asked(f, ApprovalRequested(f, ev), ev)
<1> DEFINE approvals == f.approvals \cup {ev.id}
           seq == IF ev.seq > f.approvalsSeq THEN ev.seq ELSE f.approvalsSeq
           g == [f EXCEPT !.approvals = approvals, !.approvalsSeq = seq]
           h == SysLine(g, ev)
<1>1. h = ApprovalRequested(f, ev)
  BY DEF ApprovalRequested
<1> HIDE DEF seq, approvals
<1>a. WithApprovals(f, g, approvals, seq)
  BY ApprovalsReplaced
<1> HIDE DEF g
<1>2. FeedOK(g) /\ g.approvals = approvals /\ g.approvalsSeq = seq
  BY <1>a DEF WithApprovals
<1>3. Filled(g, h)
  BY <1>2, SysLineKeeps
<1> HIDE DEF h
<1>4. QED BY <1>1, <1>2, <1>3 DEF Asked, Filled, Kept, SameApprovals, seq, approvals

LEMMA ResolutionSettles ==
  ASSUME NEW f, FeedOK(f), NEW ev, ev.ts \in Nat
  PROVE  Settled(f, ApprovalResolved(f, ev), ev)
<1> DEFINE approvals == f.approvals \ {ev.id}
           seq == IF ev.seq > f.approvalsSeq THEN ev.seq ELSE f.approvalsSeq
           g == [f EXCEPT !.approvals = approvals, !.approvalsSeq = seq]
           h == SysLine(g, ev)
<1>1. h = ApprovalResolved(f, ev)
  BY DEF ApprovalResolved
<1> HIDE DEF seq, approvals
<1>a. WithApprovals(f, g, approvals, seq)
  BY ApprovalsReplaced
<1> HIDE DEF g
<1>2. FeedOK(g) /\ g.approvals = approvals /\ g.approvalsSeq = seq
  BY <1>a DEF WithApprovals
<1>3. Filled(g, h)
  BY <1>2, SysLineKeeps
<1> HIDE DEF h
<1>4. QED BY <1>1, <1>2, <1>3 DEF Settled, Filled, Kept, SameApprovals, seq, approvals

\* A snapshot is taken over as a whole or not at all.
Snapped(f, g, seq, approvals) ==
  /\ FeedOK(g) /\ g.blocks = f.blocks
  /\ \/ g.approvals = f.approvals /\ g.approvalsSeq = f.approvalsSeq
     \/ g.approvals = approvals /\ g.approvalsSeq = seq /\ ~(seq < f.approvalsSeq)

LEMMA SnapshotSnaps ==
  ASSUME NEW f, FeedOK(f), NEW seq, NEW approvals
  PROVE  Snapped(f, ApprovalsSnapshot(f, seq, approvals), seq, approvals)
<1> DEFINE g == [f EXCEPT !.approvals = approvals, !.approvalsSeq = seq]
<1>1. WithApprovals(f, g, approvals, seq)
  BY ApprovalsReplaced
<1>2. \/ ApprovalsSnapshot(f, seq, approvals) = f
      \/ ApprovalsSnapshot(f, seq, approvals) = g /\ ~(seq < f.approvalsSeq)
  BY DEF ApprovalsSnapshot
<1> HIDE DEF g
<1>3. QED BY <1>1, <1>2 DEF Snapped, WithApprovals

\* One event, whichever it is.
Reduced(f, g, ev) ==
  /\ FeedOK(g)
  /\ \/ ev.type = "loom/approval-requested" /\ Asked(f, g, ev)
     \/ ev.type = "loom/approval-resolved" /\ Settled(f, g, ev)
     \/ ev.type \notin {"loom/approval-requested", "loom/approval-resolved"} /\ SameApprovals(f, g)
  /\ ev.type \in TurnEnds => Closed(g.blocks)

LEMMA EventReduces ==
  ASSUME NEW f, FeedOK(f), NEW ev, ev.ts \in Nat
  PROVE  Reduced(f, reduceFeed(f, ev), ev)
<1> DEFINE g == reduceFeed(f, ev)
           approval == {"loom/approval-requested", "loom/approval-resolved"}
<1> DEFINE others == {"loom/user-message", "loom/artifact-published", "loom/turn-started", "delta"}
<1>1. \A type \in TurnEnds : type \notin approval \cup others /\ type \notin ItemEvents
  BY DEF TurnEnds, ItemEvents
<1>2. \A type \in ItemEvents : type \notin approval \cup others
  BY DEF ItemEvents
<1>0. \A type \in approval \cup others : type \notin TurnEnds /\ type \notin ItemEvents
  BY <1>1, <1>2
<1>3. Kept(f, g) /\ ev.type \notin approval /\ ev.type \notin TurnEnds => Reduced(f, g, ev)
  <2> HIDE DEF g
  <2>1. QED BY DEF Kept, Reduced
<1>4. CASE ev.type = "loom/user-message"
  <2>0. ev.type \notin TurnEnds /\ ev.type \notin ItemEvents
    BY <1>0, <1>4
  <2>1. g = UserMessage(f, ev)
    BY <1>4, <2>0 DEF reduceFeed
  <2> HIDE DEF g
  <2>2. QED BY <1>3, <1>4, <2>0, <2>1, UserMessageKeeps DEF g
<1>5. CASE ev.type = "loom/artifact-published"
  <2>0. ev.type \notin TurnEnds /\ ev.type \notin ItemEvents
    BY <1>0, <1>5
  <2> DEFINE artifact == [id |-> ev.id, ts |-> ev.ts]
  <2>1. g = ArtifactPublished(f, artifact) /\ artifact.ts \in Nat
    BY <1>5, <2>0 DEF reduceFeed
  <2> HIDE DEF g, artifact
  <2>2. Kept(f, g)
    BY <2>1, ArtifactFills DEF Filled
  <2>3. QED BY <1>3, <1>5, <2>0, <2>2 DEF g
<1>6. CASE ev.type = "loom/approval-requested"
  <2>0. ev.type \notin TurnEnds /\ ev.type \notin ItemEvents
    BY <1>0, <1>6
  <2>1. g = ApprovalRequested(f, ev)
    BY <1>6, <2>0 DEF reduceFeed
  <2> HIDE DEF g
  <2>2. Asked(f, g, ev)
    BY <2>1, RequestAsks
  <2>3. ev.type \notin TurnEnds
    BY <1>1, <1>6
  <2>4. Reduced(f, g, ev)
    BY <1>6, <2>2, <2>3 DEF Reduced, Asked
  <2>5. QED BY <2>4 DEF g
<1>7. CASE ev.type = "loom/approval-resolved"
  <2>0. ev.type \notin TurnEnds /\ ev.type \notin ItemEvents
    BY <1>0, <1>7
  <2>1. g = ApprovalResolved(f, ev)
    BY <1>7, <2>0 DEF reduceFeed
  <2> HIDE DEF g
  <2>2. Settled(f, g, ev)
    BY <2>1, ResolutionSettles
  <2>3. ev.type \notin TurnEnds
    BY <1>1, <1>7
  <2>4. Reduced(f, g, ev)
    BY <1>7, <2>2, <2>3 DEF Reduced, Settled
  <2>5. QED BY <2>4 DEF g
<1>8. CASE ev.type \in TurnEnds
  <2>1. ev.type \notin approval
    BY <1>1, <1>8
  <2>2. g = TurnEnded(f, ev)
    BY <1>1, <1>8 DEF reduceFeed
  <2> HIDE DEF g
  <2>3. Kept(f, g) /\ Closed(g.blocks)
    BY <2>2, TurnEndedCloses
  <2>4. Reduced(f, g, ev)
    BY <2>1, <2>3 DEF Reduced, Kept
  <2>5. QED BY <2>4 DEF g
<1>9. CASE ev.type = "loom/turn-started"
  <2>0. ev.type \notin TurnEnds /\ ev.type \notin ItemEvents
    BY <1>0, <1>9
  <2>1. ev.type \notin TurnEnds /\ ev.type \notin approval
    BY <1>1, <1>9
  <2>2. g = SysLine(f, ev)
    BY <1>9, <2>0, <2>1 DEF reduceFeed
  <2> HIDE DEF g
  <2>3. QED BY <1>3, <2>1, <2>2, SysLineKeeps DEF g, Filled
<1>10. CASE ev.type = "delta"
  <2>0. ev.type \notin TurnEnds /\ ev.type \notin ItemEvents
    BY <1>0, <1>10
  <2>1. ev.type \notin TurnEnds /\ ev.type \notin approval
    BY <1>1, <1>10
  <2>2. g = StreamDelta(f, ev)
    BY <1>10, <2>0, <2>1 DEF reduceFeed
  <2> HIDE DEF g
  <2>3. QED BY <1>3, <2>1, <2>2, StreamDeltaKeeps DEF g
<1>11. CASE ev.type \in ItemEvents
  <2>1. ev.type \notin TurnEnds /\ ev.type \notin approval
    BY <1>1, <1>2, <1>11
  <2>2. g = ItemEvent(f, ev)
    BY <1>2, <1>11, <2>1 DEF reduceFeed
  <2> HIDE DEF g
  <2>3. QED BY <1>3, <2>1, <2>2, ItemEventKeeps DEF g
<1>12. CASE /\ ev.type \notin {"loom/user-message", "loom/artifact-published", "loom/turn-started", "delta"}
            /\ ev.type \notin approval /\ ev.type \notin TurnEnds /\ ev.type \notin ItemEvents
  <2>1. g = f
    BY <1>12 DEF reduceFeed
  <2> HIDE DEF g
  <2>2. QED BY <1>3, <1>12, <2>1, Unchanged DEF g, Filled
<1>13. QED BY <1>4, <1>5, <1>6, <1>7, <1>8, <1>9, <1>10, <1>11, <1>12

----------------------------------------------------------------------------
(* What the Hub answers.                                                       *)

Reached(n) == script \in Scripts /\ n \in Nat /\ n <= Len(script)

LEMMA ScriptFacts ==
  ASSUME NEW n, Reached(n)
  PROVE  /\ Len(script) \in Nat /\ DOMAIN script = 1..Len(script)
         /\ \A i \in 1..n : /\ i \in DOMAIN script /\ script[i].ev.seq = i /\ script[i].ev.ts \in Nat
                            /\ GoodItems(script[i].item)
<1>1. Listed(script) /\ \A i \in DOMAIN script : script[i].ev.seq = i /\ script[i].ev.ts \in Nat /\ GoodItems(script[i].item)
  BY ScriptAssumption DEF Reached, Listed, GoodItems, GoodItem, ItemsListed
<1>2. Len(script) \in Nat /\ DOMAIN script = 1..Len(script)
  BY <1>1, ListedFacts
<1>3. \A i \in 1..n : i \in DOMAIN script
  BY <1>2 DEF Reached
<1>4. QED BY <1>1, <1>2, <1>3

LEMMA ItemsAreGood ==
  ASSUME NEW n, Reached(n), NEW turn
  PROVE  GoodItems(ItemsOf(n, turn))
<1> DEFINE X == {item \in UNION {Range(script[i].item) : i \in 1..n} : GoodItem(item)}
           seqs == [i \in 1..n |-> IF script[i].turn = turn THEN script[i].item ELSE <<>>]
           none == <<>>
<1>1. n \in Nat
  BY DEF Reached
<1>2. ASSUME NEW i \in 1..n PROVE script[i].item \in Seq(X)
  <2>1. Listed(script[i].item) /\ \A j \in DOMAIN script[i].item : GoodItem(script[i].item[j])
    BY ScriptFacts DEF GoodItems
  <2>2. \A j \in DOMAIN script[i].item : script[i].item[j] \in Range(script[i].item)
    BY AtPlace
  <2>3. \A j \in DOMAIN script[i].item : script[i].item[j] \in X
    BY <2>1, <2>2
  <2> HIDE DEF X
  <2>4. QED BY <2>1, <2>3, InSeq
<1>3. \A item \in X : GoodItem(item)
  OBVIOUS
<1> HIDE DEF X
<1>4. none \in Seq(X)
  OBVIOUS
<1>5. \A i \in 1..n : seqs[i] \in Seq(X)
  BY <1>2, <1>4
<1>6. DOMAIN seqs = 1..n /\ seqs = [i \in 1..n |-> seqs[i]]
  OBVIOUS
<1>7. ItemsOf(n, turn) = FlattenSeq(seqs)
  BY DEF ItemsOf
<1> HIDE DEF seqs
<1>8. Listed(seqs)
  BY <1>1, <1>6, FunctionListed
<1>9. seqs \in Seq(Seq(X))
  BY <1>5, <1>6, <1>8, InSeq
<1>10. FlattenSeq(seqs) \in Seq(X)
  BY <1>9, FlattenIn
<1>11. QED BY <1>3, <1>7, <1>10, SeqListed DEF GoodItems

LEMMA TurnsAreCounted ==
  ASSUME NEW n, Reached(n)
  PROVE  Cardinality(TurnsOf(n)) \in Nat
<1> DEFINE turns == TurnsOf(n)
           f == [i \in 1..n |-> script[i].turn]
<1>1. turns = {script[i].turn : i \in 1..n}
  BY DEF TurnsOf
<1> HIDE DEF turns
<1>2. f \in Surjection(1..n, turns)
  BY <1>1 DEF Surjection
<1>3. IsFiniteSet(1..n)
  BY FS_Interval DEF Reached
<1> HIDE DEF f
<1>4. IsFiniteSet(turns)
  BY <1>2, <1>3, FS_Surjection
<1>5. Cardinality(turns) \in Nat
  BY <1>4, FS_CardinalityType
<1>6. QED BY <1>5 DEF turns

LEMMA RolloutIsGood ==
  ASSUME NEW n, Reached(n)
  PROVE  GoodTurns(Rollout(n))
<1> DEFINE count == Cardinality(TurnsOf(n))
           live == [t \in 1..count |-> LiveTurn(n, t)]
           X == {turn \in Range(PastTurns) \cup Range(live) : GoodTurn(turn)}
<1>1. count \in Nat
  BY TurnsAreCounted
<1>2. Listed(PastTurns) /\ \A i \in DOMAIN PastTurns : GoodTurn(PastTurns[i])
  BY HistoryAssumption DEF Listed, GoodTurn, GoodItems, GoodItem, ItemsListed
<1>3. ASSUME NEW t \in 1..count PROVE GoodTurn(live[t])
  <2> DEFINE turn == LiveTurn(n, t)
  <2>1. live[t] = turn
    OBVIOUS
  <2>2. turn.items = ItemsOf(n, t) /\ turn.ts = n
    BY DEF LiveTurn
  <2> HIDE DEF turn, live
  <2>3. GoodTurn(turn)
    BY <2>2, ItemsAreGood DEF GoodTurn, Reached
  <2>4. QED BY <2>1, <2>3
<1>4. DOMAIN live = 1..count /\ live = [t \in 1..count |-> live[t]]
  OBVIOUS
<1>5. Rollout(n) = PastTurns \o live
  BY DEF Rollout
<1> HIDE DEF live, count
<1>6. Listed(live)
  BY <1>1, <1>4, FunctionListed
<1>7. \A i \in DOMAIN PastTurns : PastTurns[i] \in X
  BY <1>2, AtPlace
<1>8. \A i \in DOMAIN live : live[i] \in X
  BY <1>3, <1>4, AtPlace
<1>9. \A turn \in X : GoodTurn(turn)
  OBVIOUS
<1> HIDE DEF X
<1>10. PastTurns \in Seq(X) /\ live \in Seq(X)
  BY <1>2, <1>6, <1>7, <1>8, InSeq
<1>11. PastTurns \o live \in Seq(X)
  BY <1>10, Joined
<1>12. QED BY <1>5, <1>9, <1>11, SeqListed DEF GoodTurns

LEMMA WindowIsGood ==
  ASSUME NEW turns, GoodTurns(turns), NEW count \in Nat \ {0}, NEW offset \in Nat
  PROVE  GoodTurns(Window(turns, count, offset)) /\ Len(Window(turns, count, offset)) \in Nat
<1> DEFINE newest == Len(turns) - offset
           from == IF newest > count THEN newest - count + 1 ELSE 1
           X == {turn \in Range(turns) : GoodTurn(turn)}
           window == SubSeq(turns, from, newest)
<1>1. Listed(turns) /\ \A i \in DOMAIN turns : GoodTurn(turns[i])
  BY DEF GoodTurns
<1>2. Len(turns) \in Nat /\ DOMAIN turns = 1..Len(turns)
  BY <1>1, ListedFacts
<1>3. from \in Int /\ newest \in Int /\ from >= 1 /\ newest <= Len(turns)
  BY <1>2
<1>4. \A i \in from..newest : i \in DOMAIN turns
  BY <1>2, <1>3
<1>5. \A i \in DOMAIN turns : turns[i] \in X
  BY <1>1, AtPlace
<1>6. \A turn \in X : GoodTurn(turn)
  OBVIOUS
<1>7. Window(turns, count, offset) = window
  BY DEF Window
<1> HIDE DEF X, from, newest
<1>8. \A i \in from..newest : turns[i] \in X
  BY <1>4, <1>5
<1>9. window \in Seq(X)
  BY <1>3, <1>8, SubSeqProperties
<1> HIDE DEF window
<1>10. Listed(window) /\ \A i \in DOMAIN window : window[i] \in X
  BY <1>9, SeqListed
<1>11. Len(window) \in Nat
  BY <1>10, ListedFacts
<1>12. QED BY <1>6, <1>7, <1>10, <1>11 DEF GoodTurns

LEMMA PublishedIsGood ==
  ASSUME NEW n, Reached(n)
  PROVE  GoodArtifacts(Published(n))
<1> DEFINE at == InOrder(n, {i \in 1..n : script[i].ev.type = "loom/artifact-published"})
           artifacts == [i \in DOMAIN at |-> [id |-> script[at[i]].ev.id, ts |-> script[at[i]].ev.ts]]
<1>1. n \in Nat
  BY DEF Reached
<1>2. at \in Seq(1..n)
  BY <1>1, InOrderFacts
<1>3. Published(n) = artifacts
  BY DEF Published
<1> HIDE DEF at
<1>4. Len(at) \in Nat /\ DOMAIN at = 1..Len(at) /\ \A i \in DOMAIN at : at[i] \in 1..n
  BY <1>2, SeqListed, ListedFacts
<1>5. \A i \in DOMAIN at : artifacts[i].ts = script[at[i]].ev.ts
  OBVIOUS
<1>6. artifacts = [i \in 1..Len(at) |-> artifacts[i]]
  BY <1>4
<1> HIDE DEF artifacts
<1>7. Len(artifacts) = Len(at)
  BY <1>4, <1>6, FunctionListed
<1>8. \A i \in 1..Len(artifacts) : artifacts[i].ts \in Nat
  BY <1>4, <1>5, <1>7, ScriptFacts
<1>9. QED BY <1>3, <1>4, <1>7, <1>8 DEF GoodArtifacts

----------------------------------------------------------------------------
(* The invariant.                                                              *)

SourceOK ==
  /\ DOMAIN source = {"state", "openedOnce", "cursor", "list", "gap"}
  /\ source.cursor \in 0..emitted
  /\ source.state = "live" => source.openedOnce

PaneOK ==
  /\ DOMAIN agent = {"at", "updatedAt"} /\ agent.at \in Nat
  /\ FeedOK(feed) /\ feed.approvalsSeq \in Int
  /\ DOMAIN page = {"loaded", "total", "loading"} /\ page.loaded \in Nat
  /\ \A r \in requests : r.offset \in Nat

\* Before its tab is opened an Agent has nothing to show.
BeforeMount ==
  ~mounted => feed.blocks = <<>> /\ resolved = {} /\ page.total = 0 /\ \A r \in requests : r.kind = "agents"

\* What the pane saw resolved is older than what its approvals are held to.
SettledAt(i, id) == script[i].ev.type = "loom/approval-resolved" /\ script[i].ev.id = id
ApprovalsOK ==
  \A id \in resolved :
    id \notin feed.approvals /\ \E i \in 1..source.cursor : SettledAt(i, id) /\ i <= feed.approvalsSeq

\* What the stream has not told the pane of yet, history does not leave open.
TurnIsOver == source.cursor > 0 /\ ~source.gap /\ script[source.cursor].ev.type \in TurnEnds
StreamOK == (TurnIsOver \/ ~source.openedOnce) => Closed(feed.blocks)

ThreadInv == Reached(emitted) /\ SourceOK /\ PaneOK /\ BeforeMount /\ ApprovalsOK /\ StreamOK

LEMMA EmptyFeed ==
  FeedOK(emptyFeed) /\ emptyFeed.blocks = <<>> /\ emptyFeed.approvals = {} /\ emptyFeed.approvalsSeq = -1
<1> DEFINE none == <<>>
<1>1. FeedLike(emptyFeed)
  BY DEF emptyFeed, FeedLike, FeedFields
<1>2. emptyFeed.blocks = none /\ DOMAIN emptyFeed.index = {} /\ emptyFeed.approvals = {} /\ emptyFeed.approvalsSeq = -1
  BY DEF emptyFeed
<1>3. BlocksOK(none) /\ OnceShown(none)
  BY NoHistory, HistoryFills
<1> HIDE DEF none
<1>4. FeedOK(emptyFeed)
  BY <1>1, <1>2, <1>3 DEF FeedOK, Finds
<1>5. QED BY <1>2, <1>4 DEF none

LEMMA NothingOpen ==
  Closed(<<>>)
BY NoHistory, HistoryFills

LEMMA InitHolds ==
  ASSUME Init
  PROVE  ThreadInv
<1>1. Reached(emitted)
  <2>1. script \in Scripts /\ emitted = 0
    BY DEF Init
  <2>2. Len(script) \in Nat
    BY <2>1, ScriptAssumption, ListedFacts DEF Listed
  <2>3. QED BY <2>1, <2>2 DEF Reached
<1>2. SourceOK
  BY DEF Init, SourceOK, ensureSource
<1> DEFINE snapped == ApprovalsSnapshot(emptyFeed, 0, {})
<1>3. Snapped(emptyFeed, snapped, 0, {})
  BY EmptyFeed, SnapshotSnaps
<1>4. feed = snapped \/ feed = emptyFeed
  BY DEF Init
<1> HIDE DEF snapped
<1>5. FeedOK(feed) /\ feed.approvalsSeq \in Int /\ feed.blocks = <<>>
  BY <1>3, <1>4, EmptyFeed DEF Snapped
<1>6. PaneOK
  <2>1. DOMAIN agent = {"at", "updatedAt"} /\ agent.at \in Nat
    BY DEF Init
  <2>2. DOMAIN page = {"loaded", "total", "loading"} /\ page.loaded \in Nat
    BY DEF Init
  <2>3. \A r \in requests : r.offset \in Nat
    BY DEF Init, Request
  <2>4. QED BY <1>5, <2>1, <2>2, <2>3 DEF PaneOK
<1>7. BeforeMount
  BY <1>5 DEF Init, BeforeMount
<1>8. ApprovalsOK
  BY DEF Init, ApprovalsOK
<1>9. StreamOK
  BY <1>5, NothingOpen DEF StreamOK
<1>10. QED BY <1>1, <1>2, <1>6, <1>7, <1>8, <1>9 DEF ThreadInv

\* A step that leaves the feed and the stream alone.
LEMMA FeedUntouched ==
  ASSUME ThreadInv, UNCHANGED <<script, source, feed, resolved>>
  PROVE  ApprovalsOK' /\ StreamOK'
<1>1. ApprovalsOK'
  BY DEF ThreadInv, ApprovalsOK, SettledAt
<1>2. StreamOK'
  BY DEF ThreadInv, StreamOK, TurnIsOver
<1>3. QED BY <1>1, <1>2

LEMMA HubSteps ==
  ASSUME ThreadInv, HubStep
  PROVE  ThreadInv'
<1>1. /\ emitted < Len(script) /\ emitted' = emitted + 1
      /\ UNCHANGED <<script, source, agent, mounted, feed, page, requests, resolved>>
  BY DEF HubStep
<1>2. Reached(emitted)'
  <2>1. Len(script) \in Nat /\ emitted \in Nat
    BY ScriptFacts DEF ThreadInv, Reached
  <2>2. QED BY <1>1, <2>1 DEF ThreadInv, Reached
<1>3. SourceOK'
  BY <1>1 DEF ThreadInv, SourceOK, Reached
<1>4. PaneOK'
  BY <1>1 DEF ThreadInv, PaneOK
<1>5. BeforeMount'
  BY <1>1 DEF ThreadInv, BeforeMount
<1>6. QED BY <1>1, <1>2, <1>3, <1>4, <1>5, FeedUntouched DEF ThreadInv

LEMMA Opens ==
  ASSUME ThreadInv, Open
  PROVE  ThreadInv'
<1>1. PICK from \in (IF source.openedOnce THEN {source.cursor, emitted} ELSE {emitted}) :
        source' = [source EXCEPT !.state = "live", !.openedOnce = TRUE, !.cursor = from, !.list = emitted,
                                 !.gap = @ \/ (source.openedOnce /\ from # source.cursor)]
  BY DEF Open
<1>2. requests' = requests \cup Reconcile /\ UNCHANGED <<script, emitted, agent, mounted, feed, page, resolved>>
  BY DEF Open
<1>3. /\ source.cursor \in 0..emitted /\ emitted \in Nat /\ from \in 0..emitted /\ source.cursor <= from
  BY <1>1 DEF ThreadInv, SourceOK, Reached
<1>4. /\ DOMAIN source' = {"state", "openedOnce", "cursor", "list", "gap"}
      /\ source'.cursor = from /\ source'.openedOnce
      /\ source'.gap <=> (source.gap \/ (source.openedOnce /\ from # source.cursor))
  BY <1>1 DEF ThreadInv, SourceOK
<1>5. Reached(emitted)'
  BY <1>2 DEF ThreadInv, Reached
<1>6. SourceOK'
  BY <1>2, <1>3, <1>4 DEF SourceOK
<1>7. PaneOK'
  <2>1. \A r \in requests' : r.offset \in Nat
    BY <1>2 DEF ThreadInv, PaneOK, Reconcile, Request
  <2>2. QED BY <1>2, <2>1 DEF ThreadInv, PaneOK
<1>8. BeforeMount'
  BY <1>2 DEF ThreadInv, BeforeMount, Reconcile, Request
<1>9. ApprovalsOK'
  <2>1. \A i \in 1..source.cursor : i \in 1..source'.cursor
    BY <1>3, <1>4
  <2>2. QED BY <1>2, <2>1 DEF ThreadInv, ApprovalsOK, SettledAt
<1>10. StreamOK'
  <2>1. CASE ~source.openedOnce
    BY <1>2, <2>1 DEF ThreadInv, StreamOK
  <2>2. CASE source.openedOnce /\ from = source.cursor
    BY <1>2, <1>4, <2>2 DEF ThreadInv, StreamOK, TurnIsOver
  <2>3. CASE source.openedOnce /\ from # source.cursor
    BY <1>2, <1>4, <2>3 DEF StreamOK, TurnIsOver
  <2>4. QED BY <2>1, <2>2, <2>3
<1>11. QED BY <1>5, <1>6, <1>7, <1>8, <1>9, <1>10 DEF ThreadInv

LEMMA Drops ==
  ASSUME ThreadInv, Drop
  PROVE  ThreadInv'
<1>1. /\ source.state = "live" /\ source' = [source EXCEPT !.state = "reconnecting", !.list = NoList]
      /\ UNCHANGED <<script, emitted, agent, mounted, feed, page, requests, resolved>>
  BY DEF Drop
<1>2. /\ DOMAIN source' = {"state", "openedOnce", "cursor", "list", "gap"}
      /\ source'.cursor = source.cursor /\ source'.openedOnce = source.openedOnce /\ source'.gap = source.gap
      /\ source'.state # "live"
  BY <1>1 DEF ThreadInv, SourceOK
<1>3. Reached(emitted)'
  BY <1>1 DEF ThreadInv, Reached
<1>4. SourceOK'
  BY <1>1, <1>2 DEF ThreadInv, SourceOK
<1>5. PaneOK'
  BY <1>1 DEF ThreadInv, PaneOK
<1>6. BeforeMount'
  BY <1>1 DEF ThreadInv, BeforeMount
<1>7. ApprovalsOK'
  BY <1>1, <1>2 DEF ThreadInv, ApprovalsOK, SettledAt
<1>8. StreamOK'
  BY <1>1, <1>2 DEF ThreadInv, StreamOK, TurnIsOver
<1>9. QED BY <1>3, <1>4, <1>5, <1>6, <1>7, <1>8 DEF ThreadInv

\* The stream is where it was.
StreamStays ==
  /\ source'.cursor = source.cursor /\ source'.openedOnce = source.openedOnce /\ source'.gap = source.gap
  /\ script' = script /\ resolved' = resolved

LEMMA SnapshotHolds ==
  ASSUME ThreadInv, NEW n \in Nat, Snapped(feed, feed', n, PendingApprovals(n)), StreamStays
  PROVE  /\ ApprovalsOK' /\ StreamOK'
         /\ FeedOK(feed') /\ feed'.approvalsSeq \in Int /\ feed'.blocks = feed.blocks
<1>1. FeedOK(feed') /\ feed'.approvalsSeq \in Int /\ feed'.blocks = feed.blocks
  BY DEF Snapped, ThreadInv, PaneOK
<1>2. ASSUME NEW id \in resolved
      PROVE  id \notin feed'.approvals /\ \E i \in 1..source.cursor : SettledAt(i, id) /\ i <= feed'.approvalsSeq
  <2>1. id \notin feed.approvals
    BY DEF ThreadInv, ApprovalsOK
  <2>2. PICK i \in 1..source.cursor : SettledAt(i, id) /\ i <= feed.approvalsSeq
    BY DEF ThreadInv, ApprovalsOK
  <2>3. CASE feed'.approvals = feed.approvals /\ feed'.approvalsSeq = feed.approvalsSeq
    BY <2>1, <2>2, <2>3
  <2>4. CASE feed'.approvals = PendingApprovals(n) /\ feed'.approvalsSeq = n /\ ~(n < feed.approvalsSeq)
    <3>1. feed.approvalsSeq \in Int /\ source.cursor \in Nat
      BY DEF ThreadInv, PaneOK, SourceOK, Reached
    <3>2. i \in 1..n /\ i <= n
      BY <2>2, <2>4, <3>1
    <3>3. id \notin PendingApprovals(n)
      BY <2>2, <3>2 DEF PendingApprovals, SettledAt
    <3>4. QED BY <2>2, <2>4, <3>2, <3>3
  <2>5. QED BY <2>3, <2>4 DEF Snapped
<1>3. ApprovalsOK'
  BY <1>2 DEF StreamStays, ApprovalsOK, SettledAt
<1>4. StreamOK'
  BY <1>1 DEF ThreadInv, StreamStays, StreamOK, TurnIsOver
<1>5. QED BY <1>1, <1>3, <1>4

\* An Agent list is merged.
LEMMA MergeHolds ==
  ASSUME ThreadInv, NEW n \in Nat, mergeAgentSnapshot(n), StreamStays, mounted' = mounted
  PROVE  /\ ApprovalsOK' /\ StreamOK'
         /\ FeedOK(feed') /\ feed'.approvalsSeq \in Int /\ feed'.blocks = feed.blocks
         /\ DOMAIN agent' = {"at", "updatedAt"} /\ agent'.at \in Nat
<1>1. DOMAIN agent' = {"at", "updatedAt"} /\ agent'.at \in Nat
  BY DEF mergeAgentSnapshot, ThreadInv, PaneOK
<1>2. \/ feed' = feed
      \/ feed' = ApprovalsSnapshot(feed, n, PendingApprovals(n))
  BY DEF mergeAgentSnapshot
<1>3. CASE feed' = feed
  <2>1. Snapped(feed, feed', n, PendingApprovals(n))
    BY <1>3 DEF Snapped, ThreadInv, PaneOK
  <2>2. QED BY <1>1, <2>1, SnapshotHolds
<1>4. CASE feed' = ApprovalsSnapshot(feed, n, PendingApprovals(n))
  <2>1. Snapped(feed, feed', n, PendingApprovals(n))
    BY <1>4, SnapshotSnaps DEF ThreadInv, PaneOK
  <2>2. QED BY <1>1, <2>1, SnapshotHolds
<1>5. QED BY <1>2, <1>3, <1>4

LEMMA ListDelivered ==
  ASSUME ThreadInv, DeliverList
  PROVE  ThreadInv'
<1>1. /\ source.list = source.cursor /\ mergeAgentSnapshot(source.list) /\ source' = [source EXCEPT !.list = NoList]
      /\ UNCHANGED <<script, emitted, mounted, page, requests, resolved>>
  BY DEF DeliverList
<1>2. /\ DOMAIN source' = {"state", "openedOnce", "cursor", "list", "gap"}
      /\ source'.cursor = source.cursor /\ source'.openedOnce = source.openedOnce /\ source'.gap = source.gap
      /\ source'.state = source.state
  BY <1>1 DEF ThreadInv, SourceOK
<1>3. source.list \in Nat
  BY <1>1 DEF ThreadInv, SourceOK, Reached
<1>4. /\ ApprovalsOK' /\ StreamOK'
      /\ FeedOK(feed') /\ feed'.approvalsSeq \in Int /\ feed'.blocks = feed.blocks
      /\ DOMAIN agent' = {"at", "updatedAt"} /\ agent'.at \in Nat
  BY <1>1, <1>2, <1>3, MergeHolds DEF StreamStays
<1>5. Reached(emitted)'
  BY <1>1 DEF ThreadInv, Reached
<1>6. SourceOK'
  BY <1>1, <1>2 DEF ThreadInv, SourceOK
<1>7. PaneOK'
  BY <1>1, <1>4 DEF ThreadInv, PaneOK
<1>8. BeforeMount'
  BY <1>1, <1>4 DEF ThreadInv, BeforeMount
<1>9. QED BY <1>4, <1>5, <1>6, <1>7, <1>8 DEF ThreadInv

LEMMA AgentsMerged ==
  ASSUME ThreadInv, AgentsAnswered
  PROVE  ThreadInv'
<1>1. PICK r \in requests, n \in 0..emitted :
        /\ mergeAgentSnapshot(n) /\ requests' = requests \ {r}
        /\ UNCHANGED <<script, emitted, source, mounted, page, resolved>>
  BY DEF AgentsAnswered
<1>2. n \in Nat
  BY DEF ThreadInv, Reached
<1>3. /\ ApprovalsOK' /\ StreamOK'
      /\ FeedOK(feed') /\ feed'.approvalsSeq \in Int /\ feed'.blocks = feed.blocks
      /\ DOMAIN agent' = {"at", "updatedAt"} /\ agent'.at \in Nat
  BY <1>1, <1>2, MergeHolds DEF StreamStays
<1>4. Reached(emitted)'
  BY <1>1 DEF ThreadInv, Reached
<1>5. SourceOK'
  BY <1>1 DEF ThreadInv, SourceOK
<1>6. PaneOK'
  BY <1>1, <1>3 DEF ThreadInv, PaneOK
<1>7. BeforeMount'
  BY <1>1, <1>3 DEF ThreadInv, BeforeMount
<1>8. QED BY <1>3, <1>4, <1>5, <1>6, <1>7 DEF ThreadInv

LEMMA Mounts ==
  ASSUME ThreadInv, Mount
  PROVE  ThreadInv'
<1>1. /\ mounted' = TRUE /\ feed' = ApprovalsSnapshot(feed, agent.at, PendingApprovals(agent.at))
      /\ requests' = requests \cup {Request("seed", 0)}
      /\ UNCHANGED <<script, emitted, source, agent, page, resolved>>
  BY DEF Mount
<1>2. agent.at \in Nat
  BY DEF ThreadInv, PaneOK
<1>3. Snapped(feed, feed', agent.at, PendingApprovals(agent.at))
  BY <1>1, SnapshotSnaps DEF ThreadInv, PaneOK
<1>4. /\ ApprovalsOK' /\ StreamOK'
      /\ FeedOK(feed') /\ feed'.approvalsSeq \in Int
  BY <1>1, <1>2, <1>3, SnapshotHolds DEF StreamStays
<1>5. Reached(emitted)'
  BY <1>1 DEF ThreadInv, Reached
<1>6. SourceOK'
  BY <1>1 DEF ThreadInv, SourceOK
<1>7. PaneOK'
  <2>1. \A r \in requests' : r.offset \in Nat
    BY <1>1 DEF ThreadInv, PaneOK, Request
  <2>2. QED BY <1>1, <1>4, <2>1 DEF ThreadInv, PaneOK
<1>8. BeforeMount'
  BY <1>1 DEF BeforeMount
<1>9. QED BY <1>4, <1>5, <1>6, <1>7, <1>8 DEF ThreadInv

LEMMA OlderAsked ==
  ASSUME ThreadInv, LoadOlder
  PROVE  ThreadInv'
<1>1. /\ page.loaded < page.total /\ page' = [page EXCEPT !.loading = TRUE]
      /\ requests' = requests \cup {Request("older", page.loaded)}
      /\ UNCHANGED <<script, emitted, source, agent, mounted, feed, resolved>>
  BY DEF LoadOlder
<1>2. Reached(emitted)'
  BY <1>1 DEF ThreadInv, Reached
<1>3. SourceOK'
  BY <1>1 DEF ThreadInv, SourceOK
<1>4. PaneOK'
  <2>1. \A r \in requests' : r.offset \in Nat
    BY <1>1 DEF ThreadInv, PaneOK, Request
  <2>2. DOMAIN page' = {"loaded", "total", "loading"} /\ page'.loaded \in Nat
    BY <1>1 DEF ThreadInv, PaneOK
  <2>3. QED BY <1>1, <2>1, <2>2 DEF ThreadInv, PaneOK
<1>5. BeforeMount'
  <2>1. mounted
    BY <1>1 DEF ThreadInv, PaneOK, BeforeMount
  <2>2. QED BY <1>1, <2>1 DEF BeforeMount
<1>6. QED BY <1>1, <1>2, <1>3, <1>4, <1>5, FeedUntouched DEF ThreadInv

\* An answer fills the feed of an open tab.
LEMMA FilledHolds ==
  ASSUME ThreadInv, mounted, Filled(feed, feed'), UNCHANGED <<script, emitted, source, agent, mounted, resolved>>,
         DOMAIN page' = {"loaded", "total", "loading"}, page'.loaded \in Nat, \A r \in requests' : r.offset \in Nat
  PROVE  ThreadInv'
<1>1. FeedOK(feed') /\ feed'.approvals = feed.approvals /\ feed'.approvalsSeq = feed.approvalsSeq
      /\ (Closed(feed.blocks) => Closed(feed'.blocks))
  BY DEF Filled, Kept, SameApprovals
<1>2. Reached(emitted)'
  BY DEF ThreadInv, Reached
<1>3. SourceOK'
  BY DEF ThreadInv, SourceOK
<1>4. PaneOK'
  BY <1>1 DEF ThreadInv, PaneOK
<1>5. BeforeMount'
  BY DEF BeforeMount
<1>6. ApprovalsOK'
  BY <1>1 DEF ThreadInv, ApprovalsOK, SettledAt
<1>7. StreamOK'
  BY <1>1 DEF ThreadInv, StreamOK, TurnIsOver
<1>8. QED BY <1>2, <1>3, <1>4, <1>5, <1>6, <1>7 DEF ThreadInv

LEMMA NewestIsGood ==
  ASSUME ThreadInv, NEW n \in 0..emitted
  PROVE  /\ Reached(n) /\ GoodTurns(Rollout(n))
         /\ GoodTurns(Newest(n)) /\ Len(Newest(n)) \in Nat
<1>1. Reached(n)
  <2>1. Len(script) \in Nat /\ emitted \in Nat /\ emitted <= Len(script) /\ script \in Scripts
    BY ScriptFacts DEF ThreadInv, Reached
  <2>2. QED BY <2>1 DEF Reached
<1>2. GoodTurns(Rollout(n))
  BY <1>1, RolloutIsGood
<1>3. PAGE \in Nat \ {0} /\ 0 \in Nat
  BY ThreadBounds
<1>4. GoodTurns(Window(Rollout(n), PAGE, 0)) /\ Len(Window(Rollout(n), PAGE, 0)) \in Nat
  BY <1>2, <1>3, WindowIsGood
<1>5. QED BY <1>1, <1>2, <1>4 DEF Newest

LEMMA Seeds ==
  ASSUME ThreadInv, NEW r \in requests, NEW n \in 0..emitted, SeedAnswered(r, n),
         UNCHANGED <<script, emitted, source, agent, mounted, resolved>>
  PROVE  ThreadInv'
<1>1. /\ r.kind = "seed" /\ feed' = SeedHistory(feed, Newest(n))
      /\ page' = [page EXCEPT !.loaded = Len(Newest(n)), !.total = Len(Rollout(n))]
      /\ requests' = (requests \ {r}) \cup {Request("artifacts", 0)}
  BY DEF SeedAnswered, ReadAt
<1>2. mounted
  BY <1>1 DEF ThreadInv, BeforeMount
<1>3. Filled(feed, feed')
  BY <1>1, NewestIsGood, SeedFills DEF ThreadInv, PaneOK
<1>4. DOMAIN page' = {"loaded", "total", "loading"} /\ page'.loaded \in Nat
  BY <1>1, NewestIsGood DEF ThreadInv, PaneOK
<1>5. \A q \in requests' : q.offset \in Nat
  BY <1>1 DEF ThreadInv, PaneOK, Request
<1>6. QED BY <1>2, <1>3, <1>4, <1>5, FilledHolds

LEMMA ArtifactsCome ==
  ASSUME ThreadInv, NEW r \in requests, NEW n \in 0..emitted, ArtifactsAnswered(r, n),
         UNCHANGED <<script, emitted, source, agent, mounted, resolved>>
  PROVE  ThreadInv'
<1>1. r.kind = "artifacts" /\ feed' = PublishedArtifacts(feed, Published(n)) /\ requests' = requests \ {r} /\ page' = page
  BY DEF ArtifactsAnswered, ReadAt
<1>2. mounted
  BY <1>1 DEF ThreadInv, BeforeMount
<1>3. Filled(feed, feed')
  <2>1. GoodArtifacts(Published(n))
    BY NewestIsGood, PublishedIsGood
  <2>2. QED BY <1>1, <2>1, ArtifactsFill DEF ThreadInv, PaneOK
<1>4. DOMAIN page' = {"loaded", "total", "loading"} /\ page'.loaded \in Nat
  BY <1>1 DEF ThreadInv, PaneOK
<1>5. \A q \in requests' : q.offset \in Nat
  BY <1>1 DEF ThreadInv, PaneOK
<1>6. QED BY <1>2, <1>3, <1>4, <1>5, FilledHolds

LEMMA Reconciles ==
  ASSUME ThreadInv, NEW r \in requests, NEW n \in 0..emitted, ReconcileAnswered(r, n),
         UNCHANGED <<script, emitted, source, agent, mounted, resolved>>
  PROVE  ThreadInv'
<1>1. /\ r.kind = "reconcile" /\ feed' = ReconcileHistory(feed, Newest(n))
      /\ page' = [page EXCEPT !.loaded = Len(Newest(n)), !.total = Len(Rollout(n))]
      /\ requests' = requests \ {r}
  BY DEF ReconcileAnswered, ReadAt
<1>2. mounted
  BY <1>1 DEF ThreadInv, BeforeMount
<1>3. Filled(feed, feed')
  BY <1>1, NewestIsGood, ReconcileFills DEF ThreadInv, PaneOK
<1>4. DOMAIN page' = {"loaded", "total", "loading"} /\ page'.loaded \in Nat
  BY <1>1, NewestIsGood DEF ThreadInv, PaneOK
<1>5. \A q \in requests' : q.offset \in Nat
  BY <1>1 DEF ThreadInv, PaneOK
<1>6. QED BY <1>2, <1>3, <1>4, <1>5, FilledHolds

LEMMA OlderCome ==
  ASSUME ThreadInv, NEW r \in requests, NEW n \in 0..emitted, OlderAnswered(r, n),
         UNCHANGED <<script, emitted, source, agent, mounted, resolved>>
  PROVE  ThreadInv'
<1> DEFINE older == Window(Rollout(n), PAGE, r.offset)
<1>1. /\ r.kind = "older" /\ feed' = PrependHistory(feed, older)
      /\ page' = [loaded |-> page.loaded + Len(older), total |-> Len(Rollout(n)), loading |-> FALSE]
      /\ requests' = requests \ {r}
  BY DEF OlderAnswered, ReadAt
<1>2. mounted
  BY <1>1 DEF ThreadInv, BeforeMount
<1>3. GoodTurns(older) /\ Len(older) \in Nat
  <2>1. r.offset \in Nat /\ PAGE \in Nat \ {0}
    BY ThreadBounds DEF ThreadInv, PaneOK
  <2>2. QED BY <2>1, NewestIsGood, WindowIsGood
<1> HIDE DEF older
<1>4. Filled(feed, feed')
  BY <1>1, <1>3, PrependFills DEF ThreadInv, PaneOK
<1>5. DOMAIN page' = {"loaded", "total", "loading"} /\ page'.loaded \in Nat
  BY <1>1, <1>3 DEF ThreadInv, PaneOK
<1>6. \A q \in requests' : q.offset \in Nat
  BY <1>1 DEF ThreadInv, PaneOK
<1>7. QED BY <1>2, <1>4, <1>5, <1>6, FilledHolds

LEMMA UsageComes ==
  ASSUME ThreadInv, NEW r \in requests, NEW n \in 0..emitted, UsageAnswered(r, n),
         UNCHANGED <<script, emitted, source, agent, mounted, resolved>>
  PROVE  ThreadInv'
<1> DEFINE latest == Window(Rollout(n), 1, 0)
<1>1. /\ r.kind = "usage" /\ (feed' = feed \/ feed' = TurnUsage(feed, latest[1]))
      /\ requests' = requests \ {r} /\ page' = page
  BY DEF UsageAnswered, ReadAt
<1> HIDE DEF latest
<1>2. mounted
  BY <1>1 DEF ThreadInv, BeforeMount
<1>3. Filled(feed, feed')
  <2>1. FeedOK(feed)
    BY DEF ThreadInv, PaneOK
  <2>2. QED BY <1>1, <2>1, Unchanged, UsageFills
<1>4. DOMAIN page' = {"loaded", "total", "loading"} /\ page'.loaded \in Nat
  BY <1>1 DEF ThreadInv, PaneOK
<1>5. \A q \in requests' : q.offset \in Nat
  BY <1>1 DEF ThreadInv, PaneOK
<1>6. QED BY <1>2, <1>3, <1>4, <1>5, FilledHolds

LEMMA Answers ==
  ASSUME ThreadInv, Answer
  PROVE  ThreadInv'
<1>1. PICK r \in requests, n \in 0..emitted :
        \/ SeedAnswered(r, n) \/ ArtifactsAnswered(r, n) \/ ReconcileAnswered(r, n)
        \/ OlderAnswered(r, n) \/ UsageAnswered(r, n)
  BY DEF Answer
<1>2. UNCHANGED <<script, emitted, source, agent, mounted, resolved>>
  BY DEF Answer
<1>3. QED BY <1>1, <1>2, Seeds, ArtifactsCome, Reconciles, OlderCome, UsageComes

LEMMA Fails ==
  ASSUME ThreadInv, Fail
  PROVE  ThreadInv'
<1>1. PICK r \in requests :
        /\ requests' = (requests \ {r}) \cup (IF r.kind = "seed" THEN {Request("artifacts", 0)} ELSE {})
        /\ page' = IF r.kind = "older" THEN [page EXCEPT !.loading = FALSE] ELSE page
  BY DEF Fail
<1>2. UNCHANGED <<script, emitted, source, agent, mounted, feed, resolved>>
  BY DEF Fail
<1>3. Reached(emitted)'
  BY <1>2 DEF ThreadInv, Reached
<1>4. SourceOK'
  BY <1>2 DEF ThreadInv, SourceOK
<1>5. DOMAIN page' = {"loaded", "total", "loading"} /\ page'.loaded = page.loaded /\ page'.total = page.total
  BY <1>1 DEF ThreadInv, PaneOK
<1>6. PaneOK'
  <2>1. \A q \in requests' : q.offset \in Nat
    BY <1>1 DEF ThreadInv, PaneOK, Request
  <2>2. QED BY <1>2, <1>5, <2>1 DEF ThreadInv, PaneOK
<1>7. BeforeMount'
  BY <1>1, <1>2, <1>5 DEF ThreadInv, BeforeMount, Request
<1>8. QED BY <1>2, <1>3, <1>4, <1>6, <1>7, FeedUntouched DEF ThreadInv

\* The event an open tab reduces.
LEMMA EventHolds ==
  ASSUME ThreadInv, mounted, source.cursor + 1 \in 1..emitted, source.openedOnce,
         NEW ev, ev = script[source.cursor + 1].ev, Reduced(feed, feed', ev),
         resolved' = Seen(ev), script' = script,
         source' = [source EXCEPT !.cursor = @ + 1]
  PROVE  ApprovalsOK' /\ StreamOK' /\ FeedOK(feed') /\ feed'.approvalsSeq \in Int
<1> DEFINE next == source.cursor + 1
<1>1. /\ source'.cursor = next /\ source'.openedOnce = source.openedOnce /\ source'.gap = source.gap
      /\ source.cursor \in Nat /\ next \in Nat
  <2>1. DOMAIN source = {"state", "openedOnce", "cursor", "list", "gap"} /\ source.cursor \in Nat
    BY DEF ThreadInv, SourceOK, Reached
  <2>2. source'.openedOnce = source.openedOnce /\ source'.gap = source.gap
    BY <2>1
  <2>3. source'.cursor = source.cursor + 1
    BY <2>1
  <2>4. next = source.cursor + 1
    OBVIOUS
  <2> HIDE DEF next
  <2>5. next \in Nat
    BY <2>1, <2>4
  <2>6. source'.cursor = next
    BY <2>3, <2>4
  <2>7. source.cursor \in Nat
    BY <2>1
  <2>8. QED BY <2>2, <2>5, <2>6, <2>7
<1>2. next \in DOMAIN script /\ ev.seq = next /\ ev = script[next].ev /\ script \in Scripts
  BY ScriptFacts DEF ThreadInv, Reached
<1>3. FeedOK(feed') /\ (ev.type \in TurnEnds => Closed(feed'.blocks))
  BY DEF Reduced
<1>4. feed.approvalsSeq \in Int
  BY DEF ThreadInv, PaneOK
<1> HIDE DEF next
<1>5. feed'.approvalsSeq \in Int /\ feed'.approvalsSeq >= feed.approvalsSeq
  BY <1>1, <1>2, <1>4 DEF Reduced, Asked, Settled, SameApprovals
<1>6. ASSUME NEW id \in resolved
      PROVE  id \notin feed'.approvals /\ \E i \in 1..next : SettledAt(i, id) /\ i <= feed'.approvalsSeq
  <2>1. PICK i \in 1..source.cursor : SettledAt(i, id) /\ i <= feed.approvalsSeq
    BY DEF ThreadInv, ApprovalsOK
  <2>2. i \in 1..next /\ i <= feed'.approvalsSeq /\ i < next
    BY <1>1, <1>4, <1>5, <2>1 DEF next
  <2>3. id \notin feed.approvals
    BY DEF ThreadInv, ApprovalsOK
  <2>4. CASE ev.type = "loom/approval-requested" /\ Asked(feed, feed', ev)
    <3>1. id # ev.id
      <4>1. SUFFICES ASSUME id = ev.id PROVE FALSE
        OBVIOUS
      <4>2. i \in DOMAIN script
        BY <2>2, ScriptFacts, <1>1 DEF ThreadInv, Reached, next
      <4>3. script[i].ev.type = "loom/approval-resolved" /\ script[i].ev.id = script[next].ev.id
        BY <1>2, <2>1, <4>1 DEF SettledAt
      <4>4. script[next].ev.type = "loom/approval-requested"
        BY <1>2, <2>4
      <4>5. next < i
        BY <1>2, <4>2, <4>3, <4>4, ScriptAssumption
      <4>6. QED BY <1>1, <2>2, <4>5
    <3>2. id \notin feed'.approvals
      BY <2>3, <2>4, <3>1 DEF Asked
    <3>3. QED BY <2>1, <2>2, <3>2
  <2>5. CASE ev.type = "loom/approval-resolved" /\ Settled(feed, feed', ev)
    <3>1. id \notin feed'.approvals
      BY <2>3, <2>5 DEF Settled
    <3>2. QED BY <2>1, <2>2, <3>1
  <2>6. CASE SameApprovals(feed, feed')
    <3>1. id \notin feed'.approvals
      BY <2>3, <2>6 DEF SameApprovals
    <3>2. QED BY <2>1, <2>2, <3>1
  <2>7. QED BY <2>4, <2>5, <2>6 DEF Reduced
<1>7. ASSUME ev.type = "loom/approval-resolved"
      PROVE  ev.id \notin feed'.approvals /\ \E i \in 1..next : SettledAt(i, ev.id) /\ i <= feed'.approvalsSeq
  <2>1. Settled(feed, feed', ev)
    BY <1>7 DEF Reduced
  <2>2. ev.id \notin feed'.approvals
    BY <2>1 DEF Settled
  <2>3. next \in 1..next /\ next <= feed'.approvalsSeq
    BY <1>1, <1>2, <1>4, <2>1 DEF Settled, next
  <2>4. SettledAt(next, ev.id)
    BY <1>2, <1>7 DEF SettledAt
  <2>5. QED BY <2>2, <2>3, <2>4
<1>8. ApprovalsOK'
  <2>1. \A id \in resolved' :
          id \notin feed'.approvals /\ \E i \in 1..next : SettledAt(i, id) /\ i <= feed'.approvalsSeq
    BY <1>6, <1>7 DEF Seen
  <2>2. QED BY <1>1, <2>1 DEF ApprovalsOK, SettledAt
<1>9. StreamOK'
  <2>1. TurnIsOver' => ev.type \in TurnEnds
    BY <1>1, <1>2 DEF TurnIsOver
  <2>2. source'.openedOnce
    BY <1>1
  <2>3. QED BY <1>3, <2>1, <2>2 DEF StreamOK
<1>10. QED BY <1>3, <1>5, <1>8, <1>9

LEMMA Delivers ==
  ASSUME ThreadInv, Deliver
  PROVE  ThreadInv'
<1> DEFINE ev == script[source.cursor + 1].ev
<1>1. /\ source.state = "live" /\ source.cursor < emitted
      /\ agent' = applyThreadStatus(ev, source.cursor + 1)
      /\ feed' = IF mounted THEN reduceFeed(feed, ev) ELSE feed
      /\ resolved' = IF mounted THEN Seen(ev) ELSE resolved
      /\ requests' = IF mounted /\ ev.type = "loom/turn-completed"
                       THEN requests \cup {Request("usage", 0)} ELSE requests
      /\ source' = [source EXCEPT !.cursor = @ + 1]
      /\ UNCHANGED <<script, emitted, mounted, page>>
  BY DEF Deliver
<1>2. source.cursor \in Nat /\ emitted \in Nat /\ source.cursor + 1 \in 1..emitted /\ source.openedOnce
  BY <1>1 DEF ThreadInv, SourceOK, Reached
<1>3. ev.ts \in Nat
  BY <1>2, ScriptFacts DEF ThreadInv
<1>4. ev = script[source.cursor + 1].ev
  OBVIOUS
<1> HIDE DEF ev
<1>5. /\ DOMAIN source' = {"state", "openedOnce", "cursor", "list", "gap"}
      /\ source'.cursor = source.cursor + 1 /\ source'.openedOnce
  BY <1>1, <1>2 DEF ThreadInv, SourceOK
<1>6. Reached(emitted)'
  BY <1>1 DEF ThreadInv, Reached
<1>7. SourceOK'
  BY <1>1, <1>2, <1>5 DEF SourceOK
<1>8. DOMAIN agent' = {"at", "updatedAt"} /\ agent'.at \in Nat
  BY <1>1 DEF applyThreadStatus, ThreadInv, PaneOK
<1>9. \A r \in requests' : r.offset \in Nat
  BY <1>1 DEF ThreadInv, PaneOK, Request
<1>10. CASE mounted
  <2>1. Reduced(feed, feed', ev)
    BY <1>1, <1>3, <1>10, EventReduces DEF ThreadInv, PaneOK
  <2>2. ApprovalsOK' /\ StreamOK' /\ FeedOK(feed') /\ feed'.approvalsSeq \in Int
    BY <1>1, <1>2, <1>4, <1>10, <2>1, EventHolds
  <2>3. PaneOK'
    BY <1>1, <1>8, <1>9, <2>2 DEF ThreadInv, PaneOK
  <2>4. BeforeMount'
    BY <1>1, <1>10 DEF BeforeMount
  <2>5. QED BY <1>6, <1>7, <2>2, <2>3, <2>4 DEF ThreadInv
<1>11. CASE ~mounted
  <2>1. feed' = feed /\ resolved' = resolved /\ requests' = requests
    BY <1>1, <1>11
  <2>2. feed.blocks = <<>> /\ resolved = {}
    BY <1>11 DEF ThreadInv, BeforeMount
  <2>3. PaneOK'
    BY <1>1, <1>8, <1>9, <2>1 DEF ThreadInv, PaneOK
  <2>4. BeforeMount'
    BY <1>1, <2>1 DEF ThreadInv, BeforeMount
  <2>5. ApprovalsOK'
    BY <2>1, <2>2 DEF ApprovalsOK
  <2>6. StreamOK'
    BY <2>1, <2>2, NothingOpen DEF StreamOK
  <2>7. QED BY <1>6, <1>7, <2>3, <2>4, <2>5, <2>6 DEF ThreadInv
<1>12. QED BY <1>10, <1>11

LEMMA NothingHappens ==
  ASSUME ThreadInv, UNCHANGED vars
  PROVE  ThreadInv'
<1>1. UNCHANGED <<script, emitted, source, agent, mounted, feed, page, requests, resolved>>
  BY DEF vars
<1>2. Reached(emitted)'
  BY <1>1 DEF ThreadInv, Reached
<1>3. SourceOK'
  BY <1>1 DEF ThreadInv, SourceOK
<1>4. PaneOK'
  BY <1>1 DEF ThreadInv, PaneOK
<1>5. BeforeMount'
  BY <1>1 DEF ThreadInv, BeforeMount
<1>6. QED BY <1>1, <1>2, <1>3, <1>4, <1>5, FeedUntouched DEF ThreadInv

LEMMA Inductive ==
  Spec => []ThreadInv
<1>1. Init => ThreadInv
  BY InitHolds
<1>2. ThreadInv /\ [Next]_vars => ThreadInv'
  <2>1. SUFFICES ASSUME ThreadInv, [Next]_vars PROVE ThreadInv'
    OBVIOUS
  <2>2. QED BY <2>1, HubSteps, Opens, Drops, Delivers, ListDelivered, Mounts, OlderAsked, Answers, AgentsMerged,
               Fails, NothingHappens DEF Next
<1>3. QED BY <1>1, <1>2, PTL DEF Spec

----------------------------------------------------------------------------

\* However many blocks history, reconnects and artifacts put before it, a key
\* of the feed finds the block of its own item (update and reorderBlocks of
\* feed.ts), for every Thread and every order of the answers.
THEOREM IndexStaysExact == Spec => []IndexIsExact
<1>1. ThreadInv => IndexIsExact
  <2>1. SUFFICES ASSUME ThreadInv, NEW key \in DOMAIN feed.index
                 PROVE  /\ feed.index[key] \in DOMAIN feed.blocks
                        /\ feed.blocks[feed.index[key]].kind = key[1]
                        /\ feed.blocks[feed.index[key]].id = key[2]
    BY DEF IndexIsExact
  <2>2. /\ feed.index[key] \in Nat /\ feed.index[key] + 0 \in DOMAIN feed.blocks
        /\ feed.blocks[feed.index[key] + 0].kind = key[1] /\ feed.blocks[feed.index[key] + 0].id = key[2]
    BY <2>1 DEF ThreadInv, PaneOK, FeedOK, Finds
  <2>3. feed.index[key] + 0 = feed.index[key]
    BY <2>2
  <2>4. QED BY <2>2, <2>3
<1>2. QED BY <1>1, Inductive, PTL

\* An artifact is shown once, whether its event, the list of those published or
\* both brought it, in whatever order and however often (reduceFeed of feed.ts).
THEOREM ArtifactsShownOnce == Spec => []ArtifactOnce
<1>1. ThreadInv => ArtifactOnce
  BY DEF ThreadInv, PaneOK, FeedOK, OnceShown, ArtifactOnce
<1>2. QED BY <1>1, Inductive, PTL

\* An approval the pane saw resolved does not come back with an Agent list read
\* before it was (the guard on approvalsSeq of feed.ts).
THEOREM ResolvedForGood == Spec => []ResolvedStaysResolved
<1>1. ThreadInv => ResolvedStaysResolved
  BY DEF ThreadInv, ApprovalsOK, ResolvedStaysResolved
<1>2. QED BY <1>1, Inductive, PTL

\* Once the end of the last Turn was delivered no answer is shown as still being
\* written, whatever history came before or after it (finishStreaming and
\* buildHistoryBlocks of feed.ts).
THEOREM StreamsEnd == Spec => []StreamEndsWithTurn
<1>1. ThreadInv => StreamEndsWithTurn
  BY DEF ThreadInv, StreamOK, TurnIsOver, Closed, StreamEndsWithTurn
<1>2. QED BY <1>1, Inductive, PTL
=============================================================================
