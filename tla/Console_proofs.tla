----------------------------- MODULE Console_proofs -----------------------------
(***************************************************************************)
(* The console's tabs, for any number of Agents, events and acts of the    *)
(* owner: whichever answer or event comes last, the Agent in front has its *)
(* tab, a tab appears in front only, and a mark stays until it was seen.   *)
(***************************************************************************)
EXTENDS Console, SequenceTheorems, WellFoundedInduction, TLAPS

----------------------------------------------------------------------------
(* The tabs that are kept.  What is computed along a sequence is proved by the *)
(* least length for which it would not hold.                                   *)

LEMMA Least ==
  ASSUME NEW set \in SUBSET Nat, set # {}
  PROVE  \E m \in set : \A n \in Nat : n < m => n \notin set
<1> DEFINE less == {ss \in Nat \X Nat : ss[1] < ss[2]}
<1>1. IsWellFoundedOn(less, Nat)
  BY NatLessThanWellFounded DEF OpToRel
<1>2. \A m, n \in Nat : n < m => <<n, m>> \in less
  OBVIOUS
<1> HIDE DEF less
<1>3. PICK m \in set : \A n \in set : <<n, m>> \notin less
  BY <1>1, WFMin
<1>4. QED BY <1>2, <1>3

(* f computes the kept ones of the first n tabs.                               *)
Computes(f, n, tabs, ids) ==
  f = [i \in 0..n |-> IF i = 0 THEN <<>>
                      ELSE IF tabs[i] \in ids THEN Append(f[i - 1], tabs[i]) ELSE f[i - 1]]

LEMMA AmongComputed ==
  ASSUME NEW tabs, NEW ids, NEW k \in Nat
  PROVE  \E f : Computes(f, k, tabs, ids)
<1> DEFINE bad == {n \in Nat : ~\E f : Computes(f, n, tabs, ids)}
<1>1. SUFFICES ASSUME bad # {} PROVE FALSE
  OBVIOUS
<1>2. PICK m \in bad : \A n \in Nat : n < m => n \notin bad
  <2> HIDE DEF bad
  <2>1. bad \in SUBSET Nat
    BY DEF bad
  <2>2. QED BY <1>1, <2>1, Least
<1>3. CASE m = 0
  <2>1. Computes([i \in 0..0 |-> <<>>], 0, tabs, ids)
    BY DEF Computes
  <2>2. QED BY <1>2, <1>3, <2>1
<1>4. CASE m # 0
  <2>1. m \in Nat /\ m - 1 \in Nat /\ m - 1 < m
    BY <1>2, <1>4
  <2>2. PICK g : Computes(g, m - 1, tabs, ids)
    BY <1>2, <2>1
  <2> DEFINE last == IF tabs[m] \in ids THEN Append(g[m - 1], tabs[m]) ELSE g[m - 1]
             f == [i \in 0..m |-> IF i = m THEN last ELSE g[i]]
  <2>3. ASSUME NEW i \in 0..m
        PROVE  f[i] = IF i = 0 THEN <<>> ELSE IF tabs[i] \in ids THEN Append(f[i - 1], tabs[i]) ELSE f[i - 1]
    <3>1. CASE i = m
      <4>1. f[i] = last /\ f[i - 1] = g[i - 1]
        BY <1>4, <2>1, <3>1
      <4>2. QED BY <1>4, <3>1, <4>1
    <3>2. CASE i # m /\ i # 0
      <4>1. i \in 0..(m - 1) /\ i - 1 \in 0..m /\ i - 1 # m
        BY <2>1, <3>2
      <4>2. g[i] = IF tabs[i] \in ids THEN Append(g[i - 1], tabs[i]) ELSE g[i - 1]
        BY <2>2, <3>2, <4>1 DEF Computes
      <4>3. f[i] = g[i] /\ f[i - 1] = g[i - 1]
        BY <3>2, <4>1
      <4>4. QED BY <3>2, <4>2, <4>3
    <3>3. CASE i # m /\ i = 0
      <4>1. 0 \in 0..(m - 1)
        BY <2>1
      <4>2. g[0] = <<>>
        BY <2>2, <4>1 DEF Computes
      <4>3. QED BY <3>3, <4>2
    <3>4. QED BY <3>1, <3>2, <3>3
  <2>4. f = [i \in 0..m |-> f[i]]
    OBVIOUS
  <2>5. Computes(f, m, tabs, ids)
    <3> HIDE DEF f
    <3>1. QED BY <2>3, <2>4 DEF Computes
  <2>6. QED
    <3> HIDE DEF f
    <3>1. QED BY <1>2, <2>1, <2>5
<1>5. QED BY <1>3, <1>4

LEMMA AmongTabs ==
  ASSUME NEW X, NEW tabs \in Seq(X), NEW ids
  PROVE  Among(tabs, ids) \in Seq(X) /\ Range(Among(tabs, ids)) = Range(tabs) \cap ids
<1>1. Len(tabs) \in Nat /\ DOMAIN tabs = 1..Len(tabs)
  OBVIOUS
<1>2. PICK f : Computes(f, Len(tabs), tabs, ids) /\ Among(tabs, ids) = f[Len(tabs)]
  <2> DEFINE f == CHOOSE f : Computes(f, Len(tabs), tabs, ids)
  <2>1. Computes(f, Len(tabs), tabs, ids)
    BY <1>1, AmongComputed
  <2>2. Among(tabs, ids) = f[Len(tabs)]
    BY DEF Among, Computes
  <2> HIDE DEF f
  <2>3. QED BY <2>1, <2>2
<1> DEFINE Right(i) == f[i] \in Seq(X) /\ Range(f[i]) = {tabs[j] : j \in 1..i} \cap ids
           wrong == {i \in 0..Len(tabs) : ~Right(i)}
<1>3. Right(0)
  <2>1. f[0] = <<>>
    BY <1>1, <1>2 DEF Computes
  <2>2. QED BY <2>1 DEF Range
<1>4. ASSUME NEW i \in 1..Len(tabs), Right(i - 1) PROVE Right(i)
  <2> DEFINE s == f[i - 1]
             e == tabs[i]
             before == {tabs[j] : j \in 1..(i - 1)}
  <2>1. f[i] = IF e \in ids THEN Append(s, e) ELSE s
    <3>1. i \in 0..Len(tabs) /\ i # 0
      BY <1>1
    <3>2. QED BY <1>2, <3>1 DEF Computes
  <2>2. s \in Seq(X) /\ e \in X /\ Range(s) = before \cap ids
    BY <1>4
  <2>3. {tabs[j] : j \in 1..i} = before \cup {e}
    <3>1. 1..i = 1..(i - 1) \cup {i}
      BY <1>1
    <3>2. QED BY <3>1
  <2> HIDE DEF s, e, before
  <2>4. Append(s, e) \in Seq(X) /\ Range(Append(s, e)) = Range(s) \cup {e}
    <3>1. /\ Append(s, e) \in Seq(X) /\ DOMAIN Append(s, e) = 1..Len(s) \cup {Len(s) + 1}
          /\ Append(s, e)[Len(s) + 1] = e /\ \A j \in 1..Len(s) : Append(s, e)[j] = s[j]
          /\ DOMAIN s = 1..Len(s)
      BY <2>2
    <3>2. QED BY <3>1 DEF Range
  <2>5. QED BY <2>1, <2>2, <2>3, <2>4
<1>5. ASSUME wrong # {} PROVE FALSE
  <2>1. wrong \in SUBSET Nat
    BY <1>1
  <2>2. PICK m \in wrong : \A n \in Nat : n < m => n \notin wrong
    <3> HIDE DEF wrong
    <3>1. QED BY <1>5, <2>1, Least
  <2>3. m # 0 /\ m \in 1..Len(tabs) /\ m - 1 \in 0..Len(tabs) /\ m - 1 \in Nat /\ m - 1 < m
    <3>1. m \in 0..Len(tabs) /\ m # 0
      BY <1>3, <2>2
    <3>2. QED BY <1>1, <3>1
  <2>4. Right(m - 1)
    <3> HIDE DEF Right
    <3>1. QED BY <2>2, <2>3
  <2>5. QED
    <3> HIDE DEF Right
    <3>1. QED BY <1>4, <2>2, <2>3, <2>4
<1>6. Right(Len(tabs))
  <2> HIDE DEF Right
  <2>1. QED BY <1>1, <1>5
<1>7. {tabs[j] : j \in 1..Len(tabs)} = Range(tabs)
  BY <1>1 DEF Range
<1>8. QED BY <1>2, <1>6, <1>7

----------------------------------------------------------------------------
(* Where a tab is put.                                                         *)

LEMMA TabThere ==
  ASSUME NEW X, NEW tabs \in Seq(X), NEW id
  PROVE  Contains(tabs, id) <=> id \in Range(tabs)
BY DEF Contains, Range

LEMMA OpenTabs ==
  ASSUME NEW X, NEW tabs \in Seq(X), NEW id
  PROVE  Open(tabs, id) \in Seq(X \cup {id}) /\ Range(Open(tabs, id)) = Range(tabs) \cup {id}
<1>1. CASE Contains(tabs, id)
  <2>1. tabs \in Seq(X \cup {id})
    OBVIOUS
  <2>2. QED BY <1>1, <2>1, TabThere DEF Open
<1>2. CASE ~Contains(tabs, id)
  <2>1. /\ Append(tabs, id) \in Seq(X \cup {id}) /\ DOMAIN Append(tabs, id) = 1..Len(tabs) \cup {Len(tabs) + 1}
        /\ Append(tabs, id)[Len(tabs) + 1] = id /\ \A j \in 1..Len(tabs) : Append(tabs, id)[j] = tabs[j]
        /\ DOMAIN tabs = 1..Len(tabs)
    OBVIOUS
  <2>2. Range(Append(tabs, id)) = Range(tabs) \cup {id}
    BY <2>1 DEF Range
  <2>3. QED BY <1>2, <2>1, <2>2 DEF Open
<1>3. QED BY <1>1, <1>2

LEMMA AtPlace ==
  ASSUME NEW f
  PROVE  /\ \A i \in DOMAIN f : f[i] \in Range(f)
         /\ \A e \in Range(f) : \E i \in DOMAIN f : f[i] = e
BY DEF Range

LEMMA JoinedTabs ==
  ASSUME NEW X, NEW one \in Seq(X), NEW other \in Seq(X)
  PROVE  one \o other \in Seq(X) /\ Range(one \o other) = Range(one) \cup Range(other)
<1> DEFINE both == one \o other
           n == Len(one)
           m == Len(other)
<1>1. n \in Nat /\ m \in Nat /\ DOMAIN one = 1..n /\ DOMAIN other = 1..m
  OBVIOUS
<1>2. /\ both \in Seq(X) /\ Len(both) = n + m
      /\ \A i \in 1..(n + m) : both[i] = IF i <= n THEN one[i] ELSE other[i - n]
  BY ConcatProperties
<1>3. DOMAIN both = 1..(n + m)
  BY <1>2
<1> HIDE DEF both, n, m
<1>4. ASSUME NEW i \in 1..(n + m) PROVE both[i] \in Range(one) \cup Range(other)
  <2>1. CASE i <= n
    <3>1. i \in 1..n
      BY <1>1, <2>1
    <3>2. QED BY <1>1, <1>2, <2>1, <3>1 DEF Range
  <2>2. CASE ~(i <= n)
    <3>1. i - n \in 1..m
      BY <1>1, <2>2
    <3>2. QED BY <1>1, <1>2, <2>2, <3>1 DEF Range
  <2>3. QED BY <2>1, <2>2
<1>5. ASSUME NEW i \in 1..n PROVE one[i] \in Range(both)
  <2>1. i \in 1..(n + m) /\ i <= n
    BY <1>1
  <2>2. QED BY <1>2, <1>3, <2>1 DEF Range
<1>6. ASSUME NEW i \in 1..m PROVE other[i] \in Range(both)
  <2>1. n + i \in 1..(n + m) /\ ~(n + i <= n) /\ (n + i) - n = i
    BY <1>1
  <2>2. both[n + i] = other[i]
    BY <1>2, <2>1
  <2>3. QED BY <1>3, <2>1, <2>2 DEF Range
<1>7. both \in Seq(X) /\ Range(both) = Range(one) \cup Range(other)
  BY <1>1, <1>2, <1>3, <1>4, <1>5, <1>6 DEF Range
<1>8. QED BY <1>7 DEF both

LEMMA InsertedTabs ==
  ASSUME NEW X, NEW tabs \in Seq(X), NEW i \in 1..(Len(tabs) + 1), NEW id \in X
  PROVE  InsertAt(tabs, i, id) \in Seq(X) /\ Range(InsertAt(tabs, i, id)) = Range(tabs) \cup {id}
<1> DEFINE front == SubSeq(tabs, 1, i - 1)
           back == SubSeq(tabs, i, Len(tabs))
<1>1. Len(tabs) \in Nat /\ i \in Nat /\ i >= 1 /\ i <= Len(tabs) + 1 /\ DOMAIN tabs = 1..Len(tabs)
  OBVIOUS
<1>2. /\ front \in Seq(X) /\ Len(front) = i - 1 /\ \A j \in 1..(i - 1) : front[j] = tabs[j]
      /\ back \in Seq(X) /\ Len(back) = Len(tabs) - i + 1
      /\ \A j \in 1..(Len(tabs) - i + 1) : back[j] = tabs[j + i - 1]
  BY <1>1
<1>3. DOMAIN front = 1..(i - 1) /\ DOMAIN back = 1..(Len(tabs) - i + 1)
  BY <1>2
<1>4. <<id>> \in Seq(X) /\ Range(<<id>>) = {id}
  BY DEF Range
<1>5. InsertAt(tabs, i, id) = front \o <<id>> \o back
  BY DEF InsertAt
<1> HIDE DEF front, back
<1>6. Range(front) \cup Range(back) = Range(tabs)
  <2>1. \A j \in 1..(i - 1) : front[j] \in Range(tabs)
    <3>1. \A j \in 1..(i - 1) : j \in 1..Len(tabs)
      BY <1>1
    <3>2. QED BY <1>1, <1>2, <3>1, AtPlace
  <2>2. \A j \in 1..(Len(tabs) - i + 1) : back[j] \in Range(tabs)
    <3>1. \A j \in 1..(Len(tabs) - i + 1) : j + i - 1 \in 1..Len(tabs)
      BY <1>1
    <3>2. QED BY <1>1, <1>2, <3>1 DEF Range
  <2>3. ASSUME NEW j \in 1..Len(tabs) PROVE tabs[j] \in Range(front) \cup Range(back)
    <3>1. CASE j < i
      <4>1. j \in 1..(i - 1)
        BY <1>1, <3>1
      <4>2. QED BY <1>2, <1>3, <4>1 DEF Range
    <3>2. CASE ~(j < i)
      <4>1. j - i + 1 \in 1..(Len(tabs) - i + 1) /\ (j - i + 1) + i - 1 = j
        BY <1>1, <3>2
      <4>2. back[j - i + 1] = tabs[j]
        BY <1>2, <4>1
      <4>3. QED BY <1>3, <4>1, <4>2 DEF Range
    <3>3. QED BY <3>1, <3>2
  <2>4. QED BY <1>1, <1>3, <2>1, <2>2, <2>3 DEF Range
<1> DEFINE one == <<id>>
<1> HIDE DEF one
<1>7. front \o one \in Seq(X) /\ Range(front \o one) = Range(front) \cup {id}
  <2>1. one \in Seq(X) /\ Range(one) = {id}
    BY <1>4 DEF one
  <2>2. QED BY <1>2, <2>1, JoinedTabs
<1> DEFINE head == front \o one
<1> HIDE DEF head
<1>8. head \o back \in Seq(X) /\ Range(head \o back) = Range(head) \cup Range(back)
  <2>1. head \in Seq(X)
    BY <1>7 DEF head
  <2>2. QED BY <1>2, <2>1, JoinedTabs
<1>9. InsertAt(tabs, i, id) = head \o back
  BY <1>5 DEF head, one
<1>10. Range(head) = Range(front) \cup {id}
  BY <1>7 DEF head
<1>11. QED BY <1>6, <1>8, <1>9, <1>10

LEMMA PlaceThere ==
  ASSUME NEW X, NEW tabs \in Seq(X), NEW id \in Range(tabs)
  PROVE  PlaceOf(tabs, id) \in 1..Len(tabs) /\ tabs[PlaceOf(tabs, id)] = id
<1>1. \E i \in DOMAIN tabs : tabs[i] = id
  BY DEF Range
<1>2. QED BY <1>1 DEF PlaceOf

LEMMA ReorderedTabs ==
  ASSUME NEW X, NEW tabs \in Seq(X), NEW moving, NEW target, NEW edge
  PROVE  /\ reorderItem(tabs, moving, target, edge) \in Seq(X)
         /\ Range(reorderItem(tabs, moving, target, edge)) = Range(tabs)
<1>1. CASE moving = target \/ ~Contains(tabs, moving) \/ ~Contains(tabs, target)
  BY <1>1 DEF reorderItem
<1>2. CASE ~(moving = target \/ ~Contains(tabs, moving) \/ ~Contains(tabs, target))
  <2> DEFINE rest == Without(tabs, moving)
             place == PlaceOf(rest, target) + (IF edge = "after" THEN 1 ELSE 0)
  <2>1. moving \in Range(tabs) /\ target \in Range(tabs) /\ moving # target
    BY <1>2, TabThere
  <2>2. moving \in X
    BY <2>1 DEF Range
  <2>3. rest \in Seq(X) /\ Range(rest) = Range(tabs) \ {moving}
    BY AmongTabs DEF Without
  <2>4. reorderItem(tabs, moving, target, edge) = InsertAt(rest, place, moving)
    BY <1>2 DEF reorderItem
  <2> HIDE DEF rest
  <2>5. PlaceOf(rest, target) \in 1..Len(rest)
    BY <2>1, <2>3, PlaceThere
  <2>6. place \in 1..(Len(rest) + 1)
    BY <2>3, <2>5
  <2> HIDE DEF place
  <2>7. InsertAt(rest, place, moving) \in Seq(X) /\ Range(InsertAt(rest, place, moving)) = Range(rest) \cup {moving}
    BY <2>2, <2>3, <2>6, InsertedTabs
  <2>8. QED BY <2>1, <2>3, <2>4, <2>7
<1>3. QED BY <1>1, <1>2

LEMMA MovedTabs ==
  ASSUME NEW X, NEW tabs \in Seq(X), NEW moving, NEW offset
  PROVE  moveItem(tabs, moving, offset) \in Seq(X) /\ Range(moveItem(tabs, moving, offset)) = Range(tabs)
<1> DEFINE from == PlaceOf(tabs, moving)
           to == from + offset
<1>1. CASE ~Contains(tabs, moving) \/ to \notin DOMAIN tabs
  BY <1>1 DEF moveItem
<1>2. CASE Contains(tabs, moving) /\ to \in DOMAIN tabs
  <2>1. from \in DOMAIN tabs /\ tabs[from] = moving
    BY <1>2, TabThere, PlaceThere
  <2> DEFINE moved == [tabs EXCEPT ![from] = tabs[to], ![to] = moving]
  <2>2. moveItem(tabs, moving, offset) = moved
    BY <1>2 DEF moveItem
  <2> HIDE DEF from, to
  <2>3. /\ DOMAIN moved = DOMAIN tabs /\ moved[to] = moving
        /\ from # to => moved[from] = tabs[to]
        /\ \A i \in DOMAIN tabs : i # from /\ i # to => moved[i] = tabs[i]
    <3>1. CASE from = to
      BY <1>2, <2>1, <3>1
    <3>2. CASE from # to
      BY <1>2, <2>1, <3>2
    <3>3. QED BY <3>1, <3>2
  <2>4. moved \in Seq(X)
    BY <1>2, <2>1
  <2> HIDE DEF moved
  <2>5. \A i \in DOMAIN tabs : moved[i] \in Range(tabs)
    <3>1. moved[to] \in Range(tabs) /\ moved[from] \in Range(tabs)
      <4>1. tabs[from] \in Range(tabs) /\ tabs[to] \in Range(tabs)
        BY <1>2, <2>1, AtPlace
      <4>2. QED BY <2>1, <2>3, <4>1
    <3>2. QED BY <2>3, <3>1, AtPlace
  <2>6. \A i \in DOMAIN tabs : tabs[i] \in Range(moved)
    <3>1. moved[to] \in Range(moved) /\ moved[from] \in Range(moved)
      BY <1>2, <2>1, <2>3, AtPlace
    <3>2. tabs[to] \in Range(moved) /\ tabs[from] \in Range(moved)
      BY <2>1, <2>3, <3>1
    <3>3. \A i \in DOMAIN tabs : i # from /\ i # to => tabs[i] \in Range(moved)
      <4>1. \A i \in DOMAIN tabs : moved[i] \in Range(moved)
        BY <2>3, AtPlace
      <4>2. QED BY <2>3, <4>1
    <3>4. QED BY <3>2, <3>3
  <2>7. Range(moved) = Range(tabs)
    <3>1. \A e \in Range(moved) : e \in Range(tabs)
      BY <2>3, <2>5, AtPlace
    <3>2. \A e \in Range(tabs) : e \in Range(moved)
      BY <2>6, AtPlace
    <3>3. QED BY <3>1, <3>2
  <2>8. QED BY <2>2, <2>4, <2>7
<1>3. QED BY <1>1, <1>2

----------------------------------------------------------------------------
(* What a step makes of the tabs.                                              *)

Ever == Initial \cup Spare
NavFields == {"tabs", "current", "view", "unseen", "hash", "applied"}
NavOK(n) == DOMAIN n = NavFields /\ \E X : n.tabs \in Seq(X)

(* The Agent in front has a tab, unless it is one of those that are gone.      *)
Fronted(n, gone) == n.current \in Ever \ gone => n.current \in Range(n.tabs)
(* m opens no tab but in front, and takes marks from what is seen or closed.   *)
InFront(n, m) == \A id \in Range(m.tabs) \ Range(n.tabs) : m.current = id
Seen(n, m) == \A id \in n.unseen \ m.unseen : Viewed(m, id) \/ id \notin Range(m.tabs)
Follows(n, m, gone) == NavOK(m) /\ (Fronted(n, gone) => Fronted(m, gone)) /\ InFront(n, m) /\ Seen(n, m)

LEMMA NoAgentIsNone == None \notin Ever
BY ConsoleBounds DEF Ever

LEMMA SelectFollows ==
  ASSUME NEW n, NavOK(n), NEW id, NEW gone
  PROVE  Follows(n, selectAgent(n, id), gone)
<1> DEFINE m == selectAgent(n, id)
<1>1. PICK X : n.tabs \in Seq(X)
  BY DEF NavOK
<1>2. Open(n.tabs, id) \in Seq(X \cup {id}) /\ Range(Open(n.tabs, id)) = Range(n.tabs) \cup {id}
  BY <1>1, OpenTabs
<1>3. /\ DOMAIN m = NavFields /\ m.tabs = Open(n.tabs, id) /\ m.current = id /\ m.view = "agents"
      /\ m.unseen = n.unseen \ {id}
  BY DEF selectAgent, NavOK, NavFields
<1> HIDE DEF m
<1>4. NavOK(m)
  BY <1>2, <1>3 DEF NavOK
<1>5. Fronted(m, gone) /\ InFront(n, m) /\ Seen(n, m)
  BY <1>2, <1>3 DEF Fronted, InFront, Seen, Viewed
<1>6. Follows(n, m, gone)
  BY <1>4, <1>5 DEF Follows
<1>7. QED BY <1>6 DEF m

LEMMA SelectViewFollows ==
  ASSUME NEW n, NavOK(n), NEW view, NEW gone
  PROVE  Follows(n, selectView(n, view), gone)
<1> DEFINE m == selectView(n, view)
<1>1. DOMAIN m = NavFields /\ m.tabs = n.tabs /\ m.current = None /\ m.unseen = n.unseen
  BY DEF selectView, NavOK, NavFields
<1> HIDE DEF m
<1>2. Follows(n, m, gone)
  BY <1>1, NoAgentIsNone DEF Follows, NavOK, Fronted, InFront, Seen
<1>3. QED BY <1>2 DEF m

(* A step that only changes the order of the tabs.                             *)
LEMMA TabsMoved ==
  ASSUME NEW n, NavOK(n), NEW X, NEW tabs \in Seq(X), Range(tabs) = Range(n.tabs), NEW gone
  PROVE  Follows(n, [n EXCEPT !.tabs = tabs], gone)
<1> DEFINE m == [n EXCEPT !.tabs = tabs]
<1>1. DOMAIN m = NavFields /\ m.tabs = tabs /\ m.current = n.current /\ m.unseen = n.unseen
  BY DEF NavOK, NavFields
<1> HIDE DEF m
<1>2. Follows(n, m, gone)
  BY <1>1 DEF Follows, NavOK, Fronted, InFront, Seen
<1>3. QED BY <1>2 DEF m

LEMMA WithoutTabs ==
  ASSUME NEW n, NavOK(n), NEW id
  PROVE  /\ \E X : Without(n.tabs, id) \in Seq(X)
         /\ Range(Without(n.tabs, id)) = Range(n.tabs) \ {id}
<1>1. PICK X : n.tabs \in Seq(X)
  BY DEF NavOK
<1>2. QED BY <1>1, AmongTabs DEF Without

(* A tab is closed: what comes to the front is one of those that are left.     *)
LEMMA CloseFollows ==
  ASSUME NEW n, NavOK(n), NEW id, NEW held, NEW gone, held = n.current \/ id \in gone
  PROVE  Follows(n, closeAgent(n, id, held), gone)
<1> DEFINE m == closeAgent(n, id, held)
           rest == Without(n.tabs, id)
           place == PlaceOf(n.tabs, id)
           next == IF rest = <<>> THEN None ELSE rest[IF place <= Len(rest) THEN place ELSE Len(rest)]
           seen == [n EXCEPT !.unseen = @ \ {id}, !.tabs = rest]
<1>1. PICK X : n.tabs \in Seq(X)
  BY DEF NavOK
<1>2. PICK Y : rest \in Seq(Y)
  BY WithoutTabs
<1>3. Range(rest) = Range(n.tabs) \ {id}
  BY WithoutTabs
<1>4. CASE ~Contains(n.tabs, id)
  <2>1. id \notin Range(n.tabs)
    BY <1>1, <1>4, TabThere
  <2>2. DOMAIN m = NavFields /\ m.tabs = n.tabs /\ m.current = n.current /\ m.unseen = n.unseen \ {id}
    BY <1>4 DEF closeAgent, NavOK, NavFields
  <2>3. Follows(n, m, gone)
    <3> HIDE DEF m
    <3>1. QED BY <2>1, <2>2 DEF Follows, NavOK, Fronted, InFront, Seen
  <2>4. QED BY <2>3 DEF m
<1>5. CASE Contains(n.tabs, id)
  <2>1. next = None \/ next \in Range(rest)
    <3>1. CASE rest # <<>>
      <4>1. id \in Range(n.tabs)
        BY <1>1, <1>5, TabThere
      <4>2. place \in 1..Len(n.tabs)
        BY <1>1, <4>1, PlaceThere
      <4>3. Len(rest) \in Nat /\ Len(rest) # 0 /\ DOMAIN rest = 1..Len(rest)
        <5> HIDE DEF rest
        <5>1. QED BY <1>2, <3>1
      <4>4. place \in Nat /\ place >= 1
        <5> HIDE DEF place
        <5>1. Len(n.tabs) \in Nat
          BY <1>1
        <5>2. QED BY <4>2, <5>1
      <4> DEFINE i == IF place <= Len(rest) THEN place ELSE Len(rest)
      <4>5. i \in DOMAIN rest
        <5> HIDE DEF rest, place
        <5>1. QED BY <4>3, <4>4
      <4>6. next = rest[i]
        BY <3>1
      <4> HIDE DEF rest, i, next
      <4>7. QED BY <4>5, <4>6, AtPlace
    <3>2. CASE rest = <<>>
      BY <3>2
    <3>3. QED BY <3>1, <3>2
  <2>2. /\ DOMAIN m = NavFields /\ m.tabs = rest /\ m.unseen = n.unseen \ {id}
        /\ m.current = IF held = id THEN next ELSE n.current
    <3>1. m = IF held # id THEN seen
              ELSE IF next = None THEN [seen EXCEPT !.current = None, !.hash = None]
              ELSE [seen EXCEPT !.current = next, !.view = "agents", !.hash = next]
      BY <1>5 DEF closeAgent
    <3>2. DOMAIN seen = NavFields /\ seen.tabs = rest /\ seen.unseen = n.unseen \ {id} /\ seen.current = n.current
      <4> HIDE DEF rest
      <4>1. QED BY DEF NavOK, NavFields
    <3> HIDE DEF m, seen, next, rest
    <3>3. QED BY <3>1, <3>2 DEF NavFields
  <2> HIDE DEF m, next, rest, seen
  <2>3. NavOK(m)
    BY <1>2, <2>2 DEF NavOK
  <2>4. Fronted(n, gone) => Fronted(m, gone)
    <3>1. CASE held = id
      BY <2>1, <2>2, <3>1, NoAgentIsNone DEF Fronted
    <3>2. CASE held # id
      BY <1>3, <2>2, <3>2 DEF Fronted
    <3>3. QED BY <3>1, <3>2
  <2>5. InFront(n, m) /\ Seen(n, m)
    BY <1>3, <2>2 DEF InFront, Seen
  <2>6. Follows(n, m, gone)
    BY <2>3, <2>4, <2>5 DEF Follows
  <2>7. QED BY <2>6 DEF m
<1>6. QED BY <1>4, <1>5

----------------------------------------------------------------------------
(* The effects that follow a new Agent list.                                   *)

LEMMA FilteredFacts ==
  ASSUME NEW n, NavOK(n), NEW ids, NEW m, m = Filtered(n, ids)
  PROVE  /\ NavOK(m) /\ Range(m.tabs) = Range(n.tabs) \cap ids
         /\ m.unseen = n.unseen \cap ids
         /\ m.current = IF n.current \in ids THEN n.current ELSE None
<1>1. PICK X : n.tabs \in Seq(X)
  BY DEF NavOK
<1>2. Among(n.tabs, ids) \in Seq(X) /\ Range(Among(n.tabs, ids)) = Range(n.tabs) \cap ids
  BY <1>1, AmongTabs
<1>3. /\ DOMAIN m = NavFields /\ m.tabs = Among(n.tabs, ids) /\ m.unseen = n.unseen \cap ids
      /\ m.current = IF n.current \in ids THEN n.current ELSE None
  BY DEF Filtered, NavOK, NavFields
<1>4. QED BY <1>2, <1>3 DEF NavOK

(* The address opens at most the tab it puts in front.                         *)
LEMMA RoutedFacts ==
  ASSUME NEW n, NavOK(n), NEW ids, NEW m, m = HashRoute(n, ids)
  PROVE  /\ NavOK(m) /\ m.unseen = n.unseen
         /\ \/ Range(m.tabs) = Range(n.tabs) /\ m.current = n.current
            \/ m.current \in ids /\ Range(m.tabs) = Range(n.tabs) \cup {m.current}
<1>1. PICK X : n.tabs \in Seq(X)
  BY DEF NavOK
<1>2. CASE n.applied
  BY <1>2 DEF HashRoute
<1>3. CASE ~n.applied
  <2>1. CASE n.hash \in Workspaces
    <3>1. m = [n EXCEPT !.view = n.hash, !.applied = TRUE]
      BY <1>3, <2>1 DEF HashRoute
    <3>2. DOMAIN m = NavFields /\ m.tabs = n.tabs /\ m.unseen = n.unseen /\ m.current = n.current
      BY <3>1 DEF NavOK, NavFields
    <3>3. QED BY <1>1, <3>2 DEF NavOK
  <2>2. CASE n.hash \notin Workspaces /\ ids = {}
    <3>1. m = n
      BY <1>3, <2>2 DEF HashRoute
    <3>2. QED BY <3>1
  <2>3. CASE n.hash \notin Workspaces /\ ids # {} /\ n.hash \in ids
    <3>1. m = [n EXCEPT !.tabs = Open(@, n.hash), !.current = n.hash, !.applied = TRUE]
      BY <1>3, <2>3 DEF HashRoute
    <3>2. Open(n.tabs, n.hash) \in Seq(X \cup {n.hash}) /\ Range(Open(n.tabs, n.hash)) = Range(n.tabs) \cup {n.hash}
      BY <1>1, OpenTabs
    <3>3. DOMAIN m = NavFields /\ m.tabs = Open(n.tabs, n.hash) /\ m.unseen = n.unseen /\ m.current = n.hash
      BY <3>1 DEF NavOK, NavFields
    <3>4. QED BY <2>3, <3>2, <3>3 DEF NavOK
  <2>4. CASE n.hash \notin Workspaces /\ ids # {} /\ n.hash \notin ids
    <3>1. m = [n EXCEPT !.applied = TRUE]
      BY <1>3, <2>4 DEF HashRoute
    <3>2. DOMAIN m = NavFields /\ m.tabs = n.tabs /\ m.unseen = n.unseen /\ m.current = n.current
      BY <3>1 DEF NavOK, NavFields
    <3>3. QED BY <1>1, <3>2 DEF NavOK
  <2>5. QED BY <2>1, <2>2, <2>3, <2>4
<1>4. QED BY <1>2, <1>3

(* m shows what of n is in ids, and may have opened one of ids in front.       *)
Narrowed(n, ids, m) ==
  /\ NavOK(m) /\ m.unseen = n.unseen \cap ids
  /\ \/ /\ Range(m.tabs) = Range(n.tabs) \cap ids
        /\ m.current = IF n.current \in ids THEN n.current ELSE None
     \/ /\ m.current \in ids
        /\ Range(m.tabs) = (Range(n.tabs) \cap ids) \cup {m.current}

LEMMA FollowedFacts ==
  ASSUME NEW n, NavOK(n), NEW ids
  PROVE  Narrowed(n, ids, Followed(n, ids))
<1> DEFINE m == Followed(n, ids)
           f == Filtered(n, ids)
           r == HashRoute(f, ids)
<1>1. m = Addressed(r, ids)
  BY DEF Followed
<1>2. /\ NavOK(f) /\ Range(f.tabs) = Range(n.tabs) \cap ids
      /\ f.unseen = n.unseen \cap ids
      /\ f.current = IF n.current \in ids THEN n.current ELSE None
  <2> HIDE DEF f
  <2>1. f = Filtered(n, ids)
    BY DEF f
  <2>2. QED BY <2>1, FilteredFacts
<1> HIDE DEF f
<1>3. /\ NavOK(r) /\ r.unseen = f.unseen
      /\ \/ Range(r.tabs) = Range(f.tabs) /\ r.current = f.current
         \/ r.current \in ids /\ Range(r.tabs) = Range(f.tabs) \cup {r.current}
  <2> HIDE DEF r
  <2>1. r = HashRoute(f, ids)
    BY DEF r
  <2>2. QED BY <1>2, <2>1, RoutedFacts
<1> HIDE DEF r
<1> HIDE DEF m
<1>4. DOMAIN m = NavFields /\ m.tabs = r.tabs /\ m.unseen = r.unseen /\ m.current = r.current
  BY <1>1, <1>3 DEF Addressed, NavOK, NavFields
<1>5. NavOK(m)
  BY <1>3, <1>4 DEF NavOK
<1>6. Narrowed(n, ids, m)
  BY <1>2, <1>3, <1>4, <1>5 DEF Narrowed
<1>7. QED BY <1>6 DEF m

LEMMA FollowedFollows ==
  ASSUME NEW n, NavOK(n), NEW ids, NEW gone
  PROVE  Follows(n, Followed(n, ids), gone)
<1> DEFINE m == Followed(n, ids)
<1>1. Narrowed(n, ids, m)
  BY FollowedFacts
<1> HIDE DEF m
<1>2. NavOK(m)
  BY <1>1 DEF Narrowed
<1>3. Fronted(n, gone) => Fronted(m, gone)
  BY <1>1, NoAgentIsNone DEF Fronted, Narrowed
<1>4. InFront(n, m)
  BY <1>1 DEF InFront, Narrowed
<1>5. Seen(n, m)
  <2>1. SUFFICES ASSUME NEW id \in n.unseen \ m.unseen PROVE Viewed(m, id) \/ id \notin Range(m.tabs)
    BY DEF Seen
  <2>2. id \notin ids
    BY <1>1, <2>1 DEF Narrowed
  <2>3. QED BY <1>1, <2>2 DEF Narrowed
<1>6. Follows(n, m, gone)
  BY <1>2, <1>3, <1>4, <1>5 DEF Follows
<1>7. QED BY <1>6 DEF m

(* A result is marked; then the list may be followed.                          *)
LEMMA MarkedFacts ==
  ASSUME NEW n, NavOK(n), NEW id, NEW m, m = Marked(n, id)
  PROVE  NavOK(m) /\ m.tabs = n.tabs /\ m.current = n.current /\ n.unseen \subseteq m.unseen
<1>1. CASE m = n
  BY <1>1
<1>2. CASE m # n
  <2>1. m = [n EXCEPT !.unseen = @ \cup {id}]
    BY <1>2 DEF Marked
  <2>2. DOMAIN m = NavFields /\ m.tabs = n.tabs /\ m.current = n.current /\ m.unseen = n.unseen \cup {id}
    BY <2>1 DEF NavOK, NavFields
  <2>3. QED BY <2>2 DEF NavOK
<1>3. QED BY <1>1, <1>2

(* What changes marks only, and takes none, may come before what follows.      *)
LEMMA FollowsMarked ==
  ASSUME NEW n, NEW k, NEW m, NEW gone,
         NavOK(k), k.tabs = n.tabs, k.current = n.current, n.unseen \subseteq k.unseen,
         Follows(k, m, gone)
  PROVE  Follows(n, m, gone)
BY DEF Follows, Fronted, InFront, Seen

LEMMA StaysFollows ==
  ASSUME NEW n, NavOK(n), NEW gone
  PROVE  Follows(n, n, gone)
BY DEF Follows, Fronted, InFront, Seen

(* A killed Agent loses its tab and mark, and the list it is no longer in      *)
(* opens no tab for it.                                                        *)
LEMMA KilledFollows ==
  ASSUME NEW n, NavOK(n), NEW id, NEW ids, id \notin ids, NEW gone, id \in gone
  PROVE  Follows(n, Followed(Killed(n, id), ids), gone)
<1> DEFINE k == Killed(n, id)
           m == Followed(k, ids)
<1>1. /\ DOMAIN k = NavFields /\ k.tabs = Without(n.tabs, id) /\ k.unseen = n.unseen \ {id}
      /\ k.current = IF n.current = id THEN None ELSE n.current
  BY DEF Killed, NavOK, NavFields
<1> HIDE DEF k
<1>2. NavOK(k) /\ Range(k.tabs) = Range(n.tabs) \ {id}
  <2>1. PICK X : Without(n.tabs, id) \in Seq(X)
    BY WithoutTabs
  <2>2. Range(Without(n.tabs, id)) = Range(n.tabs) \ {id}
    BY WithoutTabs
  <2>3. QED BY <1>1, <2>1, <2>2 DEF NavOK
<1>3. Narrowed(k, ids, m)
  BY <1>2, FollowedFacts
<1> HIDE DEF m
<1>4. Fronted(n, gone) => Fronted(m, gone)
  BY <1>1, <1>2, <1>3, NoAgentIsNone DEF Fronted, Narrowed
<1>5. InFront(n, m)
  BY <1>2, <1>3 DEF InFront, Narrowed
<1>6. Seen(n, m)
  <2>1. SUFFICES ASSUME NEW x \in n.unseen \ m.unseen PROVE Viewed(m, x) \/ x \notin Range(m.tabs)
    BY DEF Seen
  <2>2. x \notin ids
    BY <1>1, <1>3, <2>1 DEF Narrowed
  <2>3. QED BY <1>3, <2>2 DEF Narrowed
<1>7. Follows(n, m, gone)
  BY <1>3, <1>4, <1>5, <1>6 DEF Follows, Narrowed
<1>8. QED BY <1>7 DEF m, k

----------------------------------------------------------------------------
(* The Hub's log, and who is gone for good.                                    *)

Gone == {log[i].agent : i \in {j \in DOMAIN log : log[j].kind = "killed"}}
CallFields == {"kind", "agent", "asked", "held"}
CallOK(c) == DOMAIN c = CallFields /\ (c.kind = "archived" => c.agent \in Gone)

\* An Agent that was archived never comes back, and the answer to an archive
\* comes after it.
ConsoleInv ==
  /\ DOMAIN source = {"state", "openedOnce", "cursor", "list"} /\ source.cursor \in Nat /\ faults \in Nat
  /\ (\E X : log \in Seq(X)) /\ \A i \in DOMAIN log : log[i].agent \in Ever
  /\ NavOK(nav) /\ Fronted(nav, Gone)
  /\ \A c \in calls : CallOK(c)

LEMMA NowAndGone ==
  ASSUME ConsoleInv
  PROVE  Now \subseteq Ever \ Gone
<1>1. DOMAIN log = 1..Len(log)
  BY DEF ConsoleInv
<1>2. Now \cap Gone = {}
  BY <1>1 DEF Now, Alive, Gone
<1>3. Now \subseteq Ever
  BY <1>1 DEF Now, Alive, ConsoleInv, Ever
<1>4. QED BY <1>2, <1>3

(* An event adds to the log, and at most to those that are gone.               *)
LEMMA EventLogged ==
  ASSUME ConsoleInv, NEW kind, NEW id \in Ever, Event(kind, id)
  PROVE  /\ (\E X : log' \in Seq(X)) /\ \A i \in DOMAIN log' : log'[i].agent \in Ever
         /\ Gone \subseteq Gone' /\ (kind = "killed" => id \in Gone')
<1> DEFINE e == [kind |-> kind, agent |-> id]
<1>1. PICK X : log \in Seq(X)
  BY DEF ConsoleInv
<1>2. log' = Append(log, e)
  BY DEF Event
<1>3. e.kind = kind /\ e.agent = id
  OBVIOUS
<1> HIDE DEF e
<1>4. /\ log' \in Seq(X \cup {e}) /\ Len(log) \in Nat /\ DOMAIN log = 1..Len(log) /\ DOMAIN log' = 1..(Len(log) + 1)
      /\ \A i \in DOMAIN log : i \in DOMAIN log' /\ log'[i] = log[i]
      /\ log'[Len(log) + 1] = e
  <2>1. log \in Seq(X \cup {e}) /\ e \in X \cup {e}
    BY <1>1
  <2>2. QED BY <1>2, <2>1
<1>5. \A i \in DOMAIN log' : i \in DOMAIN log \/ i = Len(log) + 1
  BY <1>4
<1>6. \A i \in DOMAIN log' : log'[i].agent \in Ever
  BY <1>3, <1>4, <1>5 DEF ConsoleInv
<1>7. Gone \subseteq Gone'
  BY <1>4 DEF Gone
<1>8. kind = "killed" => id \in Gone'
  <2>1. Len(log) + 1 \in DOMAIN log'
    BY <1>4
  <2>2. QED BY <1>3, <1>4, <2>1 DEF Gone
<1>9. QED BY <1>4, <1>6, <1>7, <1>8

LEMMA CallMade == ASSUME NEW kind PROVE DOMAIN Call(kind) = CallFields /\ Call(kind).kind = kind
BY DEF Call, CallFields

----------------------------------------------------------------------------
(* The steps.                                                                  *)

LEMMA HashedFollows ==
  ASSUME NEW n, NEW m, NEW gone, Follows(n, m, gone), NEW hash
  PROVE  Follows(n, [m EXCEPT !.hash = hash], gone)
<1> DEFINE k == [m EXCEPT !.hash = hash]
<1>1. /\ DOMAIN k = NavFields /\ k.tabs = m.tabs /\ k.current = m.current /\ k.unseen = m.unseen
      /\ k.view = m.view
  BY DEF Follows, NavOK, NavFields
<1> HIDE DEF k
<1>2. Follows(n, k, gone)
  BY <1>1 DEF Follows, NavOK, Fronted, InFront, Seen, Viewed
<1>3. QED BY <1>2 DEF k

LEMMA LoadedFacts ==
  ASSUME NEW X, NEW tabs \in Seq(X), NEW current, NEW hash
  PROVE  /\ NavOK(Loaded(tabs, current, hash))
         /\ Range(Loaded(tabs, current, hash).tabs) = Range(tabs)
         /\ Loaded(tabs, current, hash).current = current
<1> DEFINE n == [tabs |-> tabs, current |-> current, view |-> "agents", unseen |-> {}, hash |-> hash, applied |-> FALSE]
           m == Loaded(tabs, current, hash)
<1>1. DOMAIN n = NavFields /\ n.tabs = tabs /\ n.current = current
  BY DEF NavFields
<1>2. m = HashRoute(n, {})
  BY DEF Loaded
<1> HIDE DEF n, m
<1>3. NavOK(n)
  BY <1>1 DEF NavOK
<1>4. NavOK(m) /\ Range(m.tabs) = Range(n.tabs) /\ m.current = n.current
  BY <1>2, <1>3, RoutedFacts
<1>5. QED BY <1>1, <1>4 DEF m

(* The tabs in another order.                                                  *)
LEMMA MoveFollows ==
  ASSUME NavOK(nav), NEW id, NEW offset, NEW gone
  PROVE  Follows(nav, [nav EXCEPT !.tabs = moveItem(@, id, offset)], gone)
<1>1. PICK X : nav.tabs \in Seq(X)
  BY DEF NavOK
<1>2. QED BY <1>1, MovedTabs, TabsMoved

LEMMA ReorderFollows ==
  ASSUME NavOK(nav), NEW id, NEW target, NEW edge, NEW gone
  PROVE  Follows(nav, [nav EXCEPT !.tabs = reorderItem(@, id, target, edge)], gone)
<1>1. PICK X : nav.tabs \in Seq(X)
  BY DEF NavOK
<1>2. QED BY <1>1, ReorderedTabs, TabsMoved

LEMMA DeliverFollows ==
  ASSUME ConsoleInv, Deliver
  PROVE  Follows(nav, nav', Gone)
<1> DEFINE e == log[source.cursor + 1]
           marked == IF e.kind = "result" THEN Marked(nav, e.agent) ELSE nav
<1>1. NavOK(nav)
  BY DEF ConsoleInv
<1>2. CASE /\ e.kind \in {"result", "background"}
           /\ nav' = IF e.agent \in agents THEN Followed(marked, agents) ELSE marked
  <2>1. NavOK(marked) /\ marked.tabs = nav.tabs /\ marked.current = nav.current /\ nav.unseen \subseteq marked.unseen
    BY <1>1, MarkedFacts
  <2> HIDE DEF marked, e
  <2>2. Follows(marked, nav', Gone)
    BY <1>2, <2>1, FollowedFollows, StaysFollows
  <2>3. QED BY <2>1, <2>2, FollowsMarked
<1>3. CASE e.kind = "killed" /\ agents' = agents \ {e.agent} /\ nav' = Followed(Killed(nav, e.agent), agents')
  <2>1. source.cursor + 1 \in DOMAIN log
    <3>1. source.cursor < Len(log) /\ source.cursor \in Nat
      BY DEF Deliver, ConsoleInv
    <3>2. Len(log) \in Nat /\ DOMAIN log = 1..Len(log)
      BY DEF ConsoleInv
    <3>3. QED BY <3>1, <3>2
  <2>2. e.agent \in Gone
    BY <1>3, <2>1 DEF Gone
  <2>3. e.agent \notin agents'
    BY <1>3
  <2> HIDE DEF e
  <2>4. QED BY <1>1, <1>3, <2>2, <2>3, KilledFollows
<1>4. CASE nav' = nav
  BY <1>1, <1>4, StaysFollows
<1>5. QED BY <1>2, <1>3, <1>4 DEF Deliver

LEMMA AnswerFollows ==
  ASSUME ConsoleInv, Answer
  PROVE  Follows(nav, nav', Gone)
<1>1. NavOK(nav)
  BY DEF ConsoleInv
<1>2. PICK c \in calls : (\E n \in 0..Len(log) : ListAnswered(c, n)) \/ ArchiveAnswered(c)
  BY DEF Answer
<1>3. CASE \E n \in 0..Len(log) : ListAnswered(c, n)
  BY <1>1, <1>3, FollowedFollows DEF ListAnswered
<1>4. CASE ArchiveAnswered(c)
  <2>1. c.agent \in Gone /\ nav' = closeAgent(nav, c.agent, c.held)
    BY <1>4 DEF ArchiveAnswered, ConsoleInv, CallOK
  <2>2. QED BY <1>1, <2>1, CloseFollows
<1>5. QED BY <1>2, <1>3, <1>4

(* What the owner does, and what the page does next.                           *)
LEMMA OwnerFollows ==
  ASSUME ConsoleInv, Select \/ SelectView \/ Close \/ MoveTab \/ EndPointer \/ OpenCreated
  PROVE  Follows(nav, nav', Gone)
<1>1. NavOK(nav)
  BY DEF ConsoleInv
<1>2. CASE Select
  BY <1>1, <1>2, SelectFollows DEF Select
<1>3. CASE SelectView
  BY <1>1, <1>3, SelectViewFollows DEF SelectView
<1>4. CASE Close
  BY <1>1, <1>4, CloseFollows DEF Close
<1>5. CASE MoveTab
  BY <1>1, <1>5, MoveFollows DEF MoveTab
<1>6. CASE EndPointer
  <2>1. \/ \E edge \in {"before", "after"} :
              nav' = [nav EXCEPT !.tabs = reorderItem(@, pointer.id, pointer.target, edge)]
        \/ nav' = selectAgent(nav, pointer.id)
        \/ nav' = nav
    BY <1>6 DEF EndPointer
  <2>2. QED BY <1>1, <2>1, ReorderFollows, SelectFollows, StaysFollows
<1>7. CASE OpenCreated
  <2>1. PICK c : nav' = [selectAgent(nav, c.agent) EXCEPT !.hash = IF c.agent \in agents THEN c.agent ELSE nav.hash]
    BY <1>7 DEF OpenCreated
  <2>2. Follows(nav, selectAgent(nav, c.agent), Gone)
    BY <1>1, SelectFollows
  <2>3. QED BY <2>1, <2>2, HashedFollows
<1>8. QED BY <1>2, <1>3, <1>4, <1>5, <1>6, <1>7

(* Only the Hub writes the log; the rest leaves it.                            *)
LogOK == (\E X : log \in Seq(X)) /\ \A i \in DOMAIN log : log[i].agent \in Ever

LEMMA CallsStay ==
  ASSUME ConsoleInv, Gone \subseteq Gone'
  PROVE  \A c \in calls : CallOK(c)'
BY DEF ConsoleInv, CallOK

LEMMA CallsFollow ==
  ASSUME ConsoleInv, Next, log' = log
  PROVE  \A c \in calls' : CallOK(c)'
<1>1. Gone' = Gone
  BY DEF Gone
<1>2. \A c \in calls : CallOK(c)'
  BY <1>1, CallsStay
<1>3. \A kind : kind # "archived" => CallOK(Call(kind))'
  <2>1. \A kind : DOMAIN Call(kind)' = CallFields /\ Call(kind)'.kind = kind
    BY DEF Call, CallFields
  <2>2. QED BY <2>1 DEF CallOK
<1>4. CASE calls' \subseteq calls \cup {Call("agents"), Call("reconcile"), Call("create")}
  <2>1. \A kind : Call(kind)' = Call(kind)
    BY DEF Call
  <2>2. QED BY <1>2, <1>3, <1>4, <2>1
<1>5. CASE Archive
  <2>1. PICK id, held : calls' = calls \cup {[Call("archive") EXCEPT !.agent = id, !.held = held]}
    BY <1>5 DEF Archive
  <2> DEFINE c == [Call("archive") EXCEPT !.agent = id, !.held = held]
  <2>2. DOMAIN c = CallFields /\ c.kind = "archive"
    BY CallMade DEF CallFields
  <2>3. c' = c
    BY DEF Call
  <2> HIDE DEF c
  <2>4. CallOK(c)'
    BY <2>2, <2>3 DEF CallOK
  <2>5. calls' = calls \cup {c}
    BY <2>1 DEF c
  <2>6. QED BY <1>2, <2>3, <2>4, <2>5
<1>6. CASE Created
  <2>1. PICK c \in calls :
          \/ calls' = (calls \ {c}) \cup {[c EXCEPT !.kind = "profile"]}
          \/ \E C \in Invalidated : calls' = (C \ {c}) \cup {[c EXCEPT !.kind = "opening"]}
    BY <1>6 DEF Created, InFlight
  <2>2. \A kind : DOMAIN [c EXCEPT !.kind = kind] = CallFields /\ [c EXCEPT !.kind = kind].kind = kind
    BY DEF ConsoleInv, CallOK, CallFields
  <2>3. CallOK([c EXCEPT !.kind = "profile"])' /\ CallOK([c EXCEPT !.kind = "opening"])'
    BY <2>2 DEF CallOK
  <2>4. (\A C \in Invalidated : C \subseteq calls \cup {Call("agents")}) /\ Call("agents")' = Call("agents")
    BY DEF Invalidated, Dropped, InFlight, Call
  <2>5. QED BY <1>2, <1>3, <2>1, <2>3, <2>4
<1>7. CASE Serve
  <2>1. PICK c \in calls : calls' = calls \ {c} \/ \E kind, id : Event(kind, id)
    BY <1>7 DEF Serve
  <2>2. \A kind, id : ~Event(kind, id)
    <3>1. PICK X : log \in Seq(X)
      BY DEF ConsoleInv
    <3>2. \A e : Len(Append(log, e)) = Len(log) + 1 /\ Len(log) \in Nat
      BY <3>1
    <3>3. \A e : Append(log, e) # log
      BY <3>2
    <3>4. QED BY <3>3 DEF Event
  <2>3. QED BY <1>2, <2>1, <2>2
<1>8. QED
  <2>1. \A C \in Invalidated : C \subseteq calls \cup {Call("agents")}
    BY DEF Invalidated, Dropped, InFlight
  <2>2. CASE \/ HubEvent \/ Opened \/ Drop \/ DeliverList \/ Visible
    BY <1>4, <2>2 DEF HubEvent, Opened, Drop, DeliverList, Visible
  <2>3. CASE Deliver
    BY <1>4, <2>1, <2>3 DEF Deliver
  <2>4. CASE Answer \/ Fail \/ OpenCreated
    BY <1>4, <2>4 DEF Answer, Fail, OpenCreated
  <2>5. CASE \/ Select \/ SelectView \/ Close \/ MoveTab
             \/ BeginPointer \/ MovePointer \/ ClearPointer \/ EndPointer
    BY <1>4, <2>5 DEF Select, SelectView, Close, MoveTab, BeginPointer, MovePointer, ClearPointer, EndPointer
  <2>6. CASE Create \/ Reload
    BY <1>4, <2>6 DEF Create, Reload, Fresh
  <2>7. QED BY <1>5, <1>6, <1>7, <2>2, <2>3, <2>4, <2>5, <2>6 DEF Next

(* The tabs follow in every step but a load of the page.                       *)
LEMMA NavFollows ==
  ASSUME ConsoleInv, Next, ~Reload
  PROVE  Follows(nav, nav', Gone)
<1>1. CASE nav' = nav
  BY <1>1, StaysFollows DEF ConsoleInv
<1>2. CASE DeliverList
  BY <1>2, FollowedFollows DEF DeliverList, ConsoleInv
<1>3. CASE Deliver
  BY <1>3, DeliverFollows
<1>4. CASE Answer
  BY <1>4, AnswerFollows
<1>5. CASE Select \/ SelectView \/ Close \/ MoveTab \/ EndPointer \/ OpenCreated
  BY <1>5, OwnerFollows
<1>6. CASE HubEvent \/ Serve \/ Opened \/ Drop \/ Visible \/ Fail
  BY <1>1, <1>6 DEF HubEvent, Serve, Opened, Drop, Visible, Fail
<1>7. CASE BeginPointer \/ MovePointer \/ ClearPointer \/ Archive \/ Create \/ Created
  BY <1>1, <1>7 DEF BeginPointer, MovePointer, ClearPointer, Archive, Create, Created
<1>8. QED BY <1>2, <1>3, <1>4, <1>5, <1>6, <1>7 DEF Next

(* A load keeps the tabs and the one in front.                                 *)
LEMMA ReloadKeeps ==
  ASSUME ConsoleInv, Reload
  PROVE  NavOK(nav') /\ Range(nav'.tabs) = Range(nav.tabs) /\ nav'.current = nav.current
<1>1. PICK X : nav.tabs \in Seq(X)
  BY DEF ConsoleInv, NavOK
<1>2. nav' = Loaded(nav.tabs, nav.current, nav.hash)
  BY DEF Reload
<1>3. QED BY <1>1, <1>2, LoadedFacts

(* The log grows by at most one event, and the answers know of it.             *)
LEMMA LogFollows ==
  ASSUME ConsoleInv, Next
  PROVE  LogOK' /\ Gone \subseteq Gone' /\ \A c \in calls' : CallOK(c)'
<1>1. CASE log' = log
  <2>1. LogOK' /\ Gone' = Gone
    BY <1>1 DEF LogOK, ConsoleInv, Gone
  <2>2. QED BY <1>1, <2>1, CallsFollow
<1>2. CASE HubEvent
  <2>1. PICK kind \in HubKinds, id \in Now : Event(kind, id)
    BY <1>2 DEF HubEvent
  <2>2. id \in Ever
    BY NowAndGone
  <2>3. LogOK' /\ Gone \subseteq Gone'
    BY <2>1, <2>2, EventLogged DEF LogOK
  <2>4. calls' = calls
    BY <1>2 DEF HubEvent
  <2>5. QED BY <2>3, <2>4, CallsStay
<1>3. CASE Serve /\ log' # log
  <2>1. PICK c \in calls :
          \/ /\ c.agent \in Now /\ Event("killed", c.agent)
             /\ calls' = (calls \ {c}) \cup {[c EXCEPT !.kind = "archived"]}
          \/ \E id \in Spare : /\ Event("created", id)
                               /\ calls' = (calls \ {c}) \cup {[c EXCEPT !.kind = "created", !.agent = id]}
    BY <1>3 DEF Serve
  <2>2. DOMAIN c = CallFields
    BY DEF ConsoleInv, CallOK
  <2>3. CASE /\ c.agent \in Now /\ Event("killed", c.agent)
             /\ calls' = (calls \ {c}) \cup {[c EXCEPT !.kind = "archived"]}
    <3>1. c.agent \in Ever
      BY <2>3, NowAndGone
    <3>2. LogOK' /\ Gone \subseteq Gone' /\ c.agent \in Gone'
      BY <2>3, <3>1, EventLogged DEF LogOK
    <3>3. CallOK([c EXCEPT !.kind = "archived"])'
      <4> DEFINE d == [c EXCEPT !.kind = "archived"]
      <4>1. DOMAIN d = CallFields /\ d.agent = c.agent
        BY <2>2 DEF CallFields
      <4> HIDE DEF d
      <4>2. CallOK(d)'
        BY <3>2, <4>1 DEF CallOK
      <4>3. QED BY <4>2 DEF d
    <3>4. \A b \in calls : CallOK(b)'
      BY <3>2, CallsStay
    <3>5. QED BY <2>3, <3>2, <3>3, <3>4
  <2>4. CASE \E id \in Spare : /\ Event("created", id)
                               /\ calls' = (calls \ {c}) \cup {[c EXCEPT !.kind = "created", !.agent = id]}
    <3>1. PICK id \in Spare : /\ Event("created", id)
                              /\ calls' = (calls \ {c}) \cup {[c EXCEPT !.kind = "created", !.agent = id]}
      BY <2>4
    <3>2. id \in Ever
      BY DEF Ever
    <3>3. LogOK' /\ Gone \subseteq Gone'
      BY <3>1, <3>2, EventLogged DEF LogOK
    <3>4. CallOK([c EXCEPT !.kind = "created", !.agent = id])'
      <4> DEFINE d == [c EXCEPT !.kind = "created", !.agent = id]
      <4>1. DOMAIN d = CallFields /\ d.kind = "created"
        BY <2>2 DEF CallFields
      <4> HIDE DEF d
      <4>2. CallOK(d)'
        BY <4>1 DEF CallOK
      <4>3. QED BY <4>2 DEF d
    <3>5. \A b \in calls : CallOK(b)'
      BY <3>3, CallsStay
    <3>6. QED BY <3>1, <3>3, <3>4, <3>5
  <2>5. QED BY <2>1, <2>3, <2>4
<1>4. CASE log' # log /\ ~HubEvent /\ ~Serve
  <2>1. CASE \/ Opened \/ Drop \/ Deliver \/ DeliverList \/ Visible \/ Answer \/ Fail \/ Reload
    BY <1>4, <2>1 DEF Opened, Drop, Deliver, DeliverList, Visible, Answer, Fail, Reload
  <2>2. CASE \/ Select \/ SelectView \/ Close \/ MoveTab \/ Archive \/ Create \/ Created \/ OpenCreated
             \/ BeginPointer \/ MovePointer \/ ClearPointer \/ EndPointer
    BY <1>4, <2>2 DEF Select, SelectView, Close, MoveTab, BeginPointer, MovePointer, ClearPointer, EndPointer,
                      Archive, Create, Created, OpenCreated, Elsewhere
  <2>3. QED BY <1>4, <2>1, <2>2 DEF Next
<1>5. QED BY <1>1, <1>2, <1>3, <1>4

----------------------------------------------------------------------------
(* The theorems.                                                               *)

LEMMA SourceFollows ==
  ASSUME ConsoleInv, Next
  PROVE  /\ DOMAIN source' = {"state", "openedOnce", "cursor", "list"} /\ source'.cursor \in Nat
         /\ faults' \in Nat
<1>1. PICK X : log \in Seq(X)
  BY DEF ConsoleInv
<1>2. Len(log) \in Nat
  BY <1>1
<1>3. CASE Opened
  BY <1>2, <1>3 DEF Opened, ConsoleInv
<1> DEFINE SourceFields == {"state", "openedOnce", "cursor", "list"}
<1>0. DOMAIN source = SourceFields /\ source.cursor \in Nat /\ faults \in Nat /\ faults + 1 \in Nat
  BY DEF ConsoleInv
<1>4. CASE Drop \/ Deliver \/ DeliverList
  <2>1. /\ \/ source' = [source EXCEPT !.state = "reconnecting", !.list = NoList]
           \/ source' = [source EXCEPT !.cursor = @ + 1]
           \/ source' = [source EXCEPT !.list = NoList]
        /\ faults' = faults \/ faults' = faults + 1
    BY <1>4 DEF Drop, Deliver, DeliverList
  <2>2. faults' \in Nat
    BY <1>0, <2>1
  <2>3. DOMAIN source' = SourceFields /\ (source'.cursor = source.cursor \/ source'.cursor = source.cursor + 1)
    BY <1>0, <2>1
  <2>4. source'.cursor \in Nat
    BY <1>0, <2>3
  <2>5. QED BY <2>2, <2>3, <2>4
<1>5. CASE Reload
  BY <1>5 DEF Reload, Connecting, ConsoleInv
<1>6. CASE HubEvent \/ Serve \/ Visible \/ Answer \/ Fail
  <2>1. source' = source /\ (faults' = faults \/ faults' = faults + 1)
    BY <1>6 DEF HubEvent, Serve, Visible, Answer, Fail
  <2>2. QED BY <1>0, <2>1
<1>7. CASE Select \/ SelectView \/ Close \/ MoveTab \/ BeginPointer \/ MovePointer \/ ClearPointer \/ EndPointer
  BY <1>7 DEF Select, SelectView, Close, MoveTab, BeginPointer, MovePointer, ClearPointer, EndPointer,
              Elsewhere, ConsoleInv
<1>8. CASE Archive \/ Create \/ Created \/ OpenCreated
  BY <1>8 DEF Archive, Create, Created, OpenCreated, Elsewhere, ConsoleInv
<1>9. QED BY <1>3, <1>4, <1>5, <1>6, <1>7, <1>8 DEF Next

LEMMA ConsoleInit == Init => ConsoleInv
<1>1. SUFFICES ASSUME Init PROVE ConsoleInv
  OBVIOUS
<1>2. PICK s \in Sessions : nav = Loaded(s.tabs, s.current, s.hash)
  BY <1>1 DEF Init
<1>3. NavOK(nav) /\ Range(nav.tabs) = Range(s.tabs) /\ nav.current = s.current
  BY <1>2, SessionsAssumption, LoadedFacts
<1>4. s.current \in Ever => s.current \in Range(s.tabs)
  BY SessionsAssumption, TabThere DEF Ever
<1>5. Fronted(nav, Gone)
  BY <1>3, <1>4 DEF Fronted
<1>6. \A c \in calls : CallOK(c)
  BY <1>1, CallMade DEF Init, Fresh, CallOK
<1>7. log \in Seq({}) /\ DOMAIN log = {}
  BY <1>1 DEF Init
<1>8. DOMAIN source = {"state", "openedOnce", "cursor", "list"} /\ source.cursor \in Nat /\ faults \in Nat
  BY <1>1 DEF Init, Connecting
<1>9. QED BY <1>3, <1>5, <1>6, <1>7, <1>8 DEF ConsoleInv

LEMMA ConsoleStep == ConsoleInv /\ [Next]_vars => ConsoleInv'
<1>1. SUFFICES ASSUME ConsoleInv, [Next]_vars PROVE ConsoleInv'
  OBVIOUS
<1>2. CASE Next
  <2>1. NavOK(nav') /\ Fronted(nav', Gone)
    <3>1. CASE Reload
      BY <1>1, <3>1, ReloadKeeps DEF Fronted, ConsoleInv
    <3>2. CASE ~Reload
      BY <1>1, <1>2, <3>2, NavFollows DEF Follows, ConsoleInv
    <3>3. QED BY <3>1, <3>2
  <2>2. LogOK' /\ Gone \subseteq Gone' /\ \A c \in calls' : CallOK(c)'
    BY <1>1, <1>2, LogFollows
  <2>3. Fronted(nav, Gone)'
    BY <2>1, <2>2 DEF Fronted, Ever
  <2>4. NavOK(nav)'
    BY <2>1 DEF NavOK, NavFields
  <2>5. /\ DOMAIN source' = {"state", "openedOnce", "cursor", "list"} /\ source'.cursor \in Nat
        /\ faults' \in Nat
    BY <1>1, <1>2, SourceFollows
  <2>6. QED BY <2>2, <2>3, <2>4, <2>5 DEF ConsoleInv, LogOK
<1>3. CASE UNCHANGED vars
  BY <1>1, <1>3 DEF vars, ConsoleInv, NavOK, NavFields, Fronted, Gone, CallOK, Ever
<1>4. QED BY <1>1, <1>2, <1>3

LEMMA ConsoleAlways == Spec => []ConsoleInv
BY ConsoleInit, ConsoleStep, PTL DEF Spec

\* Whichever answer or event came last and whatever the owner looked at when he
\* asked for an archive, an Agent that lives and is in front has its tab
\* (closeAgent, the effects after setAgents and the restored session in App.tsx).
THEOREM CurrentStaysOpen == Spec => []CurrentIsOpen
<1>1. ConsoleInv => CurrentIsOpen
  <2>1. SUFFICES ASSUME ConsoleInv, nav.current \in Now PROVE Contains(nav.tabs, nav.current)
    BY DEF CurrentIsOpen
  <2>2. nav.current \in Range(nav.tabs)
    BY <2>1, NowAndGone DEF ConsoleInv, Fronted
  <2>3. QED BY <2>1, <2>2, TabThere DEF ConsoleInv, NavOK
<1>2. QED BY <1>1, ConsoleAlways, PTL

\* No step opens a tab that it does not put in front: no late list, no address
\* and no tab that was closed while the owner dragged it (reorderItem in
\* tab-order.ts, HashRoute and Open in App.tsx).
THEOREM TabsAppearInFront == Spec => TabAppearsInFront
<1>1. ConsoleInv /\ [Next]_vars => [\A id \in Range(nav'.tabs) \ Range(nav.tabs) : nav'.current = id]_nav
  <2>1. SUFFICES ASSUME ConsoleInv, [Next]_vars, nav' # nav
                 PROVE \A id \in Range(nav'.tabs) \ Range(nav.tabs) : nav'.current = id
    OBVIOUS
  <2>2. Next
    BY <2>1 DEF vars
  <2>3. CASE Reload
    BY <2>1, <2>3, ReloadKeeps
  <2>4. CASE ~Reload
    BY <2>1, <2>2, <2>4, NavFollows DEF Follows, InFront
  <2>5. QED BY <2>3, <2>4
<1>2. QED BY <1>1, ConsoleAlways, PTL DEF Spec, TabAppearsInFront

\* A result the owner has not seen stays marked until its tab is in front or
\* closed, in every step but a connection lost, a failed call or a load of the
\* page (setUnseen in App.tsx).
THEOREM MarksStayUntilSeen == Spec => MarkStaysUntilSeen
<1> DEFINE Stays == faults' = faults =>
             \A id \in nav.unseen \ nav'.unseen : Viewed(nav', id) \/ ~Contains(nav'.tabs, id)
<1>1. ConsoleInv /\ [Next]_vars => [Stays]_vars
  <2>1. SUFFICES ASSUME ConsoleInv, Next, faults' = faults,
                        NEW id \in nav.unseen \ nav'.unseen
                 PROVE Viewed(nav', id) \/ ~Contains(nav'.tabs, id)
    OBVIOUS
  <2>2. ~Reload
    <3>1. faults \in Nat
      BY <2>1 DEF ConsoleInv
    <3>2. QED BY <2>1, <3>1 DEF Reload
  <2>3. Follows(nav, nav', Gone)
    BY <2>1, <2>2, NavFollows
  <2>4. PICK X : nav'.tabs \in Seq(X)
    BY <2>3 DEF Follows, NavOK
  <2>5. QED BY <2>1, <2>3, <2>4, TabThere DEF Follows, Seen
<1>2. QED BY <1>1, ConsoleAlways, PTL DEF Spec, MarkStaysUntilSeen
=============================================================================
