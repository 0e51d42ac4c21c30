--------------------------- MODULE Workspace_proofs ---------------------------
(***************************************************************************)
(* The panes of the console, for any number of things, of the owner's      *)
(* acts, of changes of the Hub's data and of failing calls: a list has     *)
(* been read since the last change the page heard of, or a call that was   *)
(* made since is on its way, or it failed; then what each pane shows,      *)
(* keeps and saves.                                                        *)
(***************************************************************************)
EXTENDS Workspace, SequenceTheorems, TLAPS

----------------------------------------------------------------------------
(* What the panes have in common.                                              *)

CallFields == {"what", "item", "asked", "base", "made", "done"}
CallsShape == \A c \in calls : DOMAIN c = CallFields

PastOK == (\E X : past \in Seq(X)) /\ Len(past) >= 1
Common == PastOK /\ heard \in Nat \ {0} /\ acts \in Nat /\ CallsShape

LEMMA Appended ==
  ASSUME NEW X, NEW s \in Seq(X), NEW e
  PROVE  /\ Append(s, e) \in Seq(X \cup {e}) /\ Len(Append(s, e)) = Len(s) + 1
         /\ \A i \in 1..Len(s) : Append(s, e)[i] = s[i]
         /\ Append(s, e)[Len(s) + 1] = e
<1>1. s \in Seq(X \cup {e})
  OBVIOUS
<1>2. QED BY <1>1, AppendProperties

(* A change of the Hub's data is the last of what it was.                      *)
LEMMA ChangedPast ==
  ASSUME PastOK, NEW what, NEW thing, NEW known, Changed(what, thing, known)
  PROVE  /\ PastOK' /\ Len(past') = Len(past) + 1
         /\ \A n \in 1..Len(past) : past'[n] = past[n]
         /\ past'[Len(past')] = [what |-> what, data |-> [Data EXCEPT ![thing] = known]]
         /\ Data' = [Data EXCEPT ![thing] = known]
<1> DEFINE e == [what |-> what, data |-> [Data EXCEPT ![thing] = known]]
<1>1. PICK X : past \in Seq(X)
  BY DEF PastOK
<1>2. past' = Append(past, e) /\ Len(past) \in Nat
  BY <1>1 DEF Changed
<1>3. e.data = [Data EXCEPT ![thing] = known]
  OBVIOUS
<1> HIDE DEF e
<1>4. /\ past' \in Seq(X \cup {e}) /\ Len(past') = Len(past) + 1
      /\ \A n \in 1..Len(past) : past'[n] = past[n]
      /\ past'[Len(past')] = e
  BY <1>1, <1>2, Appended
<1>5. PastOK'
  BY <1>2, <1>4 DEF PastOK
<1>6. Data' = e.data
  BY <1>4 DEF Data
<1>7. QED BY <1>3, <1>4, <1>5, <1>6 DEF e

----------------------------------------------------------------------------
(* A pane stays what it is, and shows the same of its lists.                   *)

Alike(p) == {"kind", "seen"} \subseteq DOMAIN p /\ p.kind = pane.kind /\ p.seen = pane.seen

----------------------------------------------------------------------------
(* The panes that read lists: requests, Topics, Inbox, messages, Schedules,    *)
(* and what is beside a thread.                                                *)

Readers == {"needs-you", "topics", "composer"} \cup L!Kinds
ListsOf(kind) ==
  IF kind = "needs-you" THEN N!RequestLists ELSE IF kind = "topics" THEN {"topics"}
  ELSE IF kind = "composer" THEN C!ComposerLists ELSE L!ListOf(kind)
ListState == [at : Nat, newest : Nat, failed : Nat, joined : Nat]

(* The calls for lists, and what else they are called.                         *)
ListCalls ==
  {"open", "summary", "topics", "requests", "pending", "inbox", "outbox", "messages", "schedules", "refresh"}
Serves(c, l) == c.what \in {l, "refresh"}
ListCallsOK(cs) == \A c \in cs : DOMAIN c = CallFields /\ (c.what \in ListCalls => c.asked \in Nat /\ ~c.done)

(* Whatever a list is about was read, or a call for it failed since, or its     *)
(* first call was joined then, or a call that was made since is on its way.     *)
Reached(l, n) ==
  \/ pane.seen[l].newest >= n
  \/ pane.seen[l].failed >= n
  \/ pane.seen[l].joined >= n
  \/ \E c \in calls : Serves(c, l) /\ c.asked >= n

ReadsInv ==
  /\ PastOK /\ heard \in 1..Len(past) /\ ListCallsOK(calls)
  /\ {"kind", "seen"} \subseteq DOMAIN pane /\ pane.kind \in Readers /\ DOMAIN pane.seen = ListsOf(pane.kind)
  /\ \A l \in DOMAIN pane.seen : pane.seen[l] \in ListState
  /\ pane.kind \in L!Kinds => \A n \in 2..Len(past) : past[n].what \in L!HeardBy(pane.kind)
  /\ \A l \in DOMAIN pane.seen : \A n \in 1..heard : Concerns(past[n].what, l) => Reached(l, n)

LEMMA ListNames == \A kind \in Readers : ListsOf(kind) \subseteq ListCalls \ {"refresh"}
BY DEF Readers, ListsOf, ListCalls, N!RequestLists, C!ComposerLists, L!Kinds, L!ListOf

LEMMA PastLength ==
  ASSUME PastOK
  PROVE  Len(past) \in Nat \ {0}
BY DEF PastOK

(* What has been read of the lists stays; a call may be joined.                *)
KeepsRead(p) ==
  /\ {"kind", "seen"} \subseteq DOMAIN p /\ p.kind = pane.kind /\ DOMAIN p.seen = DOMAIN pane.seen
  /\ \A l \in DOMAIN pane.seen :
       /\ p.seen[l] \in ListState /\ p.seen[l].newest = pane.seen[l].newest /\ p.seen[l].failed = pane.seen[l].failed
       /\ p.seen[l].joined = pane.seen[l].joined \/ p.seen[l].joined >= heard'

LEMMA AlikeKeeps ==
  ASSUME ReadsInv, NEW p, Alike(p)
  PROVE  KeepsRead(p)
BY DEF ReadsInv, Alike, KeepsRead

(* What the lists show does not change, but they may be asked for again.       *)
LEMMA ReadsOn ==
  ASSUME ReadsInv, PastOK', Len(past') >= Len(past), \A n \in 1..Len(past) : past'[n] = past[n],
         pane.kind \in L!Kinds => \A n \in Len(past) + 1..Len(past') : past'[n].what \in L!HeardBy(pane.kind),
         heard' \in heard..Len(past'), KeepsRead(pane'), ListCallsOK(calls'),
         \A l \in DOMAIN pane.seen :
           \/ pane'.seen[l].joined >= heard'
           \/ \E d \in calls' : Serves(d, l) /\ d.asked >= heard'
           \/ /\ \A c \in calls : Serves(c, l) => c \in calls'
              /\ \A n \in heard + 1..heard' : ~Concerns(past'[n].what, l)
  PROVE  ReadsInv' /\ pane'.kind = pane.kind
<1>1. /\ pane'.kind = pane.kind /\ DOMAIN pane'.seen = DOMAIN pane.seen /\ {"kind", "seen"} \subseteq DOMAIN pane'
      /\ heard \in 1..Len(past) /\ heard' \in Nat
      /\ Len(past) \in Nat /\ Len(past') \in Nat
  <2>1. Len(past) \in Nat /\ Len(past') \in Nat
    BY DEF ReadsInv, PastOK
  <2>2. QED BY <2>1 DEF ReadsInv, KeepsRead
<1>2. ASSUME NEW l \in DOMAIN pane.seen, NEW n \in 1..heard', Concerns(past'[n].what, l)
      PROVE  \/ pane'.seen[l].newest >= n
             \/ pane'.seen[l].failed >= n
             \/ pane'.seen[l].joined >= n
             \/ \E c \in calls' : Serves(c, l) /\ c.asked >= n
  <2>1. /\ pane'.seen[l].newest = pane.seen[l].newest /\ pane'.seen[l].failed = pane.seen[l].failed
        /\ pane'.seen[l].joined = pane.seen[l].joined \/ pane'.seen[l].joined >= heard'
        /\ pane'.seen[l].joined \in Nat
    BY DEF KeepsRead, ListState
  <2>2. CASE pane'.seen[l].joined >= heard'
    BY <1>1, <2>1, <2>2
  <2>3. CASE \E d \in calls' : Serves(d, l) /\ d.asked >= heard'
    <3>1. PICK d \in calls' : Serves(d, l) /\ d.asked >= heard'
      BY <2>3
    <3>2. l \in ListCalls
      BY ListNames DEF ReadsInv
    <3>3. d.asked \in Nat
      BY <3>1, <3>2 DEF ListCallsOK, Serves, ListCalls
    <3>4. d.asked >= n
      BY <1>1, <3>1, <3>3
    <3>5. QED BY <3>1, <3>4
  <2>4. CASE /\ \A c \in calls : Serves(c, l) => c \in calls'
             /\ \A k \in heard + 1..heard' : ~Concerns(past'[k].what, l)
    <3>1. n \in 1..heard
      BY <1>1, <1>2, <2>4
    <3>2. past'[n] = past[n]
      BY <1>1, <3>1
    <3>3. Reached(l, n)
      BY <1>2, <3>1, <3>2 DEF ReadsInv
    <3>4. CASE pane.seen[l].joined >= n /\ pane'.seen[l].joined = pane.seen[l].joined
      BY <3>4
    <3>5. QED BY <2>1, <2>2, <2>4, <3>3, <3>4 DEF Reached
  <2>5. QED BY <2>2, <2>3, <2>4
<1>3. ReadsInv'
  <2>1. /\ PastOK' /\ heard' \in 1..Len(past') /\ ListCallsOK(calls')
        /\ DOMAIN pane'.seen = ListsOf(pane'.kind) /\ pane'.kind \in Readers
        /\ \A l \in DOMAIN pane'.seen : pane'.seen[l] \in ListState
    BY <1>1 DEF ReadsInv, KeepsRead
  <2>2. pane'.kind \in L!Kinds => \A n \in 2..Len(past') : past'[n].what \in L!HeardBy(pane'.kind)
    <3> SUFFICES ASSUME pane.kind \in L!Kinds, NEW n \in 2..Len(past')
                 PROVE  past'[n].what \in L!HeardBy(pane.kind)
      BY <1>1
    <3>1. CASE n <= Len(past)
      BY <1>1, <3>1 DEF ReadsInv
    <3>2. CASE n > Len(past)
      BY <1>1, <3>2
    <3>3. QED BY <1>1, <3>1, <3>2
  <2>3. \A l \in DOMAIN pane'.seen : \A n \in 1..heard' :
           (pane'.kind = "composer" => past'[n].what = IF l = "requests" THEN "request" ELSE "held")
             => \/ pane'.seen[l].newest >= n
                \/ pane'.seen[l].failed >= n
                \/ pane'.seen[l].joined >= n
                \/ \E c \in calls' : Serves(c, l) /\ c.asked >= n
    BY <1>1, <1>2 DEF Concerns
  <2>4. QED BY <1>1, <2>1, <2>2, <2>3 DEF ReadsInv, Reached, Concerns, ListCallsOK, Serves
<1>4. QED BY <1>1, <1>3

(* The answer to a call for lists is read, or the call failed.                 *)
LEMMA ReadsAnswered ==
  ASSUME ReadsInv, NEW c \in calls, UNCHANGED <<past, heard>>, calls' = calls \ {c},
         {"kind", "seen"} \subseteq DOMAIN pane', pane'.kind = pane.kind, DOMAIN pane'.seen = DOMAIN pane.seen,
         \A l \in DOMAIN pane.seen :
           /\ pane'.seen[l] \in ListState
           /\ pane'.seen[l].newest >= pane.seen[l].newest /\ pane'.seen[l].failed >= pane.seen[l].failed
           /\ pane'.seen[l].joined = pane.seen[l].joined
           /\ Serves(c, l) => (pane'.seen[l].newest >= c.asked \/ pane'.seen[l].failed >= c.asked)
  PROVE  ReadsInv' /\ pane'.kind = pane.kind
<1>1. ASSUME NEW l \in DOMAIN pane.seen, NEW n \in 1..heard, Concerns(past[n].what, l)
      PROVE  \/ pane'.seen[l].newest >= n
             \/ pane'.seen[l].failed >= n
             \/ pane'.seen[l].joined >= n
             \/ \E d \in calls' : Serves(d, l) /\ d.asked >= n
  <2>1. /\ Reached(l, n) /\ n \in Nat /\ l \in ListCalls
        /\ pane.seen[l].newest \in Nat /\ pane.seen[l].failed \in Nat
        /\ pane'.seen[l].newest \in Nat /\ pane'.seen[l].failed \in Nat
    BY <1>1, ListNames DEF ReadsInv, ListState
  <2>2. CASE pane.seen[l].newest >= n \/ pane.seen[l].failed >= n
    BY <2>1, <2>2
  <2>3. ASSUME NEW d \in calls, Serves(d, l), d.asked >= n, d = c
        PROVE  pane'.seen[l].newest >= n \/ pane'.seen[l].failed >= n
    <3>1. d.asked \in Nat
      BY <2>1, <2>3 DEF ReadsInv, ListCallsOK, Serves, ListCalls
    <3>2. QED BY <2>1, <2>3, <3>1
  <2>4. pane'.seen[l].joined = pane.seen[l].joined
    OBVIOUS
  <2>5. QED BY <2>1, <2>2, <2>3, <2>4 DEF Reached
<1>2. ReadsInv'
  <2>1. /\ PastOK' /\ heard' \in 1..Len(past') /\ ListCallsOK(calls')
        /\ DOMAIN pane'.seen = ListsOf(pane'.kind) /\ pane'.kind \in Readers
        /\ pane'.kind \in L!Kinds => \A n \in 2..Len(past') : past'[n].what \in L!HeardBy(pane'.kind)
    BY DEF ReadsInv, ListCallsOK, PastOK
  <2>2. \A l \in DOMAIN pane'.seen : \A n \in 1..heard' :
           (pane'.kind = "composer" => past'[n].what = IF l = "requests" THEN "request" ELSE "held")
             => \/ pane'.seen[l].newest >= n
                \/ pane'.seen[l].failed >= n
                \/ pane'.seen[l].joined >= n
                \/ \E d \in calls' : Serves(d, l) /\ d.asked >= n
    BY <1>1 DEF Concerns
  <2>3. QED BY <2>1, <2>2 DEF ReadsInv, Reached, Concerns, ListCallsOK, Serves
<1>3. QED BY <1>2

(* A list is answered for, or not, by itself.                                  *)
LEMMA ReadsOne ==
  ASSUME ReadsInv, NEW c \in calls, c.what \in DOMAIN pane.seen, NEW new \in ListState,
         UNCHANGED <<past, heard>>, calls' = calls \ {c},
         pane' = [pane EXCEPT !.seen = [@ EXCEPT ![c.what] = new]],
         new.newest >= pane.seen[c.what].newest, new.failed >= pane.seen[c.what].failed,
         new.joined = pane.seen[c.what].joined,
         new.newest >= c.asked \/ new.failed >= c.asked
  PROVE  ReadsInv' /\ pane'.kind = pane.kind
<1>1. /\ c.what # "refresh"
      /\ \A l \in DOMAIN pane.seen : pane.seen[l] \in ListState
      /\ {"kind", "seen"} \subseteq DOMAIN pane
  BY ListNames DEF ReadsInv
<1>2. /\ {"kind", "seen"} \subseteq DOMAIN pane' /\ pane'.kind = pane.kind
      /\ pane'.seen = [pane.seen EXCEPT ![c.what] = new]
  BY <1>1
<1>3. /\ DOMAIN pane'.seen = DOMAIN pane.seen
      /\ \A l \in DOMAIN pane.seen : pane'.seen[l] = IF l = c.what THEN new ELSE pane.seen[l]
  BY <1>2
<1>4. ASSUME NEW l \in DOMAIN pane.seen
      PROVE  /\ pane'.seen[l] \in ListState
             /\ pane'.seen[l].newest >= pane.seen[l].newest /\ pane'.seen[l].failed >= pane.seen[l].failed
             /\ pane'.seen[l].joined = pane.seen[l].joined
             /\ Serves(c, l) => (pane'.seen[l].newest >= c.asked \/ pane'.seen[l].failed >= c.asked)
  <2>1. pane.seen[l].newest \in Nat /\ pane.seen[l].failed \in Nat
    BY <1>1 DEF ListState
  <2>2. CASE l = c.what
    <3>1. pane'.seen[l] = new
      BY <1>3, <2>2
    <3>2. QED BY <2>2, <3>1
  <2>3. CASE l # c.what
    <3>1. pane'.seen[l] = pane.seen[l]
      BY <1>3, <2>3
    <3>2. ~Serves(c, l)
      BY <1>1, <2>3 DEF Serves
    <3>3. QED BY <1>1, <2>1, <3>1, <3>2
  <2>4. QED BY <2>2, <2>3
<1>5. QED BY <1>2, <1>3, <1>4, ReadsAnswered

LEMMA ReadsList ==
  ASSUME ReadsInv, NEW c \in calls, ListAnswered(c) \/ ListFailed(c)
  PROVE  ReadsInv' /\ pane'.kind = pane.kind
<1>1. /\ c.what \in DOMAIN pane.seen /\ c.what \in ListCalls
      /\ pane.seen[c.what] \in ListState /\ {"kind", "seen"} \subseteq DOMAIN pane
  BY ListNames DEF ReadsInv, ListAnswered, ListFailed
<1>2. c.asked \in Nat /\ Len(past) \in Nat
  BY <1>1 DEF ReadsInv, ListCallsOK, PastOK
<1>3. \A m, n \in Nat : Later(m, n) \in Nat /\ Later(m, n) >= m /\ Later(m, n) >= n
  BY DEF Later
<1>4. UNCHANGED <<past, heard>> /\ calls' = calls \ {c}
  BY DEF ListAnswered, ListFailed
<1> DEFINE s == pane.seen[c.what]
<1>5. s \in ListState /\ s.at \in Nat /\ s.newest \in Nat /\ s.failed \in Nat
  BY <1>1 DEF ListState
<1>6. CASE ListAnswered(c)
  <2>1. PICK n \in c.asked..Len(past) : pane' = Read(pane, c, n)
    BY <1>6 DEF ListAnswered
  <2>2. n \in Nat /\ n >= c.asked
    BY <1>2
  <2> DEFINE new == [s EXCEPT !.at = n, !.newest = Later(@, n)]
  <2>3. pane' = [pane EXCEPT !.seen = [@ EXCEPT ![c.what] = new]]
    BY <1>1, <2>1 DEF Read, ListState
  <2>4. new \in ListState /\ new.newest = Later(s.newest, n) /\ new.failed = s.failed /\ new.joined = s.joined
    BY <1>3, <1>5, <2>2 DEF ListState
  <2> HIDE DEF new
  <2>5. new.newest >= s.newest /\ new.newest >= n /\ new.newest \in Nat /\ new.failed >= s.failed
    <3> DEFINE k == s.newest
    <3>1. k \in Nat /\ s.failed \in Nat
      BY <1>5
    <3> HIDE DEF k
    <3>2. Later(k, n) \in Nat /\ Later(k, n) >= k /\ Later(k, n) >= n
      BY <1>3, <2>2, <3>1
    <3>3. new.newest = Later(k, n) /\ new.failed = s.failed
      BY <2>4 DEF k
    <3>4. QED BY <3>1, <3>2, <3>3 DEF k
  <2>6. new.newest >= c.asked
    BY <1>2, <2>2, <2>5
  <2>7. QED BY <1>1, <1>4, <2>3, <2>4, <2>5, <2>6, ReadsOne
<1>7. CASE ListFailed(c)
  <2> DEFINE new == [s EXCEPT !.failed = Later(@, c.asked)]
  <2>1. pane' = [pane EXCEPT !.seen = [@ EXCEPT ![c.what] = new]]
    BY <1>1, <1>7 DEF ListFailed, ListState
  <2>2. new \in ListState /\ new.newest = s.newest /\ new.failed = Later(s.failed, c.asked) /\ new.joined = s.joined
    BY <1>2, <1>3, <1>5 DEF ListState
  <2> HIDE DEF new
  <2>3. new.failed >= s.failed /\ new.failed >= c.asked /\ new.newest >= s.newest
    <3> DEFINE k == s.failed
    <3>1. k \in Nat /\ s.newest \in Nat
      BY <1>5
    <3> HIDE DEF k
    <3>2. Later(k, c.asked) >= k /\ Later(k, c.asked) >= c.asked
      BY <1>2, <1>3, <3>1
    <3>3. new.failed = Later(k, c.asked) /\ new.newest = s.newest
      BY <2>2 DEF k
    <3>4. QED BY <3>1, <3>2, <3>3 DEF k
  <2>4. QED BY <1>1, <1>4, <2>1, <2>2, <2>3, ReadsOne
<1>8. QED BY <1>6, <1>7

(* What the Hub's data were stays so.                                          *)
LEMMA PastGrows ==
  ASSUME PastOK, NEW what, UNCHANGED past \/ \E thing, known : Changed(what, thing, known)
  PROVE  /\ PastOK' /\ Len(past') >= Len(past) /\ \A n \in 1..Len(past) : past'[n] = past[n]
         /\ \A n \in Len(past) + 1..Len(past') : past'[n].what = what
<1>1. Len(past) \in Nat
  BY DEF PastOK
<1>2. CASE UNCHANGED past
  BY <1>1, <1>2 DEF PastOK
<1>3. CASE \E thing, known : Changed(what, thing, known)
  <2>1. PICK thing, known : Changed(what, thing, known)
    BY <1>3
  <2>2. /\ PastOK' /\ Len(past') = Len(past) + 1
        /\ \A n \in 1..Len(past) : past'[n] = past[n]
        /\ past'[Len(past')] = [what |-> what, data |-> [Data EXCEPT ![thing] = known]]
    BY <2>1, ChangedPast
  <2>3. past'[Len(past')].what = what
    BY <2>2
  <2>4. QED BY <1>1, <2>2, <2>3
<1>4. QED BY <1>2, <1>3

(* Calls for lists are kept; what else is asked, sent or answered is no matter. *)
LEMMA ReadsQuiet ==
  ASSUME ReadsInv, NEW what, UNCHANGED past \/ \E thing, known : Changed(what, thing, known),
         pane.kind \in L!Kinds => what \in L!HeardBy(pane.kind),
         UNCHANGED heard, Alike(pane'), \A c \in calls : c.what \in ListCalls => c \in calls', ListCallsOK(calls')
  PROVE  ReadsInv' /\ pane'.kind = pane.kind
<1>1. PastOK /\ heard \in 1..Len(past) /\ Len(past) \in Nat
  BY DEF ReadsInv, PastOK
<1>2. /\ PastOK' /\ Len(past') >= Len(past) /\ \A n \in 1..Len(past) : past'[n] = past[n]
      /\ \A n \in Len(past) + 1..Len(past') : past'[n].what = what
  BY <1>1, PastGrows
<1>3. Len(past') \in Nat
  BY <1>2 DEF PastOK
<1>4. heard' \in heard..Len(past') /\ heard + 1..heard' = {}
  BY <1>1, <1>2, <1>3
<1>5. \A l \in DOMAIN pane.seen : \A c \in calls : Serves(c, l) => c \in calls'
  BY ListNames DEF ReadsInv, Serves, ListCalls
<1>6. QED BY <1>2, <1>4, <1>5, AlikeKeeps, ReadsOn

(* All lists are asked for again.                                              *)
LEMMA ReadsAgain ==
  ASSUME ReadsInv, UNCHANGED past, heard' \in heard..Len(past), Alike(pane'), ListCallsOK(calls'),
         \A l \in DOMAIN pane.seen : \E d \in calls' : Serves(d, l) /\ d.asked = Len(past)
  PROVE  ReadsInv' /\ pane'.kind = pane.kind
<1>1. PastOK /\ heard \in 1..Len(past) /\ Len(past) \in Nat
  BY DEF ReadsInv, PastOK
<1>2. PastOK' /\ Len(past') >= Len(past) /\ \A n \in 1..Len(past) : past'[n] = past[n]
  BY <1>1 DEF PastOK
<1>3. \A l \in DOMAIN pane.seen : \E d \in calls' : Serves(d, l) /\ d.asked >= heard'
  BY <1>1
<1>4. QED BY <1>1, <1>2, <1>3, AlikeKeeps, ReadsOn

(* What is asked for anew, and what a call becomes once the Hub has served it. *)
LEMMA CallsAsked ==
  ASSUME PastOK
  PROVE  /\ \A what, item : ListCallsOK({Call(what, item)})
         /\ \A lists, item : ListCallsOK({Call(l, item) : l \in lists})
<1>1. Len(past) \in Nat
  BY DEF PastOK
<1>2. QED BY <1>1 DEF ListCallsOK, Call, CallFields

LEMMA CallsTogether ==
  ASSUME NEW cs, NEW ds, ListCallsOK(cs), ListCallsOK(ds)
  PROVE  ListCallsOK(cs \cup ds) /\ \A fs \in SUBSET cs : ListCallsOK(fs)
BY DEF ListCallsOK

LEMMA CallsInvalidated ==
  ASSUME PastOK, NEW cs, ListCallsOK(cs), NEW lists
  PROVE  /\ ListCallsOK(Invalidated(cs, lists)) /\ ListCallsOK(Asked(cs, lists))
         /\ \A l \in Anew(cs, lists) : Call(l, None) \in Invalidated(cs, lists)
         /\ \A c \in cs : c.what \notin Anew(cs, lists) => c \in Invalidated(cs, lists)
         /\ Anew(cs, lists) \subseteq lists /\ lists \subseteq Anew(cs, lists) \cup Joined(cs, lists)
         /\ \A l : Call(l, None).what = l /\ Call(l, None).asked = Len(past)
<1>1. ListCallsOK({Call(l, None) : l \in Anew(cs, lists)}) /\ ListCallsOK({c \in cs : c.what \notin Anew(cs, lists)})
  BY CallsAsked DEF ListCallsOK
<1>2. ListCallsOK({Call(l, None) : l \in lists})
  BY CallsAsked
<1>3. ListCallsOK(Invalidated(cs, lists)) /\ ListCallsOK(Asked(cs, lists))
  BY <1>1, <1>2, CallsTogether DEF Invalidated, Asked
<1>4. \A l : Call(l, None).what = l /\ Call(l, None).asked = Len(past)
  BY DEF Call
<1>5. /\ \A l \in Anew(cs, lists) : Call(l, None) \in Invalidated(cs, lists)
      /\ \A c \in cs : c.what \notin Anew(cs, lists) => c \in Invalidated(cs, lists)
  BY DEF Invalidated
<1>6. Anew(cs, lists) \subseteq lists /\ lists \subseteq Anew(cs, lists) \cup Joined(cs, lists)
  BY DEF Anew
<1>7. QED BY <1>3, <1>4, <1>5, <1>6

LEMMA CallServed ==
  ASSUME ListCallsOK(calls), NEW c \in calls, c.what \notin ListCalls, NEW done, NEW asked, NEW made
  PROVE  /\ \A d \in {[c EXCEPT !.done = done], [c EXCEPT !.done = done, !.made = made],
                       [c EXCEPT !.done = done, !.asked = asked]} :
              ListCallsOK({d}) /\ ListCallsOK((calls \ {c}) \cup {d})
         /\ ListCallsOK(calls \ {c})
         /\ \A d \in calls : d.what \in ListCalls => d \in calls \ {c}
<1>1. DOMAIN c = CallFields
  BY DEF ListCallsOK
<1>2. ListCallsOK(calls \ {c})
  BY DEF ListCallsOK
<1>3. ASSUME NEW d \in {[c EXCEPT !.done = done], [c EXCEPT !.done = done, !.made = made],
                        [c EXCEPT !.done = done, !.asked = asked]}
      PROVE  ListCallsOK({d}) /\ ListCallsOK((calls \ {c}) \cup {d})
  <2>1. DOMAIN d = CallFields /\ d.what = c.what
    BY <1>1 DEF CallFields
  <2>2. ListCallsOK({d})
    BY <2>1 DEF ListCallsOK
  <2>3. QED BY <1>2, <2>2, CallsTogether
<1>4. QED BY <1>2, <1>3

(* A step that asks for something more, or only moves the pane.                *)
LEMMA ReadsMore ==
  ASSUME ReadsInv, UNCHANGED <<past, heard>>, Alike(pane'),
         NEW cs, ListCallsOK(cs), calls' = calls \cup cs
  PROVE  ReadsInv' /\ pane'.kind = pane.kind
<1>1. PastOK /\ heard \in 1..Len(past) /\ Len(past) \in Nat /\ ListCallsOK(calls)
  BY DEF ReadsInv, PastOK
<1>2. PastOK' /\ Len(past') >= Len(past) /\ \A n \in 1..Len(past) : past'[n] = past[n]
  BY <1>1 DEF PastOK
<1>3. ListCallsOK(calls')
  BY <1>1, CallsTogether
<1>4. heard' \in heard..Len(past') /\ heard + 1..heard' = {} /\ Len(past) + 1..Len(past') = {}
  BY <1>1
<1>5. QED BY <1>2, <1>3, <1>4, AlikeKeeps, ReadsOn

(* The Hub serves a command, or refuses it; what it changes is told.           *)
LEMMA ReadsServed ==
  ASSUME ReadsInv, NEW c \in calls, c.what \notin ListCalls,
         NEW what, UNCHANGED past \/ \E thing, known : Changed(what, thing, known),
         pane.kind \in L!Kinds => what \in L!HeardBy(pane.kind),
         UNCHANGED heard, Alike(pane'), NEW cs, ListCallsOK(cs), calls' = (calls \ {c}) \cup cs
  PROVE  ReadsInv' /\ pane'.kind = pane.kind
<1>1. ListCallsOK(calls)
  BY DEF ReadsInv
<1>2. ListCallsOK(calls')
  BY <1>1, CallsTogether
<1>3. \A d \in calls : d.what \in ListCalls => d \in calls'
  OBVIOUS
<1>4. QED BY <1>2, <1>3, ReadsQuiet

(* Lists are asked for again after a command; a first call is left as it is.   *)
LEMMA ReadsInvalidated ==
  ASSUME ReadsInv, UNCHANGED <<past, heard>>, Alike(pane'), ListCallsOK(calls'),
         NEW lists, lists \subseteq DOMAIN pane.seen,
         NEW cs, ListCallsOK(cs), \A c \in calls : c.what \in ListCalls => c \in cs,
         \A c \in Invalidated(cs, lists) : c.what \in ListCalls => c \in calls'
  PROVE  ReadsInv' /\ pane'.kind = pane.kind
<1>1. /\ PastOK /\ heard \in 1..Len(past) /\ Len(past) \in Nat
      /\ DOMAIN pane.seen \subseteq ListCalls \ {"refresh"}
  BY ListNames DEF ReadsInv, PastOK
<1>2. PastOK' /\ Len(past') >= Len(past) /\ \A n \in 1..Len(past) : past'[n] = past[n]
  BY <1>1 DEF PastOK
<1>3. heard' \in heard..Len(past') /\ heard + 1..heard' = {} /\ Len(past) + 1..Len(past') = {}
  BY <1>1
<1>4. ASSUME NEW l \in DOMAIN pane.seen
      PROVE  \/ \E d \in calls' : Serves(d, l) /\ d.asked >= heard'
             \/ \A c \in calls : Serves(c, l) => c \in calls'
  <2>1. CASE l \in Anew(cs, lists)
    <3>1. /\ Call(l, None) \in Invalidated(cs, lists)
          /\ Call(l, None).what = l /\ Call(l, None).asked = Len(past)
      BY <1>1, <2>1, CallsInvalidated
    <3>2. Call(l, None) \in calls'
      BY <1>1, <3>1
    <3>3. Call(l, None).asked >= heard' /\ Serves(Call(l, None), l)
      BY <1>1, <3>1 DEF Serves
    <3>4. QED BY <3>2, <3>3
  <2>2. CASE l \notin Anew(cs, lists)
    <3>1. ASSUME NEW c \in calls, Serves(c, l) PROVE c \in calls'
      <4>1. c.what \in ListCalls /\ c \in cs
        BY <1>1, <3>1 DEF Serves, ListCalls
      <4>2. c.what \notin Anew(cs, lists)
        BY <1>1, <2>2, <3>1 DEF Serves, Anew
      <4>3. c \in Invalidated(cs, lists)
        BY <1>1, <4>1, <4>2, CallsInvalidated
      <4>4. QED BY <4>1, <4>3
    <3>2. QED BY <3>1
  <2>3. QED BY <2>1, <2>2
<1>5. QED BY <1>2, <1>3, <1>4, AlikeKeeps, ReadsOn

(* An event has lists asked for again, or their first calls joined.            *)
LEMMA ReadsHeard ==
  ASSUME ReadsInv, UNCHANGED past, heard' \in heard..Len(past), pane.kind \notin L!Kinds,
         NEW lists, lists \subseteq DOMAIN pane.seen, HeardOf(calls, lists),
         \A l \in DOMAIN pane.seen \ lists : \A n \in heard + 1..heard' : ~Concerns(past[n].what, l)
  PROVE  ReadsInv' /\ pane'.kind = pane.kind
<1>1. /\ PastOK /\ heard \in 1..Len(past) /\ Len(past) \in Nat /\ ListCallsOK(calls)
      /\ {"kind", "seen"} \subseteq DOMAIN pane /\ DOMAIN pane.seen \subseteq ListCalls \ {"refresh"}
      /\ \A l \in DOMAIN pane.seen : pane.seen[l] \in ListState
  BY ListNames DEF ReadsInv, PastOK
<1>2. PastOK' /\ Len(past') >= Len(past) /\ \A n \in 1..Len(past) : past'[n] = past[n]
  BY <1>1 DEF PastOK
<1>3. ListCallsOK(calls')
  BY <1>1, CallsInvalidated DEF HeardOf
<1> DEFINE after == [l \in DOMAIN pane.seen |->
                      [pane.seen[l] EXCEPT !.joined = IF l \in Joined(calls, lists) THEN heard' ELSE @]]
<1>4. pane' = [pane EXCEPT !.seen = after]
  BY DEF HeardOf
<1>5. /\ DOMAIN after = DOMAIN pane.seen
      /\ \A l \in DOMAIN pane.seen :
           after[l] = [pane.seen[l] EXCEPT !.joined = IF l \in Joined(calls, lists) THEN heard' ELSE @]
  OBVIOUS
<1> HIDE DEF after
<1>6. {"kind", "seen"} \subseteq DOMAIN pane' /\ pane'.kind = pane.kind /\ pane'.seen = after
  BY <1>1, <1>4
<1>7. ASSUME NEW l \in DOMAIN pane.seen
      PROVE  /\ pane'.seen[l] \in ListState
             /\ pane'.seen[l].newest = pane.seen[l].newest /\ pane'.seen[l].failed = pane.seen[l].failed
             /\ pane'.seen[l].joined = IF l \in Joined(calls, lists) THEN heard' ELSE pane.seen[l].joined
  <2> DEFINE s == pane.seen[l]
  <2>1. s \in ListState /\ heard' \in Nat
    BY <1>1
  <2>2. pane'.seen[l] = [s EXCEPT !.joined = IF l \in Joined(calls, lists) THEN heard' ELSE @]
    BY <1>5, <1>6
  <2> HIDE DEF s
  <2>3. QED BY <2>1, <2>2 DEF ListState, s
<1>8. heard' \in Nat
  BY <1>1
<1>9. KeepsRead(pane')
  BY <1>5, <1>6, <1>7, <1>8 DEF KeepsRead
<1>10. ASSUME NEW l \in DOMAIN pane.seen
       PROVE  \/ pane'.seen[l].joined >= heard'
              \/ \E d \in calls' : Serves(d, l) /\ d.asked >= heard'
              \/ /\ \A c \in calls : Serves(c, l) => c \in calls'
                 /\ \A n \in heard + 1..heard' : ~Concerns(past'[n].what, l)
  <2>1. CASE l \in Joined(calls, lists)
    BY <1>7, <1>8, <2>1
  <2>2. CASE l \in Anew(calls, lists)
    <3>1. /\ Call(l, None) \in calls'
          /\ Call(l, None).what = l /\ Call(l, None).asked = Len(past)
      BY <1>1, <2>2, CallsInvalidated DEF HeardOf
    <3>2. Call(l, None).asked >= heard' /\ Serves(Call(l, None), l)
      BY <1>1, <3>1 DEF Serves
    <3>3. QED BY <3>1, <3>2
  <2>3. CASE l \notin lists
    <3>1. ASSUME NEW c \in calls, Serves(c, l) PROVE c \in calls'
      <4>1. c.what \notin Anew(calls, lists)
        BY <1>1, <2>3, <3>1 DEF Serves, Anew
      <4>2. QED BY <1>1, <4>1, CallsInvalidated DEF HeardOf
    <3>2. QED BY <2>3, <3>1
  <2>4. QED BY <1>1, <2>1, <2>2, <2>3, CallsInvalidated
<1>11. QED BY <1>2, <1>3, <1>9, <1>10, ReadsOn

----------------------------------------------------------------------------
(* The requests.                                                               *)

LEMMA NeedsYouReads ==
  ASSUME ReadsInv, pane.kind = "needs-you", N!NeedsYouNext
  PROVE  ReadsInv' /\ pane'.kind = pane.kind
<1>1. /\ PastOK /\ heard \in 1..Len(past) /\ Len(past) \in Nat /\ ListCallsOK(calls)
      /\ {"kind", "seen"} \subseteq DOMAIN pane /\ pane.kind \notin L!Kinds
      /\ DOMAIN pane.seen = N!RequestLists
  BY DEF ReadsInv, PastOK, Readers, ListsOf, L!Kinds
<1>2. /\ Alike(pane)
      /\ \A a : /\ Alike([pane EXCEPT !.selected = a]) /\ Alike([pane EXCEPT !.filter = a])
                /\ Alike([pane EXCEPT !.working = a])
  BY <1>1 DEF Alike
<1>3. /\ \A what, item : N!Call(what, item) = Call(what, item)
      /\ \A cs, lists : N!Invalidated(cs, lists) = Invalidated(cs, lists) /\ N!Asked(cs, lists) = Asked(cs, lists)
      /\ \A cs, lists : N!HeardOf(cs, lists) => HeardOf(cs, lists)
      /\ \A what, thing, known : N!Changed(what, thing, known) => Changed(what, thing, known)
      /\ \A c : (N!ListAnswered(c) => ListAnswered(c)) /\ (N!ListFailed(c) => ListFailed(c))
  <2>1. \A what, item : N!Call(what, item) = Call(what, item)
    BY DEF N!Call, Call
  <2>2. \A cs, lists : N!Invalidated(cs, lists) = Invalidated(cs, lists) /\ N!Asked(cs, lists) = Asked(cs, lists)
    BY <2>1 DEF N!Invalidated, Invalidated, N!Asked, Asked, N!None, None, N!Anew, Anew, N!Joined, Joined,
       N!Fetched, Fetched
  <2>3. \A what, thing, known : N!Changed(what, thing, known) => Changed(what, thing, known)
    BY DEF N!Changed, N!CanChange, N!Data, Changed, CanChange, Data
  <2>4. \A p, c, n : N!Read(p, c, n) = Read(p, c, n)
    BY DEF N!Read, Read, N!Later, Later
  <2>5. \A c : N!ListAnswered(c) => ListAnswered(c)
    BY <2>4 DEF N!ListAnswered, ListAnswered
  <2>6. \A c : N!ListFailed(c) => ListFailed(c)
    BY DEF N!ListFailed, ListFailed, N!Failing, Failing, N!CanFail, CanFail, N!Later, Later
  <2>7. \A cs, lists : N!HeardOf(cs, lists) => HeardOf(cs, lists)
    <3>1. \A cs, lists : N!Joined(cs, lists) = Joined(cs, lists)
      BY DEF N!Joined, Joined, N!Fetched, Fetched
    <3>2. QED BY <2>2, <3>1 DEF N!HeardOf, HeardOf
  <2>8. QED BY <2>1, <2>2, <2>3, <2>5, <2>6, <2>7
<1>4. \A what, item : ListCallsOK({Call(what, item)})
  BY <1>1, CallsAsked
<1>5. ListCallsOK({}) /\ calls = calls \cup {}
  BY DEF ListCallsOK
<1>6. ASSUME N!HubMoves PROVE ReadsInv' /\ pane'.kind = pane.kind
  <2>1. /\ \E thing, known : Changed("request", thing, known)
        /\ UNCHANGED <<heard, pane, calls>>
    BY <1>3, <1>6 DEF N!HubMoves, N!HubChanges
  <2>2. QED BY <1>1, <1>2, <2>1, ReadsQuiet
<1>7. ASSUME UNCHANGED <<past, heard>>, Alike(pane'), ListCallsOK(calls'),
             NEW cs, ListCallsOK(cs), \A c \in calls : c.what \in ListCalls => c \in cs,
             \A c \in Invalidated(cs, N!RequestLists) : c.what \in ListCalls => c \in calls'
      PROVE  ReadsInv' /\ pane'.kind = pane.kind
  BY <1>1, <1>7, ReadsInvalidated
<1>8. ASSUME N!Hear PROVE ReadsInv' /\ pane'.kind = pane.kind
  <2>1. UNCHANGED past /\ heard' \in heard..Len(past) /\ HeardOf(calls, N!RequestLists)
    BY <1>1, <1>3, <1>8 DEF N!Hear
  <2>2. QED BY <1>1, <2>1, ReadsHeard
<1>9. ASSUME N!Poll PROVE ReadsInv' /\ pane'.kind = pane.kind
  <2>1. PICK l \in N!RequestLists : calls' = Asked(calls, {l})
    BY <1>3, <1>9 DEF N!Poll
  <2>2. calls' = calls \cup {Call(l, None)}
    BY <2>1 DEF Asked
  <2>3. UNCHANGED <<past, heard>> /\ pane' = pane
    BY <1>9 DEF N!Poll, N!Idle
  <2>4. QED BY <1>2, <1>4, <2>2, <2>3, ReadsMore
<1>10. ASSUME NEW c \in calls, N!ListAnswered(c) \/ N!ListFailed(c) PROVE ReadsInv' /\ pane'.kind = pane.kind
  BY <1>3, <1>10, ReadsList
<1>11. ASSUME NEW c \in calls, N!DetailAnswered(c) PROVE ReadsInv' /\ pane'.kind = pane.kind
  <2>1. /\ UNCHANGED <<past, heard>> /\ calls' = (calls \ {c}) \cup {} /\ c.what = "detail"
        /\ pane' = pane \/ \E n : pane' = [pane EXCEPT !.detail[c.item] = n]
    BY <1>11 DEF N!DetailAnswered
  <2>2. Alike(pane')
    BY <1>1, <2>1 DEF Alike
  <2>3. c.what \notin ListCalls
    BY <2>1 DEF ListCalls
  <2>4. QED BY <1>1, <1>5, <2>1, <2>2, <2>3, ReadsServed
<1>12. ASSUME NEW c \in calls, N!HubServes(c) PROVE ReadsInv' /\ pane'.kind = pane.kind
  <2>1. /\ c.what \notin ListCalls /\ UNCHANGED heard /\ pane' = pane
        /\ \E thing, known : Changed("request", thing, known)
        /\ calls' = (calls \ {c}) \cup {[c EXCEPT !.done = TRUE]}
    BY <1>3, <1>12 DEF N!HubServes, ListCalls
  <2>2. ListCallsOK({[c EXCEPT !.done = TRUE]})
    BY <1>1, <2>1, CallServed
  <2>3. QED BY <1>1, <1>2, <2>1, <2>2, ReadsServed
<1>13. ASSUME NEW c \in calls, N!Goes(c) PROVE ReadsInv' /\ pane'.kind = pane.kind
  <2>1. /\ UNCHANGED <<past, heard>> /\ pane' = [pane EXCEPT !.working = c.item]
        /\ calls' = Invalidated(calls \ {c}, N!RequestLists)
    BY <1>3, <1>13 DEF N!Goes, N!Idle
  <2>2. ListCallsOK(calls \ {c}) /\ c.what \notin ListCalls
    BY <1>1, <1>13 DEF ListCallsOK, N!Goes
  <2>3. ListCallsOK(calls') /\ \A d \in calls : d.what \in ListCalls => d \in calls \ {c}
    BY <1>1, <2>1, <2>2, CallsInvalidated
  <2>4. QED BY <1>2, <1>7, <2>1, <2>2, <2>3
<1>14. ASSUME NEW c \in calls, N!Refused(c) PROVE ReadsInv' /\ pane'.kind = pane.kind
  <2>1. /\ c.what \notin ListCalls /\ UNCHANGED <<past, heard>> /\ pane' = [pane EXCEPT !.working = "no"]
        /\ calls' = (calls \ {c}) \cup {}
    BY <1>14 DEF N!Refused, ListCalls
  <2>2. QED BY <1>1, <1>2, <1>5, <2>1, ReadsServed
<1>15. ASSUME UNCHANGED <<past, heard>>, Alike(pane'), UNCHANGED calls \/ \E what, item : calls' = calls \cup {Call(what, item)}
       PROVE  ReadsInv' /\ pane'.kind = pane.kind
  <2>1. PICK cs : ListCallsOK(cs) /\ calls' = calls \cup cs
    BY <1>4, <1>5, <1>15
  <2>2. QED BY <1>15, <2>1, ReadsMore
<1>16. ASSUME N!selectRequest \/ N!syncFromHash PROVE ReadsInv' /\ pane'.kind = pane.kind
  <2>1. PICK x \in Things : pane' = [pane EXCEPT !.selected = x] /\ N!Fetches(x)
    BY <1>16 DEF N!selectRequest, N!syncFromHash, N!Visible, N!Known
  <2>2. UNCHANGED <<past, heard>>
    BY <1>16 DEF N!selectRequest, N!syncFromHash, N!Idle
  <2>3. UNCHANGED calls \/ calls' = calls \cup {Call("detail", x)}
    BY <1>3, <2>1 DEF N!Fetches
  <2>4. QED BY <1>2, <1>15, <2>1, <2>2, <2>3
<1>17. ASSUME N!setFilter \/ N!DropMissing \/ N!Ends PROVE ReadsInv' /\ pane'.kind = pane.kind
  <2>1. UNCHANGED <<past, heard, calls>> /\ Alike(pane')
    BY <1>2, <1>17 DEF N!setFilter, N!DropMissing, N!Ends, N!Idle
  <2>2. QED BY <1>15, <2>1
<1>18. ASSUME N!submitAnswer \/ N!cancel \/ N!retry PROVE ReadsInv' /\ pane'.kind = pane.kind
  <2>1. /\ UNCHANGED <<past, heard>> /\ Alike(pane')
        /\ \E what, item : calls' = calls \cup {Call(what, item)}
    BY <1>2, <1>3, <1>18 DEF N!submitAnswer, N!cancel, N!retry, N!run, N!Idle
  <2>2. QED BY <1>15, <2>1
<1>19. ASSUME N!Again PROVE ReadsInv' /\ pane'.kind = pane.kind
  <2> DEFINE all == Invalidated(calls, N!RequestLists)
             own == {c \in all : c.what = "detail" /\ c.item = pane.working}
  <2>1. /\ UNCHANGED <<past, heard>> /\ pane' = [pane EXCEPT !.working = "refresh"]
        /\ calls' \in {all, (all \ own) \cup {Call("detail", pane.working)}}
    BY <1>3, <1>19 DEF N!Again, N!DetailAgain, N!Idle
  <2>2. ListCallsOK(all)
    BY <1>1, CallsInvalidated
  <2>3. \A c \in all : c.what \in ListCalls => c \in all \ own
    BY DEF ListCalls
  <2> HIDE DEF all, own
  <2>4. ListCallsOK(all \ own) /\ ListCallsOK((all \ own) \cup {Call("detail", pane.working)})
    BY <1>4, <2>2, CallsTogether
  <2>5. ListCallsOK(calls') /\ Alike(pane')
    BY <1>2, <2>1, <2>2, <2>4
  <2>6. \A c \in all : c.what \in ListCalls => c \in calls'
    BY <2>1, <2>3
  <2>7. QED BY <1>1, <1>7, <2>1, <2>5, <2>6 DEF all
<1>20. QED BY <1>6, <1>8, <1>9, <1>10, <1>11, <1>12, <1>13, <1>14, <1>16, <1>17, <1>18, <1>19 DEF N!NeedsYouNext

----------------------------------------------------------------------------
(* The Topics.                                                                 *)

LEMMA TopicsReads ==
  ASSUME ReadsInv, pane.kind = "topics", T!TopicsNext
  PROVE  ReadsInv' /\ pane'.kind = pane.kind
<1>1. /\ PastOK /\ heard \in 1..Len(past) /\ Len(past) \in Nat /\ ListCallsOK(calls)
      /\ {"kind", "seen"} \subseteq DOMAIN pane /\ pane.kind \notin L!Kinds
      /\ DOMAIN pane.seen = {"topics"}
  BY DEF ReadsInv, PastOK, Readers, ListsOf, L!Kinds
<1>2. /\ Alike(pane)
      /\ \A a : /\ Alike([pane EXCEPT !.selected = a]) /\ Alike([pane EXCEPT !.filter = a])
                /\ Alike([pane EXCEPT !.working = a]) /\ Alike([pane EXCEPT !.dialog = a])
                /\ Alike([pane EXCEPT !.reading = a])
      /\ \A a, b : Alike([pane EXCEPT !.followed = a, !.filter = b])
      /\ \A a, b, d : Alike([pane EXCEPT !.working = a, !.dialog = b, !.selected = d])
  BY <1>1 DEF Alike
<1>3. /\ \A what, item : T!Call(what, item) = Call(what, item)
      /\ \A cs, lists : T!Invalidated(cs, lists) = Invalidated(cs, lists) /\ T!Asked(cs, lists) = Asked(cs, lists)
      /\ \A cs, lists : T!HeardOf(cs, lists) => HeardOf(cs, lists)
      /\ \A what, thing, known : T!Changed(what, thing, known) => Changed(what, thing, known)
      /\ \A c : (T!ListAnswered(c) => ListAnswered(c)) /\ (T!ListFailed(c) => ListFailed(c))
  <2>1. \A what, item : T!Call(what, item) = Call(what, item)
    BY DEF T!Call, Call
  <2>2. \A cs, lists : T!Invalidated(cs, lists) = Invalidated(cs, lists) /\ T!Asked(cs, lists) = Asked(cs, lists)
    BY <2>1 DEF T!Invalidated, Invalidated, T!Asked, Asked, T!None, None, T!Anew, Anew, T!Joined, Joined,
       T!Fetched, Fetched
  <2>3. \A what, thing, known : T!Changed(what, thing, known) => Changed(what, thing, known)
    BY DEF T!Changed, T!CanChange, T!Data, Changed, CanChange, Data
  <2>4. \A p, c, n : T!Read(p, c, n) = Read(p, c, n)
    BY DEF T!Read, Read, T!Later, Later
  <2>5. \A c : T!ListAnswered(c) => ListAnswered(c)
    BY <2>4 DEF T!ListAnswered, ListAnswered
  <2>6. \A c : T!ListFailed(c) => ListFailed(c)
    BY DEF T!ListFailed, ListFailed, T!Failing, Failing, T!CanFail, CanFail, T!Later, Later
  <2>7. \A cs, lists : T!HeardOf(cs, lists) => HeardOf(cs, lists)
    <3>1. \A cs, lists : T!Joined(cs, lists) = Joined(cs, lists)
      BY DEF T!Joined, Joined, T!Fetched, Fetched
    <3>2. QED BY <2>2, <3>1 DEF T!HeardOf, HeardOf
  <2>8. QED BY <2>1, <2>2, <2>3, <2>5, <2>6, <2>7
<1>4. \A what, item : ListCallsOK({Call(what, item)})
  BY <1>1, CallsAsked
<1>5. ListCallsOK({}) /\ calls = calls \cup {}
  BY DEF ListCallsOK
<1>6. ASSUME T!HubMoves PROVE ReadsInv' /\ pane'.kind = pane.kind
  <2>1. /\ \E thing, known : Changed("topic", thing, known)
        /\ UNCHANGED <<heard, pane, calls>>
    BY <1>3, <1>6 DEF T!HubMoves, T!HubChanges
  <2>2. QED BY <1>1, <1>2, <2>1, ReadsQuiet
<1>7. ASSUME UNCHANGED <<past, heard>>, Alike(pane'), ListCallsOK(calls'),
             NEW cs, ListCallsOK(cs), \A c \in calls : c.what \in ListCalls => c \in cs,
             \A c \in Invalidated(cs, {"topics"}) : c.what \in ListCalls => c \in calls'
      PROVE  ReadsInv' /\ pane'.kind = pane.kind
  BY <1>1, <1>7, ReadsInvalidated
<1>8. ASSUME T!Hear PROVE ReadsInv' /\ pane'.kind = pane.kind
  <2>1. UNCHANGED past /\ heard' \in heard..Len(past) /\ HeardOf(calls, {"topics"})
    BY <1>1, <1>3, <1>8 DEF T!Hear
  <2>2. QED BY <1>1, <2>1, ReadsHeard
<1>9. ASSUME T!Poll PROVE ReadsInv' /\ pane'.kind = pane.kind
  <2>1. calls' = calls \cup {Call("topics", None)}
    BY <1>3, <1>9 DEF T!Poll, Asked
  <2>2. UNCHANGED <<past, heard>> /\ pane' = pane
    BY <1>9 DEF T!Poll, T!Idle
  <2>3. QED BY <1>2, <1>4, <2>1, <2>2, ReadsMore
<1>10. ASSUME NEW c \in calls, T!ListAnswered(c) \/ T!ListFailed(c) PROVE ReadsInv' /\ pane'.kind = pane.kind
  BY <1>3, <1>10, ReadsList
<1>11. ASSUME NEW c \in calls, T!DetailAnswered(c) PROVE ReadsInv' /\ pane'.kind = pane.kind
  <2>1. /\ UNCHANGED <<past, heard>> /\ calls' = (calls \ {c}) \cup {} /\ c.what = "topic"
        /\ pane' = pane \/ \E n : pane' = [pane EXCEPT !.detail[c.item] = n]
    BY <1>11 DEF T!DetailAnswered, T!Details
  <2>2. Alike(pane')
    BY <1>1, <2>1 DEF Alike
  <2>3. c.what \notin ListCalls
    BY <2>1 DEF ListCalls
  <2>4. QED BY <1>1, <1>5, <2>1, <2>2, <2>3, ReadsServed
<1>12. ASSUME NEW c \in calls, T!HubServes(c) PROVE ReadsInv' /\ pane'.kind = pane.kind
  <2>1. c.what \notin ListCalls /\ UNCHANGED heard /\ pane' = pane
    BY <1>12 DEF T!HubServes, T!Commands, T!Dialogs, ListCalls
  <2>2. \E thing, known : Changed("topic", thing, known)
    BY <1>3, <1>12 DEF T!HubServes
  <2>3. \/ calls' = (calls \ {c}) \cup {[c EXCEPT !.done = TRUE]}
        \/ \E x : calls' = (calls \ {c}) \cup {[c EXCEPT !.done = TRUE, !.made = x]}
    BY <1>12 DEF T!HubServes
  <2>4. PICK d : calls' = (calls \ {c}) \cup {d} /\ ListCallsOK({d})
    BY <1>1, <2>1, <2>3, CallServed
  <2>5. QED BY <1>1, <1>2, <2>1, <2>2, <2>4, ReadsServed
<1>13. ASSUME NEW c \in calls, T!Goes(c) PROVE ReadsInv' /\ pane'.kind = pane.kind
  <2> DEFINE left == Invalidated(calls \ {c}, {"topics"})
             own == T!OfTopic(calls \ {c}, c.item)
  <2>1. ListCallsOK(calls \ {c}) /\ c.what \notin ListCalls
    BY <1>1, <1>13 DEF ListCallsOK, T!Goes
  <2>2. ListCallsOK(left) /\ \A d \in left : d.what \in ListCalls => d \in left \ own
    <3>1. ListCallsOK(left)
      BY <1>1, <2>1, CallsInvalidated
    <3>2. QED BY <3>1 DEF T!OfTopic, T!Details, ListCalls
  <2>3. \A x : ListCallsOK(T!DetailCalls(x))
    BY <1>3, <1>4, <1>5 DEF T!DetailCalls, T!Details
  <2>4. UNCHANGED <<past, heard>>
    BY <1>13 DEF T!Goes, T!Idle
  <2>5. Alike(pane')
    BY <1>2, <1>13 DEF T!Goes
  <2>6. PICK rest, ds : /\ calls' = rest \cup ds
                        /\ rest \in {left, (left \ own) \cup T!DetailCalls(c.item)}
                        /\ ds = {} \/ \E x : ds = T!DetailCalls(x)
    <3>1. calls' = T!Refreshed(calls \ {c}, c.item) \cup (IF c.what = "create" THEN T!DetailCalls(c.made) ELSE {})
      BY <1>13 DEF T!Goes
    <3>2. T!Invalidated(calls \ {c}, {"topics"}) = left
      BY <1>3
    <3>3. T!OfTopic(left, c.item) \cap left = own \cap left
      <4>1. \A d \in left : d \in calls \ {c} \/ d.what = "topics"
        BY DEF Invalidated, Anew, Call
      <4> HIDE DEF left
      <4>2. QED BY <4>1 DEF T!OfTopic, T!Details
    <3>4. QED BY <3>1, <3>2, <3>3 DEF T!Refreshed
  <2> HIDE DEF left, own
  <2>7. ListCallsOK(ds) /\ ListCallsOK(rest)
    <3>1. ListCallsOK(left \ own)
      BY <2>2, CallsTogether
    <3>2. QED BY <1>5, <2>2, <2>3, <2>6, <3>1, CallsTogether
  <2>8. ListCallsOK(calls')
    BY <2>6, <2>7, CallsTogether
  <2>9. \A d \in left : d.what \in ListCalls => d \in calls'
    BY <2>2, <2>6
  <2>10. \A d \in calls : d.what \in ListCalls => d \in calls \ {c}
    BY <2>1
  <2>11. QED BY <1>7, <2>1, <2>4, <2>5, <2>8, <2>9, <2>10 DEF left
<1>14. ASSUME NEW c \in calls, T!Refused(c) PROVE ReadsInv' /\ pane'.kind = pane.kind
  <2>1. /\ c.what \notin ListCalls /\ UNCHANGED <<past, heard>>
        /\ calls' = (calls \ {c}) \cup {}
    BY <1>14 DEF T!Refused, T!Commands, T!Dialogs, ListCalls
  <2>2. Alike(pane')
    BY <1>2, <1>14 DEF T!Refused
  <2>3. QED BY <1>1, <1>5, <2>1, <2>2, ReadsServed
<1>15. ASSUME UNCHANGED <<past, heard>>, Alike(pane'), NEW cs, ListCallsOK(cs), calls' = calls \cup cs
       PROVE  ReadsInv' /\ pane'.kind = pane.kind
  BY <1>15, ReadsMore
<1>16. ASSUME T!selectTopic \/ T!syncHash PROVE ReadsInv' /\ pane'.kind = pane.kind
  <2>1. PICK x \in Things : pane' = [pane EXCEPT !.selected = x] /\ T!FetchesTopic(x)
    BY <1>16 DEF T!selectTopic, T!syncHash, T!Visible, T!Known
  <2>2. UNCHANGED <<past, heard>>
    BY <1>16 DEF T!selectTopic, T!syncHash, T!Idle
  <2> DEFINE missing == {d \in T!Details : ~\E c \in T!OfTopic(calls, x) : c.what = d}
  <2>3. UNCHANGED calls \/ calls' = calls \cup {T!Call(w, x) : w \in missing}
    BY <2>1 DEF T!FetchesTopic
  <2>4. ListCallsOK({T!Call(w, x) : w \in missing})
    <3> HIDE DEF missing
    <3> QED BY <1>3, <1>4 DEF ListCallsOK
  <2> HIDE DEF missing
  <2>5. PICK cs : ListCallsOK(cs) /\ calls' = calls \cup cs
    BY <1>5, <2>3, <2>4
  <2>6. QED BY <1>2, <1>15, <2>1, <2>2, <2>5
<1>17. ASSUME T!setFilter \/ T!DropMissing \/ T!FollowSelection \/ T!ForgetReading \/ T!OpenDialog \/ T!CloseDialog \/ T!Ends
       PROVE  ReadsInv' /\ pane'.kind = pane.kind
  <2>1. UNCHANGED <<past, heard>> /\ calls' = calls \cup {}
    BY <1>17 DEF T!setFilter, T!DropMissing, T!FollowSelection, T!ForgetReading, T!OpenDialog, T!CloseDialog,
                 T!Ends, T!Idle
  <2>2. CASE T!FollowSelection
    <3> DEFINE found == IF pane.selected \in T!Known THEN pane.selected ELSE T!None
               filter == IF found = T!None \/ T!topicMatchesFilter(T!Listed(found), pane.filter) THEN pane.filter
                         ELSE IF T!Listed(found).status = "archived" THEN "all" ELSE T!Listed(found).status
    <3>1. pane' = [pane EXCEPT !.followed = found, !.filter = filter]
      BY <2>2 DEF T!FollowSelection
    <3> HIDE DEF found, filter
    <3>2. Alike(pane')
      BY <1>2, <3>1
    <3>3. QED BY <1>5, <1>15, <2>1, <3>2
  <2>3. CASE T!setFilter \/ T!DropMissing \/ T!ForgetReading \/ T!OpenDialog \/ T!CloseDialog \/ T!Ends
    <3>1. Alike(pane')
      BY <1>2, <2>3 DEF T!setFilter, T!DropMissing, T!ForgetReading, T!OpenDialog, T!CloseDialog, T!Ends
    <3>2. QED BY <1>5, <1>15, <2>1, <3>1
  <2>4. QED BY <1>17, <2>2, <2>3
<1>18. ASSUME T!markRead \/ T!createTopic \/ T!linkEvidence \/ T!intervene \/ T!sendInput
       PROVE  ReadsInv' /\ pane'.kind = pane.kind
  <2>1. UNCHANGED <<past, heard>> /\ \E what, item : calls' = calls \cup {Call(what, item)}
    BY <1>3, <1>18 DEF T!markRead, T!createTopic, T!linkEvidence, T!intervene, T!sendInput, T!run, T!Idle
  <2>2. Alike(pane')
    BY <1>2, <1>18 DEF T!markRead, T!createTopic, T!linkEvidence, T!intervene, T!sendInput
  <2>3. QED BY <1>4, <1>15, <2>1, <2>2
<1>19. QED BY <1>6, <1>8, <1>9, <1>10, <1>11, <1>12, <1>13, <1>14, <1>16, <1>17, <1>18 DEF T!TopicsNext

----------------------------------------------------------------------------
(* Inbox, messages and Schedules.                                              *)

LEMMA ListsReads ==
  ASSUME ReadsInv, pane.kind \in L!Kinds, L!ListsNext
  PROVE  ReadsInv' /\ pane'.kind = pane.kind
<1>1. /\ PastOK /\ heard \in 1..Len(past) /\ Len(past) \in Nat /\ ListCallsOK(calls)
      /\ {"kind", "seen"} \subseteq DOMAIN pane /\ "refresh" \notin DOMAIN pane.seen
      /\ \A n \in 2..Len(past) : past[n].what \in L!HeardBy(pane.kind)
      /\ \A l \in DOMAIN pane.seen : pane.seen[l] \in ListState
  BY ListNames DEF ReadsInv, PastOK
<1>2. /\ Alike(pane)
      /\ \A a : /\ Alike([pane EXCEPT !.selected = a]) /\ Alike([pane EXCEPT !.composing = a])
                /\ Alike([pane EXCEPT !.working = a])
      /\ \A a, b : Alike([pane EXCEPT !.mode = a, !.selected = b])
      /\ \A a, b, d : Alike([pane EXCEPT !.mode = a, !.composing = b, !.selected = d])
  BY <1>1 DEF Alike
<1>3. /\ \A what, item : L!Call(what, item) = Call(what, item)
      /\ \A cs : L!refresh(cs) = cs \cup {Call("refresh", None)}
      /\ \A flag : L!OwnRefresh(flag) = [Call("refresh", None) EXCEPT !.base = flag]
      /\ \A what, thing, known : L!Changed(what, thing, known) => Changed(what, thing, known)
  <2>1. \A what, item : L!Call(what, item) = Call(what, item)
    BY DEF L!Call, Call
  <2>2. L!None = None
    BY DEF L!None, None
  <2>3. \A cs : L!refresh(cs) = cs \cup {Call("refresh", None)}
    BY <2>1, <2>2 DEF L!refresh, L!Asked
  <2>4. \A flag : L!OwnRefresh(flag) = [Call("refresh", None) EXCEPT !.base = flag]
    BY <2>1, <2>2 DEF L!OwnRefresh
  <2>5. \A what, thing, known : L!Changed(what, thing, known) => Changed(what, thing, known)
    BY DEF L!Changed, L!CanChange, L!Data, Changed, CanChange, Data
  <2>6. QED BY <2>1, <2>3, <2>4, <2>5
<1>4. \A what, item : ListCallsOK({Call(what, item)})
  BY <1>1, CallsAsked
<1>5. ListCallsOK({}) /\ calls = calls \cup {}
  BY DEF ListCallsOK
<1>6. \A flag : ListCallsOK({[Call("refresh", None) EXCEPT !.base = flag]})
  BY <1>1 DEF ListCallsOK, Call, CallFields
<1>7. ASSUME L!HubMoves PROVE ReadsInv' /\ pane'.kind = pane.kind
  <2>1. /\ \E what \in L!HeardBy(pane.kind) : \E thing, known : Changed(what, thing, known)
        /\ UNCHANGED <<heard, pane, calls>>
    BY <1>3, <1>7 DEF L!HubMoves, L!HubChanges, L!HeardBy
  <2>2. PICK what \in L!HeardBy(pane.kind) : \E thing, known : Changed(what, thing, known)
    BY <2>1
  <2>3. QED BY <1>1, <1>2, <2>1, <2>2, ReadsQuiet
<1>8. ASSUME L!Hear PROVE ReadsInv' /\ pane'.kind = pane.kind
  <2>1. UNCHANGED past /\ heard' \in heard..Len(past) /\ pane' = pane
    BY <1>1, <1>8 DEF L!Hear
  <2>2. heard < Len(past) => past[heard + 1].what \in L!HeardBy(pane.kind)
    BY <1>1
  <2>3. calls' = calls \cup {Call("refresh", None)}
    BY <1>3, <1>8, <2>2 DEF L!Hear
  <2>4. ListCallsOK(calls')
    BY <1>1, <1>4, <2>3, CallsTogether
  <2>5. \A l \in DOMAIN pane.seen : \E d \in calls' : Serves(d, l) /\ d.asked = Len(past)
    <3>1. Call("refresh", None) \in calls' /\ \A l : Serves(Call("refresh", None), l)
      BY <2>3 DEF Serves, Call
    <3>2. Call("refresh", None).asked = Len(past)
      BY DEF Call
    <3>3. QED BY <3>1, <3>2
  <2>6. QED BY <1>2, <2>1, <2>4, <2>5, ReadsAgain
<1>9. ASSUME NEW c \in calls, L!RefreshAnswered(c) PROVE ReadsInv' /\ pane'.kind = pane.kind
  <2>1. c.what = "refresh" /\ c.asked \in Nat
    BY <1>1, <1>9 DEF L!RefreshAnswered, ListCallsOK, ListCalls
  <2> DEFINE after(at) == [l \in DOMAIN pane.seen |-> [pane.seen[l] EXCEPT !.at = at[l], !.newest = L!Later(@, at[l])]]
  <2>2. PICK at \in [DOMAIN pane.seen -> c.asked..Len(past)] : pane' = [pane EXCEPT !.seen = after(at)]
    BY <1>9 DEF L!RefreshAnswered
  <2>3. /\ {"kind", "seen"} \subseteq DOMAIN pane' /\ pane'.kind = pane.kind /\ DOMAIN pane'.seen = DOMAIN pane.seen
        /\ \A l \in DOMAIN pane.seen : pane'.seen[l] = [pane.seen[l] EXCEPT !.at = at[l], !.newest = L!Later(@, at[l])]
    <3>1. /\ DOMAIN after(at) = DOMAIN pane.seen
          /\ \A l \in DOMAIN pane.seen : after(at)[l] = [pane.seen[l] EXCEPT !.at = at[l], !.newest = L!Later(@, at[l])]
      OBVIOUS
    <3> HIDE DEF after
    <3>2. {"kind", "seen"} \subseteq DOMAIN pane' /\ pane'.kind = pane.kind /\ pane'.seen = after(at)
      BY <1>1, <2>2
    <3>3. QED BY <3>1, <3>2
  <2>4. ASSUME NEW l \in DOMAIN pane.seen
        PROVE  /\ pane'.seen[l] \in ListState
               /\ pane'.seen[l].newest >= pane.seen[l].newest /\ pane'.seen[l].failed >= pane.seen[l].failed
               /\ pane'.seen[l].joined = pane.seen[l].joined
               /\ Serves(c, l) => (pane'.seen[l].newest >= c.asked \/ pane'.seen[l].failed >= c.asked)
    <3> DEFINE s == pane.seen[l]
    <3>1. s \in ListState /\ s.newest \in Nat /\ s.failed \in Nat
      BY <1>1 DEF ListState
    <3>2. at[l] \in Nat /\ at[l] >= c.asked
      <4>1. at[l] \in c.asked..Len(past)
        OBVIOUS
      <4>2. QED BY <1>1, <2>1, <4>1
    <3>3. L!Later(s.newest, at[l]) \in Nat /\ L!Later(s.newest, at[l]) >= s.newest /\ L!Later(s.newest, at[l]) >= at[l]
      BY <3>1, <3>2 DEF L!Later
    <3>4. pane'.seen[l] = [s EXCEPT !.at = at[l], !.newest = L!Later(@, at[l])]
      BY <2>3
    <3>5. /\ pane'.seen[l] \in ListState /\ pane'.seen[l].newest = L!Later(s.newest, at[l])
          /\ pane'.seen[l].failed = s.failed /\ pane'.seen[l].joined = s.joined
      BY <3>1, <3>2, <3>3, <3>4 DEF ListState
    <3>6. pane'.seen[l].newest >= c.asked
      BY <2>1, <3>2, <3>3, <3>5
    <3>7. QED BY <3>1, <3>3, <3>5, <3>6
  <2>5. UNCHANGED <<past, heard>> /\ calls' = calls \ {c}
    BY <1>9 DEF L!RefreshAnswered
  <2>6. QED BY <2>3, <2>4, <2>5, ReadsAnswered
<1>10. ASSUME NEW c \in calls, L!RefreshFailed(c) PROVE ReadsInv' /\ pane'.kind = pane.kind
  <2>1. c.what = "refresh" /\ c.asked \in Nat
    BY <1>1, <1>10 DEF L!RefreshFailed, ListCallsOK, ListCalls
  <2> DEFINE after == [l \in DOMAIN pane.seen |-> [pane.seen[l] EXCEPT !.failed = L!Later(@, c.asked)]]
  <2>2. pane' = [pane EXCEPT !.seen = after]
    BY <1>10 DEF L!RefreshFailed
  <2>3. /\ {"kind", "seen"} \subseteq DOMAIN pane' /\ pane'.kind = pane.kind /\ DOMAIN pane'.seen = DOMAIN pane.seen
        /\ \A l \in DOMAIN pane.seen : pane'.seen[l] = [pane.seen[l] EXCEPT !.failed = L!Later(@, c.asked)]
    <3>1. /\ DOMAIN after = DOMAIN pane.seen
          /\ \A l \in DOMAIN pane.seen : after[l] = [pane.seen[l] EXCEPT !.failed = L!Later(@, c.asked)]
      OBVIOUS
    <3> HIDE DEF after
    <3>2. {"kind", "seen"} \subseteq DOMAIN pane' /\ pane'.kind = pane.kind /\ pane'.seen = after
      BY <1>1, <2>2
    <3>3. QED BY <3>1, <3>2
  <2>4. ASSUME NEW l \in DOMAIN pane.seen
        PROVE  /\ pane'.seen[l] \in ListState
               /\ pane'.seen[l].newest >= pane.seen[l].newest /\ pane'.seen[l].failed >= pane.seen[l].failed
               /\ pane'.seen[l].joined = pane.seen[l].joined
               /\ Serves(c, l) => (pane'.seen[l].newest >= c.asked \/ pane'.seen[l].failed >= c.asked)
    <3> DEFINE s == pane.seen[l]
    <3>1. s \in ListState /\ s.newest \in Nat /\ s.failed \in Nat
      BY <1>1 DEF ListState
    <3>2. L!Later(s.failed, c.asked) \in Nat /\ L!Later(s.failed, c.asked) >= s.failed /\ L!Later(s.failed, c.asked) >= c.asked
      BY <2>1, <3>1 DEF L!Later
    <3>3. pane'.seen[l] = [s EXCEPT !.failed = L!Later(@, c.asked)]
      BY <2>3
    <3>4. /\ pane'.seen[l] \in ListState /\ pane'.seen[l].failed = L!Later(s.failed, c.asked)
          /\ pane'.seen[l].newest = s.newest /\ pane'.seen[l].joined = s.joined
      BY <3>1, <3>2, <3>3 DEF ListState
    <3>5. QED BY <3>1, <3>2, <3>4
  <2>5. UNCHANGED <<past, heard>> /\ calls' = calls \ {c}
    BY <1>10 DEF L!RefreshFailed
  <2>6. QED BY <2>3, <2>4, <2>5, ReadsAnswered
<1>11. L!Commands \cap ListCalls = {}
  BY DEF L!Commands, L!Guarded, ListCalls
<1>12. ASSUME NEW c \in calls, L!HubServes(c) PROVE ReadsInv' /\ pane'.kind = pane.kind
  <2>1. /\ c.what \notin ListCalls /\ UNCHANGED heard /\ pane' = pane
        /\ \E thing, known : Changed(L!Announced(c.what), thing, known)
        /\ calls' = (calls \ {c}) \cup {[c EXCEPT !.done = TRUE]}
    BY <1>3, <1>11, <1>12 DEF L!HubServes
  <2>2. ListCallsOK({[c EXCEPT !.done = TRUE]})
    BY <1>1, <2>1, CallServed
  <2>3. L!Announced(c.what) \in L!HeardBy(pane.kind)
    BY DEF L!Announced, L!HeardBy
  <2>4. QED BY <1>2, <2>1, <2>2, <2>3, ReadsServed
<1>13. PICK what : what \in L!HeardBy(pane.kind)
  BY DEF L!HeardBy
<1>14. ASSUME NEW c \in calls, L!Goes(c) PROVE ReadsInv' /\ pane'.kind = pane.kind
  <2>1. UNCHANGED <<past, heard>>
    BY <1>14 DEF L!Goes, L!Idle
  <2>2. c.what \notin ListCalls
    BY <1>1, <1>14 DEF L!Goes, ListCallsOK
  <2>3. PICK d : calls' = (calls \ {c}) \cup {d} /\ ListCallsOK({d})
    BY <1>3, <1>4, <1>6, <1>14 DEF L!Goes
  <2>4. Alike(pane')
    BY <1>2, <1>14 DEF L!Goes
  <2>5. QED BY <1>13, <2>1, <2>2, <2>3, <2>4, ReadsServed
<1>15. ASSUME NEW c \in calls, L!Refused(c) PROVE ReadsInv' /\ pane'.kind = pane.kind
  <2>1. /\ c.what \notin ListCalls /\ UNCHANGED <<past, heard>> /\ pane' = pane
        /\ calls' = (calls \ {c}) \cup {}
    BY <1>11, <1>15 DEF L!Refused
  <2>2. QED BY <1>2, <1>5, <1>13, <2>1, ReadsServed
<1>16. ASSUME L!selectItem \/ L!clearReply \/ L!setMode \/ L!Ends PROVE ReadsInv' /\ pane'.kind = pane.kind
  <2>1. UNCHANGED <<past, heard>> /\ calls' = calls \cup {}
    BY <1>16 DEF L!selectItem, L!clearReply, L!setMode, L!Ends, L!Idle
  <2>2. Alike(pane')
    <3>1. CASE L!selectItem \/ L!clearReply \/ L!Ends
      BY <1>2, <3>1 DEF L!selectItem, L!clearReply, L!Ends
    <3>2. CASE L!setMode
      BY <1>1, <3>2 DEF L!setMode, Alike
    <3>3. QED BY <1>16, <3>1, <3>2
  <2>3. QED BY <1>5, <2>1, <2>2, ReadsMore
<1>17. ASSUME NEW given, NEW x, L!Give(given, x), Alike(pane') PROVE ReadsInv' /\ pane'.kind = pane.kind
  <2>1. UNCHANGED <<past, heard>> /\ calls' = calls \cup {Call(given, x)}
    BY <1>3, <1>17 DEF L!Give, L!Idle
  <2>2. QED BY <1>4, <1>17, <2>1, ReadsMore
<1>18. ASSUME NEW given, NEW x, L!Busy(given, x) PROVE ReadsInv' /\ pane'.kind = pane.kind
  <2>1. L!Give(given, x) /\ Alike(pane')
    BY <1>2, <1>18 DEF L!Busy
  <2>2. QED BY <1>17, <2>1
<1>19. ASSUME L!respond \/ L!sendOutbound \/ L!send \/ L!resolveMessage PROVE ReadsInv' /\ pane'.kind = pane.kind
  BY <1>18, <1>19 DEF L!respond, L!sendOutbound, L!send, L!resolveMessage
<1>20. ASSUME L!messageAction \/ L!scheduleAction PROVE ReadsInv' /\ pane'.kind = pane.kind
  <2>1. pane' = pane /\ \E given, x : L!Give(given, x)
    BY <1>20 DEF L!messageAction, L!scheduleAction
  <2>2. QED BY <1>2, <1>17, <2>1
<1>21. QED BY <1>7, <1>8, <1>9, <1>10, <1>12, <1>14, <1>15, <1>16, <1>19, <1>20 DEF L!ListsNext

----------------------------------------------------------------------------
(* What is beside a thread: requests and held messages.                        *)

LEMMA ComposerReads ==
  ASSUME ReadsInv, pane.kind = "composer", C!ComposerNext
  PROVE  ReadsInv' /\ pane'.kind = pane.kind
<1>1. /\ PastOK /\ heard \in 1..Len(past) /\ Len(past) \in Nat /\ ListCallsOK(calls)
      /\ {"kind", "seen"} \subseteq DOMAIN pane /\ pane.kind \notin L!Kinds
      /\ DOMAIN pane.seen = C!ComposerLists
  BY DEF ReadsInv, PastOK, ListsOf, L!Kinds
<1>2. /\ \A what, item : C!Call(what, item) = Call(what, item)
      /\ \A cs, lists : C!Invalidated(cs, lists) = Invalidated(cs, lists) /\ (C!HeardOf(cs, lists) => HeardOf(cs, lists))
      /\ \A what, thing, known : C!Changed(what, thing, known) => Changed(what, thing, known)
      /\ \A c : (C!ListAnswered(c) => ListAnswered(c)) /\ (C!ListFailed(c) => ListFailed(c))
  <2>1. \A what, item : C!Call(what, item) = Call(what, item)
    BY DEF C!Call, Call
  <2>2. \A cs, lists : C!Invalidated(cs, lists) = Invalidated(cs, lists)
    BY <2>1 DEF C!Invalidated, Invalidated, C!None, None, C!Anew, Anew, C!Joined, Joined, C!Fetched, Fetched
  <2>3. \A what, thing, known : C!Changed(what, thing, known) => Changed(what, thing, known)
    BY DEF C!Changed, C!CanChange, C!Data, Changed, CanChange, Data
  <2>4. \A p, c, n : C!Read(p, c, n) = Read(p, c, n)
    BY DEF C!Read, Read, C!Later, Later
  <2>5. \A c : C!ListAnswered(c) => ListAnswered(c)
    BY <2>4 DEF C!ListAnswered, ListAnswered
  <2>6. \A c : C!ListFailed(c) => ListFailed(c)
    BY DEF C!ListFailed, ListFailed, C!Failing, Failing, C!CanFail, CanFail, C!Later, Later
  <2>7. \A cs, lists : C!HeardOf(cs, lists) => HeardOf(cs, lists)
    <3>1. \A cs, lists : C!Joined(cs, lists) = Joined(cs, lists)
      BY DEF C!Joined, Joined, C!Fetched, Fetched
    <3>2. QED BY <2>2, <3>1 DEF C!HeardOf, HeardOf
  <2>8. QED BY <2>1, <2>2, <2>3, <2>5, <2>6, <2>7
<1>3. \A what, item : ListCallsOK({Call(what, item)})
  BY <1>1, CallsAsked
<1>4. ListCallsOK({}) /\ calls = calls \cup {}
  BY DEF ListCallsOK
<1>5. ASSUME C!HubMoves PROVE ReadsInv' /\ pane'.kind = pane.kind
  <2>1. UNCHANGED <<heard, pane, calls>> /\ \E what, thing, known : Changed(what, thing, known)
    BY <1>2, <1>5 DEF C!HubMoves, C!HubChanges
  <2>2. Alike(pane') /\ ListCallsOK(calls')
    BY <1>1, <2>1 DEF Alike, ListCallsOK
  <2>3. QED BY <1>1, <2>1, <2>2, ReadsQuiet
<1>6. ASSUME C!Hear PROVE ReadsInv' /\ pane'.kind = pane.kind
  <2> DEFINE event == past[heard + 1]
             list == IF event.what = "request" THEN "requests" ELSE "pending"
  <2>1. UNCHANGED past /\ heard' = heard + 1 /\ heard' \in heard..Len(past) /\ heard + 1..heard' = {heard + 1}
    BY <1>1, <1>6 DEF C!Hear
  <2>2. CASE event.what \in {"turn", "goal"}
    <3>1. calls' = calls /\ pane' = [pane EXCEPT !.turn = event.data["turn"], !.goal = event.data["goal"]]
      BY <1>6, <2>2 DEF C!Hear
    <3>2. Alike(pane')
      BY <1>1, <3>1 DEF Alike
    <3>3. \A l \in DOMAIN pane.seen : \A n \in heard + 1..heard' : ~Concerns(past'[n].what, l)
      BY <2>1, <2>2 DEF Concerns
    <3>4. PastOK' /\ Len(past') >= Len(past) /\ (\A n \in 1..Len(past) : past'[n] = past[n]) /\ ListCallsOK(calls')
      BY <1>1, <2>1, <3>1 DEF PastOK
    <3>5. heard' \in heard..Len(past')
      BY <2>1
    <3>6. \A l \in DOMAIN pane.seen : \A c \in calls : Serves(c, l) => c \in calls'
      BY <3>1
    <3>7. QED BY <1>1, <3>2, <3>3, <3>4, <3>5, <3>6, AlikeKeeps, ReadsOn
  <2>3. CASE event.what \notin {"turn", "goal"}
    <3>1. HeardOf(calls, {list})
      BY <1>2, <1>6, <2>3 DEF C!Hear
    <3>2. \A l \in C!ComposerLists \ {list} : \A n \in heard + 1..heard' : ~Concerns(past[n].what, l)
      BY <2>1 DEF Concerns, C!ComposerLists
    <3>3. list \in C!ComposerLists
      BY DEF C!ComposerLists
    <3> HIDE DEF list
    <3>4. QED BY <1>1, <2>1, <3>1, <3>2, <3>3, ReadsHeard
  <2>4. QED BY <2>2, <2>3
<1>7. ASSUME NEW c \in calls, C!ListAnswered(c) \/ C!ListFailed(c) PROVE ReadsInv' /\ pane'.kind = pane.kind
  BY <1>2, <1>7, ReadsList
<1>8. ASSUME NEW p, C!Does(p), Alike(p) PROVE ReadsInv' /\ pane'.kind = pane.kind
  <2>1. UNCHANGED <<past, heard>> /\ calls' = calls \cup {} /\ Alike(pane')
    BY <1>8 DEF C!Does, C!Idle, Alike
  <2>2. QED BY <1>4, <2>1, ReadsMore
<1>9. ASSUME C!onChange \/ C!addAttachmentFiles \/ C!removeAttachment \/ C!onAnswer \/ C!cancelAnswering
      PROVE  ReadsInv' /\ pane'.kind = pane.kind
  <2>1. \A a, b, d : /\ Alike([pane EXCEPT !.input = a, !.owed = b]) /\ Alike([pane EXCEPT !.files = a])
                     /\ Alike([C!PutAside(pane) EXCEPT !.input = a, !.files = b, !.answering = d])
                     /\ Alike([C!PutAside(pane) EXCEPT !.input = a, !.answering = b])
    <3>1. Alike(C!PutAside(pane))
      BY <1>1 DEF C!PutAside, Alike
    <3>2. QED BY <1>1, <3>1 DEF Alike
  <2>2. CASE C!onChange \/ C!addAttachmentFiles \/ C!removeAttachment
    BY <1>8, <2>1, <2>2 DEF C!onChange, C!addAttachmentFiles, C!removeAttachment
  <2>3. CASE C!onAnswer \/ C!cancelAnswering
    BY <1>8, <2>1, <2>3 DEF C!onAnswer, C!cancelAnswering
  <2>4. QED BY <1>9, <2>2, <2>3
<1>10. ASSUME C!DropAnswering \/ C!Refreshed \/ C!HeldEnds PROVE ReadsInv' /\ pane'.kind = pane.kind
  <2>1. UNCHANGED <<past, heard>> /\ calls' = calls \cup {} /\ Alike(pane')
    BY <1>1, <1>10 DEF C!DropAnswering, C!Refreshed, C!HeldEnds, Alike
  <2>2. QED BY <1>4, <2>1, ReadsMore
<1>11. ASSUME NEW p, NEW c, C!Begins(p, c), Alike(p), ListCallsOK({c}) PROVE ReadsInv' /\ pane'.kind = pane.kind
  <2>1. UNCHANGED <<past, heard>> /\ calls' = calls \cup {c} /\ Alike(pane')
    BY <1>11 DEF C!Begins, C!Idle, Alike
  <2>2. QED BY <1>11, <2>1, ReadsMore
<1>12. ASSUME C!send PROVE ReadsInv' /\ pane'.kind = pane.kind
  <2> DEFINE what == IF pane.answering # C!None THEN "answer"
                     ELSE IF pane.input = "compact" THEN "compact"
                     ELSE IF pane.files = {} THEN "turn" ELSE "upload"
             made == [text |-> pane.input, files |-> pane.files]
             base == C!Cardinality(pane.files)
             c == [Call(what, pane.answering) EXCEPT !.base = base, !.made = made]
             p == [pane EXCEPT !.sending = "sending", !.input = C!None, !.files = {}]
  <2>1. C!Begins(p, c)
    BY <1>2, <1>12 DEF C!send
  <2>2. Alike(p)
    BY <1>1 DEF Alike
  <2> HIDE DEF made, base
  <2>3. DOMAIN c = CallFields /\ c.what \notin ListCalls
    BY DEF Call, CallFields, ListCalls
  <2> HIDE DEF c, p
  <2>4. ListCallsOK({c})
    BY <2>3 DEF ListCallsOK
  <2>5. QED BY <1>11, <2>1, <2>2, <2>4
<1>13. ASSUME \/ C!interrupt \/ C!continueInterruptedTurn \/ C!dismissInterruptedTurn
              \/ C!continueHeldMessage \/ C!closeHeldMessage
       PROVE  ReadsInv' /\ pane'.kind = pane.kind
  <2>1. \E p, what : C!Begins(p, Call(what, C!None)) /\ Alike(p)
    BY <1>1, <1>2, <1>13 DEF C!interrupt, C!continueInterruptedTurn, C!dismissInterruptedTurn,
       C!continueHeldMessage, C!closeHeldMessage, Alike
  <2>2. QED BY <1>3, <1>11, <2>1
<1>14. ASSUME C!GoalBar PROVE ReadsInv' /\ pane'.kind = pane.kind
  <2> DEFINE made == [turn |-> pane.turn, goal |-> C!None]
             p == [pane EXCEPT !.goalSaving = TRUE]
  <2>1. PICK what \in C!OnGoal : C!Begins(p, [Call(what, C!None) EXCEPT !.made = made])
    BY <1>2, <1>14 DEF C!GoalBar
  <2> HIDE DEF made
  <2>2. ListCallsOK({[Call(what, C!None) EXCEPT !.made = made]})
    BY DEF ListCallsOK, Call, CallFields, C!OnGoal, ListCalls
  <2>3. Alike(p)
    BY <1>1 DEF Alike
  <2>4. QED BY <1>11, <2>1, <2>2, <2>3
<1>15. /\ C!Orders \cap ListCalls = {} /\ C!Sends \cap ListCalls = {}
  BY DEF C!Orders, C!OnTurn, C!OnHeld, C!OnGoal, C!Sends, ListCalls
<1>16. ASSUME NEW c \in calls, c.what \notin ListCalls, UNCHANGED heard, Alike(pane'),
              UNCHANGED past \/ \E what, thing, known : Changed(what, thing, known),
              NEW cs, ListCallsOK(cs), calls' = (calls \ {c}) \cup cs
       PROVE  ReadsInv' /\ pane'.kind = pane.kind
  <2>1. PICK what : UNCHANGED past \/ \E thing, known : Changed(what, thing, known)
    BY <1>16
  <2>2. QED BY <1>1, <1>16, <2>1, ReadsServed
<1>17. ASSUME NEW c \in calls, C!uploadThreadArtifact(c) PROVE ReadsInv' /\ pane'.kind = pane.kind
  <2> DEFINE d == IF c.base = 1 THEN [c EXCEPT !.what = "turn", !.base = 0] ELSE [c EXCEPT !.base = @ - 1]
  <2>1. UNCHANGED <<past, heard, pane>> /\ calls' = (calls \ {c}) \cup {d} /\ c.what = "upload"
    BY <1>17 DEF C!uploadThreadArtifact
  <2>2. DOMAIN c = CallFields
    BY <1>1 DEF ListCallsOK
  <2>3. DOMAIN d = CallFields /\ d.what \in {"upload", "turn"}
    BY <2>1, <2>2 DEF CallFields
  <2> HIDE DEF d
  <2>4. ListCallsOK({d}) /\ c.what \notin ListCalls
    BY <2>1, <2>3 DEF ListCallsOK, ListCalls
  <2>5. Alike(pane')
    BY <1>1, <2>1 DEF Alike
  <2>6. QED BY <1>16, <2>1, <2>4, <2>5
<1>18. ASSUME NEW c \in calls, C!HubTakes(c) PROVE ReadsInv' /\ pane'.kind = pane.kind
  <2>1. c.what \notin ListCalls /\ UNCHANGED heard /\ calls' = (calls \ {c}) \cup {[c EXCEPT !.done = TRUE]}
    BY <1>18 DEF C!HubTakes, C!Served, ListCalls
  <2>2. Alike(pane')
    BY <1>1, <1>18 DEF C!HubTakes, Alike
  <2>3. UNCHANGED past \/ \E what, thing, known : Changed(what, thing, known)
    BY <1>2, <1>18 DEF C!HubTakes
  <2>4. ListCallsOK({[c EXCEPT !.done = TRUE]})
    BY <1>1, <2>1, CallServed
  <2>5. QED BY <1>16, <2>1, <2>2, <2>3, <2>4
<1>19. ASSUME NEW c \in calls, NEW p, NEW cs, C!Ends(c, p, cs), Alike(p), c.what \notin ListCalls, c.done,
              cs = calls \/ \E list \in C!ComposerLists : cs = Invalidated(calls, {list})
       PROVE  ReadsInv' /\ pane'.kind = pane.kind
  <2>1. UNCHANGED <<past, heard>> /\ Alike(pane') /\ calls' = cs \ {c}
    BY <1>19 DEF C!Ends, Alike
  <2>2. CASE cs = calls
    <3>1. calls' = (calls \ {c}) \cup {}
      BY <2>1, <2>2
    <3>2. QED BY <1>4, <1>16, <1>19, <2>1, <3>1
  <2>3. ASSUME NEW list \in C!ComposerLists, cs = Invalidated(calls, {list}) PROVE ReadsInv' /\ pane'.kind = pane.kind
    <3>1. ListCallsOK(cs)
      BY <1>1, <2>3, CallsInvalidated
    <3>2. ListCallsOK(calls') /\ \A d \in cs : d.what \in ListCalls => d \in calls'
      BY <1>19, <2>1, <3>1 DEF ListCallsOK
    <3>3. QED BY <1>1, <2>1, <2>3, <3>2, ReadsInvalidated
  <2>4. QED BY <1>19, <2>2, <2>3
<1>20. ASSUME NEW c \in calls, C!Sent(c) PROVE ReadsInv' /\ pane'.kind = pane.kind
  <2>1. c.what \notin ListCalls /\ c.done
    BY <1>15, <1>20 DEF C!Sent
  <2>2. \/ C!Ends(c, [pane EXCEPT !.sending = "refresh", !.answering = C!None], Invalidated(calls, {"requests"}))
        \/ C!Ends(c, [pane EXCEPT !.sending = "no"], calls)
    BY <1>2, <1>20 DEF C!Sent
  <2>3. /\ Alike([pane EXCEPT !.sending = "refresh", !.answering = C!None]) /\ Alike([pane EXCEPT !.sending = "no"])
        /\ "requests" \in C!ComposerLists
    BY <1>1 DEF Alike, C!ComposerLists
  <2>4. QED BY <1>19, <2>1, <2>2, <2>3
<1>21. ASSUME NEW c \in calls, C!NotSent(c) PROVE ReadsInv' /\ pane'.kind = pane.kind
  <2>1. c.what \notin ListCalls /\ UNCHANGED <<past, heard>> /\ calls' = (calls \ {c}) \cup {}
    BY <1>15, <1>21 DEF C!NotSent
  <2>2. Alike(pane')
    BY <1>1, <1>21 DEF C!NotSent, Alike
  <2>3. QED BY <1>4, <1>16, <2>1, <2>2
<1>22. ASSUME NEW c \in calls, C!HubActs(c) PROVE ReadsInv' /\ pane'.kind = pane.kind
  <2> DEFINE made == [turn |-> IF c.what \in C!OnGoal THEN c.made.turn ELSE C!Data'["turn"], goal |-> C!Data'["goal"]]
  <2>1. /\ c.what \notin ListCalls /\ UNCHANGED <<heard, pane>>
        /\ calls' = (calls \ {c}) \cup {[c EXCEPT !.done = TRUE, !.made = made]}
    BY <1>15, <1>22 DEF C!HubActs
  <2>2. \E what, thing, known : Changed(what, thing, known)
    BY <1>2, <1>22 DEF C!HubActs
  <2> HIDE DEF made
  <2>3. ListCallsOK({[c EXCEPT !.done = TRUE, !.made = made]})
    BY <1>1, <2>1, CallServed
  <2>4. Alike(pane')
    BY <1>1, <2>1 DEF Alike
  <2>5. QED BY <1>16, <2>1, <2>2, <2>3, <2>4
<1>23. ASSUME NEW c \in calls, C!OrderDone(c) PROVE ReadsInv' /\ pane'.kind = pane.kind
  <2> DEFINE p == C!Acknowledged(pane, c)
             cs == IF c.what \in C!OnHeld \cup {"continue"} THEN Invalidated(calls, {"pending"}) ELSE calls
  <2>1. c.what \in C!Orders /\ c.what \notin ListCalls /\ c.done /\ C!Ends(c, p, cs)
    BY <1>2, <1>15, <1>23 DEF C!OrderDone
  <2>2. Alike(p)
    BY <1>1 DEF C!Acknowledged, Alike, C!OnTurn, C!OnHeld, C!OnGoal
  <2>3. cs = calls \/ \E list \in C!ComposerLists : cs = Invalidated(calls, {list})
    BY DEF C!ComposerLists
  <2> HIDE DEF p, cs
  <2>4. QED BY <1>19, <2>1, <2>2, <2>3
<1>24. ASSUME NEW c \in calls, C!OrderFails(c) PROVE ReadsInv' /\ pane'.kind = pane.kind
  <2>1. c.what \notin ListCalls /\ UNCHANGED <<past, heard>> /\ calls' = (calls \ {c}) \cup {}
    BY <1>15, <1>24 DEF C!OrderFails
  <2>2. Alike(pane')
    BY <1>1, <1>24 DEF C!OrderFails, C!OnTurn, C!OnHeld, C!OnGoal, Alike
  <2>3. QED BY <1>4, <1>16, <2>1, <2>2
<1>25. QED
  <2>1. \/ C!HubMoves \/ C!Hear \/ \E c \in calls : C!ListAnswered(c) \/ C!ListFailed(c)
        \/ C!onChange \/ C!addAttachmentFiles \/ C!removeAttachment \/ C!onAnswer \/ C!cancelAnswering \/ C!DropAnswering
        \/ C!send \/ C!Refreshed
        \/ \E c \in calls : C!uploadThreadArtifact(c) \/ C!HubTakes(c) \/ C!Sent(c) \/ C!NotSent(c)
        \/ C!interrupt \/ C!continueInterruptedTurn \/ C!dismissInterruptedTurn
        \/ C!continueHeldMessage \/ C!closeHeldMessage \/ C!GoalBar \/ C!HeldEnds
        \/ \E c \in calls : C!HubActs(c) \/ C!OrderDone(c) \/ C!OrderFails(c)
    BY DEF C!ComposerNext
  <2>2. QED BY <1>5, <1>6, <1>7, <1>9, <1>10, <1>12, <1>13, <1>14, <1>17, <1>18, <1>20, <1>21, <1>22, <1>23,
               <1>24, <2>1

----------------------------------------------------------------------------
(* All panes that show lists.                                                  *)

LEMMA OnePast ==
  ASSUME NEW e, past = <<e>>
  PROVE  PastOK /\ Len(past) = 1
<1>1. past \in Seq({e}) /\ Len(past) = 1
  OBVIOUS
<1>2. \A s, X : s \in Seq(X) => \E Y : s \in Seq(Y)
  OBVIOUS
<1>3. (\E X : past \in Seq(X)) /\ Len(past) >= 1
  <2>1. \E X : past \in Seq(X)
    BY ONLY <1>1, <1>2
  <2>2. QED BY <1>1, <2>1
<1>4. QED BY <1>1, <1>3 DEF PastOK

LEMMA ReadsBegin ==
  ASSUME heard = 1, NEW e, past = <<e>>, ListCallsOK(calls),
         {"kind", "seen"} \subseteq DOMAIN pane, pane.kind \in Readers, DOMAIN pane.seen = ListsOf(pane.kind),
         \A l \in DOMAIN pane.seen : /\ pane.seen[l] \in ListState
                                     /\ \/ pane.seen[l].newest = 1
                                        \/ \E c \in calls : Serves(c, l) /\ c.asked = 1
  PROVE  ReadsInv
<1>1. PastOK /\ Len(past) = 1
  BY OnePast
<1>2. heard \in 1..Len(past) /\ 2..Len(past) = {} /\ 1..heard = {1}
  <2>1. \A m : m = 1 => heard \in 1..m /\ 2..m = {} /\ 1..heard = {1}
    OBVIOUS
  <2>2. QED BY <1>1, <2>1
<1>3. \A l \in DOMAIN pane.seen : Reached(l, 1)
  BY DEF Reached
<1>4. QED BY <1>1, <1>2, <1>3 DEF ReadsInv

LEMMA NothingSeenYet ==
  ASSUME NEW lists
  PROVE  DOMAIN NothingSeen(lists) = lists /\ \A l \in lists : NothingSeen(lists)[l] \in ListState
BY DEF NothingSeen, ListState

LEMMA NeedsYouBegins ==
  ASSUME N!NeedsYouInit, heard = 1
  PROVE  pane.kind = "needs-you" /\ ReadsInv
<1>1. PICK data : past = <<[what |-> "start", data |-> data]>>
  BY DEF N!NeedsYouInit
<1> DEFINE e == [what |-> "start", data |-> data]
<1> HIDE DEF e
<1>2. past = <<e>> /\ Len(past) = 1
  BY <1>1 DEF e
<1>3. /\ {"kind", "seen"} \subseteq DOMAIN pane /\ pane.kind = "needs-you"
      /\ pane.seen = NothingSeen(N!RequestLists)
      /\ calls = {Call(l, None) : l \in N!RequestLists}
  BY DEF N!NeedsYouInit, N!NothingSeen, NothingSeen, N!Call, Call, N!None, None
<1>4. ListCallsOK(calls) /\ \A l \in N!RequestLists : \E c \in calls : Serves(c, l) /\ c.asked = 1
  <2>1. PastOK
    BY <1>2, OnePast
  <2>2. \A l \in N!RequestLists : Call(l, None).what = l /\ Call(l, None).asked = 1
    BY <1>2 DEF Call
  <2>3. QED BY <1>3, <2>1, <2>2, CallsAsked DEF Serves
<1>5. QED BY <1>2, <1>3, <1>4, NothingSeenYet, ReadsBegin DEF Readers, ListsOf

LEMMA TopicsBegins ==
  ASSUME T!TopicsInit, heard = 1
  PROVE  pane.kind = "topics" /\ ReadsInv
<1>1. PICK data : past = <<[what |-> "start", data |-> data]>>
  BY DEF T!TopicsInit
<1> DEFINE e == [what |-> "start", data |-> data]
<1> HIDE DEF e
<1>2. past = <<e>> /\ Len(past) = 1
  BY <1>1 DEF e
<1>3. /\ {"kind", "seen"} \subseteq DOMAIN pane /\ pane.kind = "topics"
      /\ pane.seen = NothingSeen({"topics"}) /\ calls = {Call("topics", None)}
  BY DEF T!TopicsInit, T!NothingSeen, NothingSeen, T!Call, Call, T!None, None
<1>4. ListCallsOK(calls) /\ \A l \in {"topics"} : \E c \in calls : Serves(c, l) /\ c.asked = 1
  BY <1>2, <1>3 DEF ListCallsOK, Call, CallFields, Serves
<1>5. QED BY <1>2, <1>3, <1>4, NothingSeenYet, ReadsBegin DEF Readers, ListsOf

LEMMA ListsBegins ==
  ASSUME L!ListsInit, heard = 1
  PROVE  pane.kind \in L!Kinds /\ ReadsInv
<1>1. PICK kind \in L!Kinds :
        /\ past = <<[what |-> "start",
                     data |-> [x \in Things |-> CASE kind = "inbox" -> "queued" [] kind = "messages" -> "queued"
                                                  [] OTHER -> "enabled"]]>>
        /\ pane = [kind |-> kind, seen |-> L!NothingSeen(L!ListOf(kind)), selected |-> L!None,
                   mode |-> "list", composing |-> FALSE, working |-> {}]
        /\ calls = {L!Call("refresh", L!None)}
  BY DEF L!ListsInit
<1>2. PICK e : past = <<e>>
  BY <1>1
<1>3. Len(past) = 1
  BY <1>2
<1>4. /\ {"kind", "seen"} \subseteq DOMAIN pane /\ pane.kind = kind
      /\ pane.seen = NothingSeen(L!ListOf(kind)) /\ calls = {Call("refresh", None)}
  BY <1>1 DEF L!NothingSeen, NothingSeen, L!Call, Call, L!None, None
<1>5. ListCallsOK(calls) /\ \A l \in L!ListOf(kind) : \E c \in calls : Serves(c, l) /\ c.asked = 1
  BY <1>3, <1>4 DEF ListCallsOK, Call, CallFields, Serves
<1>6. kind \in Readers /\ ListsOf(kind) = L!ListOf(kind)
  BY DEF Readers, ListsOf, L!Kinds
<1>7. QED BY <1>2, <1>4, <1>5, <1>6, NothingSeenYet, ReadsBegin

LEMMA ComposerBegins ==
  ASSUME C!ComposerInit, heard = 1
  PROVE  pane.kind = "composer" /\ ReadsInv
<1>1. \E e : past = <<e>>
  BY DEF C!ComposerInit
<1>2. PICK e : past = <<e>>
  BY <1>1
<1>3. /\ {"kind", "seen"} \subseteq DOMAIN pane /\ pane.kind = "composer" /\ calls = {}
      /\ pane.seen = [l \in C!ComposerLists |-> [at |-> 1, newest |-> 1, failed |-> 0, joined |-> 0]]
  BY DEF C!ComposerInit
<1>4. /\ DOMAIN pane.seen = C!ComposerLists
      /\ \A l \in C!ComposerLists : pane.seen[l] \in ListState /\ pane.seen[l].newest = 1
  BY <1>3 DEF ListState
<1>5. ListCallsOK(calls)
  BY <1>3 DEF ListCallsOK
<1>6. QED BY <1>2, <1>3, <1>4, <1>5, ReadsBegin DEF Readers, ListsOf

(* Once nothing is on its way, what was to be read has been read.              *)
LEMMA ReadsSettled ==
  ASSUME ReadsInv, heard = Len(past), calls = {}, NEW l \in DOMAIN pane.seen,
         ~(pane.seen[l].failed > pane.seen[l].newest), NEW n \in pane.seen[l].newest + 1..Len(past),
         ~(n <= pane.seen[l].joined)
  PROVE  ~Concerns(past[n].what, l)
<1>1. pane.seen[l] \in [at : Nat, newest : Nat, failed : Nat, joined : Nat] /\ Len(past) \in Nat
  BY DEF ReadsInv, ListState, PastOK
<1>2. n \in 1..heard /\ ~(pane.seen[l].newest >= n) /\ ~(pane.seen[l].failed >= n) /\ ~(pane.seen[l].joined >= n)
  BY <1>1
<1>3. ~Reached(l, n)
  BY <1>2 DEF Reached
<1>4. QED BY <1>2, <1>3 DEF ReadsInv

----------------------------------------------------------------------------
(* The place in a thread.                                                      *)

LEMMA ScrollAlike ==
  ASSUME NEW p, Alike(p)
  PROVE  /\ Alike(S!onScroll(p)) /\ Alike(S!Rows(p))
         /\ \A top : Alike(S!To(p, top))
         /\ \A timer : Alike(S!Due(p, timer)) /\ Alike(S!Done(p, timer))
         /\ \A growth : Alike(S!MeasuredBy(p, growth))
<1>1. Alike(S!onScroll(p)) /\ Alike(S!Rows(p))
  BY DEF Alike, S!onScroll, S!Rows
<1>2. ASSUME NEW q, Alike(q)
      PROVE  /\ \A top : Alike(S!To(q, top))
             /\ \A timer : Alike(S!Due(q, timer)) /\ Alike(S!Done(q, timer))
  BY <1>2 DEF Alike, S!To, S!Due, S!Done
<1>3. ASSUME NEW growth PROVE Alike(S!MeasuredBy(p, growth))
  <2>1. Alike([p EXCEPT !.height = @ + growth])
    BY DEF Alike
  <2>2. QED BY <1>2, <2>1 DEF S!MeasuredBy
<1>4. QED BY <1>1, <1>2, <1>3

LEMMA FeedAlike ==
  ASSUME {"kind", "seen"} \subseteq DOMAIN pane, S!FeedScrollNext
  PROVE  Alike(pane')
<1>1. Alike(pane) /\ \A timer : Alike(S!Done(pane, timer))
  <2>1. Alike(pane)
    BY DEF Alike
  <2>2. QED BY <2>1, ScrollAlike, Zenon
<1>2. ASSUME NEW p, Alike(p), NEW a, NEW b, NEW c, NEW d
      PROVE  /\ Alike([p EXCEPT !.saved = a]) /\ Alike([p EXCEPT !.keep = a, !.saved = b])
             /\ Alike([p EXCEPT !.restoring = a]) /\ Alike([p EXCEPT !.restoring = a, !.saved = b])
             /\ Alike([p EXCEPT !.timers = a]) /\ Alike([p EXCEPT !.anchor = a])
             /\ Alike([p EXCEPT !.initial = a, !.saved = b]) /\ Alike([p EXCEPT !.reader = a])
             /\ Alike([p EXCEPT !.active = a]) /\ Alike([p EXCEPT !.active = a, !.top = b])
             /\ Alike([p EXCEPT !.older = a, !.keep = b, !.height = c])
             /\ Alike([p EXCEPT !.initial = a, !.stick = b, !.anchor = c, !.reader = d])
  BY <1>2 DEF Alike
<1>3. CASE S!FeedTimer
  <2> DEFINE p == S!Done(pane, "feed")
             q == IF p.keep # S!Nowhere
                  THEN S!onScroll([S!To(p, p.top + p.height - p.keep) EXCEPT !.keep = S!Nowhere,
                                                                           !.saved = p.top + p.height - p.keep])
                  ELSE IF S!Pins(p) THEN S!onScroll(S!Due(S!To(p, S!Bottom(p)), "settle"))
                  ELSE S!Due([p EXCEPT !.restoring = TRUE], "restore")
  <2>1. pane' = q
    BY <1>3 DEF S!FeedTimer, S!Fires
  <2>2. Alike(p)
    BY <1>1
  <2> HIDE DEF p
  <2>3. Alike(q)
    BY <1>2, <2>2, ScrollAlike, Zenon
  <2> HIDE DEF q
  <2>4. QED BY <2>1, <2>3 DEF Alike
<1>4. CASE S!SettleTimer
  <2> DEFINE p == S!Done(pane, "settle")
             r == IF S!Pins(p) THEN S!onScroll(S!To(p, S!Bottom(p))) ELSE p
             q == [r EXCEPT !.saved = r.top]
  <2>1. pane' = q
    BY <1>4 DEF S!SettleTimer, S!Fires
  <2>2. Alike(p)
    BY <1>1
  <2> HIDE DEF p
  <2>3. Alike(q)
    BY <1>2, <2>2, ScrollAlike, Zenon
  <2> HIDE DEF q
  <2>4. QED BY <2>1, <2>3 DEF Alike
<1>5. CASE S!RestoreTimer
  <2> DEFINE place(x) == IF x.anchor = S!Nowhere THEN x.saved ELSE x.anchor
             p == S!To(S!Done(pane, "restore"), place(S!Done(pane, "restore")))
             q == S!onScroll([p EXCEPT !.restoring = FALSE, !.saved = p.top])
  <2>1. pane' = S!To(pane, place(pane)) \/ pane' = q
    BY <1>5 DEF S!RestoreTimer, S!restorePosition, S!Fires
  <2>2. Alike(p) /\ Alike(S!To(pane, place(pane)))
    BY <1>1, ScrollAlike, Zenon
  <2> HIDE DEF p, place
  <2>3. Alike(q)
    BY <1>2, <2>2, ScrollAlike, Zenon
  <2> HIDE DEF q
  <2>4. QED BY <2>1, <2>2, <2>3 DEF Alike
<1>6. CASE S!AnchorTimer
  <2>1. Alike([S!Done(pane, "anchor") EXCEPT !.anchor = pane.top])
    BY <1>1, <1>2
  <2>2. QED BY <1>6, <2>1 DEF S!AnchorTimer, S!Fires, Alike
<1>7. CASE S!PinTimer
  <2> DEFINE p == S!Done(pane, "pin")
             r == [S!onScroll(S!To(p, S!Bottom(p))) EXCEPT !.saved = S!Bottom(p)]
             q == IF ~p.active \/ ~S!Pins(p) \/ (~p.initial /\ S!AtBottom(p)) THEN p
                  ELSE IF r.initial THEN S!Due(r, "bottom") ELSE r
  <2>1. pane' = q
    BY <1>7 DEF S!PinTimer, S!Fires
  <2>2. Alike(p)
    BY <1>1
  <2> HIDE DEF p
  <2>3. Alike(q)
    BY <1>2, <2>2, ScrollAlike, Zenon
  <2> HIDE DEF q
  <2>4. QED BY <2>1, <2>3 DEF Alike
<1>8. CASE S!BottomTimer
  <2> DEFINE p == S!Done(pane, "bottom")
             q == IF ~p.active THEN p
                  ELSE IF S!AtBottom(p) THEN [p EXCEPT !.initial = FALSE, !.saved = p.top]
                  ELSE S!onScroll(S!To(p, S!Bottom(p)))
  <2>1. pane' = q
    BY <1>8 DEF S!BottomTimer, S!Fires
  <2>2. Alike(p)
    BY <1>1
  <2> HIDE DEF p
  <2>3. Alike(q)
    BY <1>2, <2>2, ScrollAlike, Zenon
  <2> HIDE DEF q
  <2>4. QED BY <2>1, <2>3 DEF Alike
<1>9. CASE S!JumpTimer
  <2> DEFINE p == S!Done(pane, "jump")
             q == IF p.stick THEN S!onScroll([S!To(p, S!Bottom(p)) EXCEPT !.saved = S!Bottom(p)]) ELSE p
  <2>1. pane' = q
    BY <1>9 DEF S!JumpTimer, S!Fires
  <2>2. Alike(p)
    BY <1>1
  <2> HIDE DEF p
  <2>3. Alike(q)
    BY <1>2, <2>2, ScrollAlike, Zenon
  <2> HIDE DEF q
  <2>4. QED BY <2>1, <2>3 DEF Alike
<1>10. CASE S!FramesTimer
  <2> DEFINE p == S!Done(pane, "frames")
             r == S!onScroll(p)
             q == IF S!Pins(r) THEN S!onScroll(S!To(r, S!Bottom(r))) ELSE r
  <2>1. pane' = q
    BY <1>10 DEF S!FramesTimer, S!Fires
  <2>2. Alike(p)
    BY <1>1
  <2> HIDE DEF p
  <2>3. Alike(q)
    BY <1>2, <2>2, ScrollAlike, Zenon
  <2> HIDE DEF q
  <2>4. QED BY <2>1, <2>3 DEF Alike
<1>11. CASE S!RowsCome \/ S!RowsMeasured \/ S!OlderCome
  <2> DEFINE o == [pane EXCEPT !.older = FALSE, !.keep = pane.height, !.height = @ + 1]
  <2>1. Alike(S!MeasuredBy(pane, 1)) /\ Alike(S!Rows(S!MeasuredBy(pane, 1)))
    BY <1>1, ScrollAlike, Zenon
  <2>2. Alike(o)
    BY <1>1, <1>2
  <2>3. Alike(S!Rows(o))
    <3> HIDE DEF o
    <3> QED BY <2>2, ScrollAlike, Zenon
  <2>4. QED BY <1>11, <2>1, <2>3 DEF S!RowsCome, S!RowsMeasured, S!OlderCome, Alike
<1>12. CASE S!ReaderScrolls \/ S!jumpToMessage
  <2>1. ASSUME NEW top, NEW reader PROVE Alike([S!onScroll(S!To(pane, top)) EXCEPT !.reader = reader])
    <3>1. Alike(S!onScroll(S!To(pane, top)))
      BY <1>1, ScrollAlike, Zenon
    <3>2. QED BY <1>2, <3>1
  <2>2. QED BY <1>12, <2>1 DEF S!ReaderScrolls, S!jumpToMessage, S!Reads, Alike
<1>13. CASE S!jumpToBottom
  <2> DEFINE t == S!To(pane, S!Bottom(pane))
             p == [t EXCEPT !.initial = FALSE, !.stick = TRUE, !.anchor = S!Nowhere, !.reader = "down"]
  <2>1. Alike(t)
    BY <1>1, ScrollAlike, Zenon
  <2>2. pane' = S!Due(S!onScroll(p), "jump")
    BY <1>13 DEF S!jumpToBottom, S!Reads
  <2> HIDE DEF t
  <2>3. Alike(p)
    BY <1>2, <2>1
  <2> HIDE DEF p
  <2>4. Alike(S!Due(S!onScroll(p), "jump"))
    BY <2>3, ScrollAlike, Zenon
  <2>5. QED BY <2>2, <2>4 DEF Alike
<1>14. CASE S!Hide
  <2>1. Alike([S!Rows([pane EXCEPT !.active = FALSE]) EXCEPT !.timers = @ \ {"frames"}])
    BY <1>1, <1>2, ScrollAlike, Zenon
  <2>2. QED BY <1>14, <2>1 DEF S!Hide, S!Reads, Alike
<1>15. CASE S!Show
  <2>1. ASSUME NEW top PROVE Alike(S!Due(S!Rows([pane EXCEPT !.active = TRUE, !.top = top]), "frames"))
    BY <1>1, <1>2, ScrollAlike, Zenon
  <2>2. QED BY <1>15, <2>1 DEF S!Show, Alike
<1>16. QED BY <1>3, <1>4, <1>5, <1>6, <1>7, <1>8, <1>9, <1>10, <1>11, <1>12, <1>13, <1>14, <1>15
       DEF S!FeedScrollNext

----------------------------------------------------------------------------
(* The roles of an Agent in its conversations.                                 *)

RoleFields == {"kind", "seen", "known", "waiting", "open", "draft", "saving", "policy", "choice", "testing"}
RolesShape(p) ==
  /\ DOMAIN p = RoleFields /\ p.kind = "roles" /\ DOMAIN p.seen = {}
  /\ DOMAIN p.draft = Things /\ p.open \subseteq Things

(* A form that is open in q was open in p, and has the same in it.             *)
FormsKept(p, q) ==
  /\ RolesShape(q) /\ q.open \subseteq p.open
  /\ \A x \in q.open : q.draft[x] = p.draft[x]

LEMMA LearnKeepsForms ==
  ASSUME NEW p, RolesShape(p), NEW known
  PROVE  FormsKept(p, R!Learn(p, known))
BY DEF RolesShape, RoleFields, FormsKept, R!Learn

LEMMA LearnPolicyKeepsForms ==
  ASSUME NEW p, RolesShape(p), NEW policy
  PROVE  FormsKept(p, R!LearnPolicy(p, policy))
BY DEF RolesShape, RoleFields, FormsKept, R!LearnPolicy

LEMMA ClosedKeepsForms ==
  ASSUME NEW p, RolesShape(p), NEW x
  PROVE  FormsKept(p, R!Closed(p, x))
<1> DEFINE closing == IF R!Form(x) \notin p.saving THEN {}
                      ELSE IF R!IsContact(x) THEN {y \in p.open : R!IsContact(y)} ELSE {x}
           q == [p EXCEPT !.saving = @ \ {R!Form(x)}, !.open = @ \ closing,
                          !.draft = [y \in Things |-> IF y \in closing /\ ~R!IsContact(y) /\ p.known[y] > 0
                                                      THEN R!Fresh(p.known[y]) ELSE @[y]]]
<1>1. R!Closed(p, x) = q
  BY DEF R!Closed
<1> HIDE DEF closing
<1>2. FormsKept(p, q)
  BY DEF RolesShape, RoleFields, FormsKept
<1>3. QED BY <1>1, <1>2

LEMMA FormsKeptTwice ==
  ASSUME NEW p, NEW q, NEW r, FormsKept(p, q), FormsKept(q, r)
  PROVE  FormsKept(p, r)
BY DEF FormsKept

(* What the page hears of has a name it knows; who saves, saves a role.        *)
RolesPast == \A n \in 2..Len(past) : past[n].what \in Things \cup {"policy", "inbox"}
RolesCalls == \A c \in calls : c.what = "save" => c.item \in Things
RolesInv == Common /\ RolesShape(pane) /\ RolesPast /\ RolesCalls

LEMMA RolesHubMoves ==
  ASSUME RolesInv, R!ConversationRolesNext
  PROVE  PastOK' /\ RolesPast' /\ heard' \in Nat \ {0}
<1>1. ASSUME UNCHANGED past PROVE PastOK' /\ RolesPast'
  BY <1>1 DEF RolesInv, Common, PastOK, RolesPast
<1>2. ASSUME NEW what \in Things \cup {"policy", "inbox"}, NEW thing, NEW known, R!Changed(what, thing, known)
      PROVE  PastOK' /\ RolesPast'
  <2>1. PastOK /\ Changed(what, thing, known)
    BY <1>2 DEF RolesInv, Common, R!Changed, R!CanChange, R!Data, Changed, CanChange, Data
  <2>2. /\ PastOK' /\ Len(past') = Len(past) + 1
        /\ \A n \in 1..Len(past) : past'[n] = past[n]
        /\ past'[Len(past')] = [what |-> what, data |-> [Data EXCEPT ![thing] = known]]
    BY <2>1, ChangedPast
  <2>3. Len(past) \in Nat
    BY <2>1 DEF PastOK
  <2>4. QED BY <2>2, <2>3 DEF RolesInv, RolesPast
<1>3. CASE R!HubMoves
  BY <1>2, <1>3 DEF R!HubMoves, R!HubChanges, RolesInv, Common
<1>4. ASSUME NEW c \in calls, R!HubServes(c) PROVE PastOK' /\ RolesPast' /\ heard' \in Nat \ {0}
  <2>1. c.what = "save" => c.item \in Things
    BY DEF RolesInv, RolesCalls
  <2>2. QED BY <1>1, <1>2, <1>4, <2>1 DEF R!HubServes, R!UpsertConversationMembership, RolesInv, Common
<1>5. CASE R!Hear
  <2>1. Len(past) \in Nat \ {0}
    BY DEF RolesInv, Common, PastOK
  <2>2. UNCHANGED past /\ (heard' = heard + 1 \/ heard' = Len(past))
    BY <1>5 DEF R!Hear
  <2>3. QED BY <1>1, <2>1, <2>2 DEF RolesInv, Common
<1>6. CASE \E c \in calls : \/ R!RefreshAnswered(c) \/ R!RefreshFailed(c) \/ R!refreshSelectedInbox(c)
                           \/ R!Goes(c) \/ R!Refused(c) \/ R!Tested(c)
  BY <1>1, <1>6 DEF R!RefreshAnswered, R!RefreshFailed, R!refreshSelectedInbox, R!Goes, R!Refused, R!Tested,
                    R!Idle, RolesInv, Common
<1>7. CASE \/ R!setEditing \/ R!selectContact \/ R!leaveContact \/ R!onChange \/ R!setPolicy
           \/ R!saveCandidate \/ R!saveContact \/ R!save \/ R!savePolicy \/ R!test
  BY <1>1, <1>7 DEF R!setEditing, R!selectContact, R!leaveContact, R!onChange, R!setPolicy, R!saveCandidate,
                    R!saveContact, R!save, R!savePolicy, R!test, R!Does, R!Saves, R!Idle, RolesInv, Common
<1>8. QED BY <1>3, <1>4, <1>5, <1>6, <1>7 DEF R!ConversationRolesNext

LEMMA RolesAsk ==
  ASSUME RolesInv, R!ConversationRolesNext
  PROVE  CallsShape' /\ RolesCalls'
<1> USE DEF R!Call, CallFields
<1> SUFFICES ASSUME NEW d \in calls'
             PROVE  DOMAIN d = CallFields /\ (d.what = "save" => d.item \in Things)
  BY DEF CallsShape, RolesCalls
<1>1. \A c \in calls : DOMAIN c = CallFields /\ (c.what = "save" => c.item \in Things)
  BY DEF RolesInv, Common, CallsShape, RolesCalls
<1>2. CASE d \in calls
  BY <1>1, <1>2
<1>3. CASE R!Hear
  <2>1. heard + 1 \in 2..Len(past) \/ calls' = R!Asked(calls, {"refresh"})
    BY <1>3 DEF R!Hear, RolesInv, Common, PastOK
  <2>2. \/ past[heard + 1].what \in Things \cup {"policy", "inbox"}
        \/ calls' = R!Asked(calls, {"refresh"})
    BY <2>1 DEF RolesInv, RolesPast
  <2>3. calls' = calls \/ \E l \in {"inbox", "refresh"} : calls' = R!Asked(calls, {l})
    BY <1>3, <2>2 DEF R!Hear
  <2>4. QED BY <1>1, <2>3 DEF R!Asked
<1>4. CASE \E c \in calls : R!HubServes(c)
  BY <1>1, <1>4 DEF R!HubServes
<1>5. CASE \E c \in calls : R!Goes(c)
  BY <1>1, <1>5 DEF R!Goes
<1>6. CASE R!savePolicy \/ R!test
  BY <1>1, <1>6 DEF R!savePolicy, R!test
<1>7. ASSUME NEW x \in Things, NEW expected, R!Saves(x, expected)
      PROVE  DOMAIN d = CallFields /\ (d.what = "save" => d.item \in Things)
  BY <1>1, <1>7 DEF R!Saves
<1>8. CASE R!saveCandidate \/ R!saveContact \/ R!save
  BY <1>7, <1>8 DEF R!saveCandidate, R!saveContact, R!save, R!Candidates, R!Contacts, R!Rows
<1>9. CASE /\ d \notin calls
           /\ \/ R!HubMoves \/ R!setEditing \/ R!selectContact \/ R!leaveContact \/ R!onChange \/ R!setPolicy
              \/ \E c \in calls : \/ R!RefreshAnswered(c) \/ R!RefreshFailed(c) \/ R!refreshSelectedInbox(c)
                                  \/ R!Refused(c) \/ R!Tested(c)
  BY <1>9 DEF R!HubMoves, R!HubChanges, R!setEditing, R!selectContact, R!leaveContact, R!onChange, R!setPolicy, R!Does,
              R!RefreshAnswered, R!RefreshFailed, R!refreshSelectedInbox, R!Refused, R!Tested
<1>10. QED BY <1>2, <1>3, <1>4, <1>5, <1>6, <1>8, <1>9 DEF R!ConversationRolesNext

(* What the page hears and reads, and what becomes of its calls.               *)
LEMMA RolesLearn ==
  ASSUME RolesInv,
         \/ R!HubMoves \/ R!Hear
         \/ \E c \in calls : \/ R!RefreshAnswered(c) \/ R!RefreshFailed(c) \/ R!refreshSelectedInbox(c)
                             \/ R!HubServes(c) \/ R!Goes(c) \/ R!Refused(c) \/ R!Tested(c)
  PROVE  FormsKept(pane, pane')
<1>1. FormsKept(pane, pane) /\ RolesShape(pane)
  BY DEF FormsKept, RolesInv
<1>2. ASSUME NEW known PROVE FormsKept(pane, R!Learn(pane, known))
  BY <1>1, LearnKeepsForms
<1>3. ASSUME NEW policy PROVE FormsKept(pane, R!LearnPolicy(pane, policy))
  BY <1>1, LearnPolicyKeepsForms
<1>4. CASE R!HubMoves
  BY <1>1, <1>4 DEF R!HubMoves, R!HubChanges
<1>5. CASE R!Hear
  <2> DEFINE event == past[heard + 1]
  <2>1. (heard + 1 \in 2..Len(past) /\ Len(past) \in Nat) \/ UNCHANGED pane
    BY <1>5 DEF R!Hear, RolesInv, Common, PastOK
  <2>2. event.what \in Things \cup {"policy", "inbox"} \/ UNCHANGED pane
    BY <2>1 DEF RolesInv, RolesPast
  <2>3. \/ UNCHANGED pane
        \/ \E known : pane' = R!Learn(pane, known)
        \/ \E policy : pane' = R!LearnPolicy(pane, policy)
    BY <1>5, <2>2 DEF R!Hear
  <2>4. QED BY <1>1, <1>2, <1>3, <2>3
<1>6. ASSUME NEW c \in calls, R!RefreshAnswered(c) PROVE FormsKept(pane, pane')
  <2>1. PICK n : LET p == R!LearnPolicy(R!Learn(pane, R!Versions(n)), R!DataAt(n)["policy"])
                 IN pane' \in {p, [p EXCEPT !.saving = @ \ {"contacts"}], R!Closed(p, c.item)}
    BY <1>6 DEF R!RefreshAnswered
  <2> DEFINE l == R!Learn(pane, R!Versions(n))
             p == R!LearnPolicy(l, R!DataAt(n)["policy"])
  <2>2. FormsKept(pane, l) /\ RolesShape(l)
    BY <1>2 DEF FormsKept
  <2>3. FormsKept(pane, p) /\ RolesShape(p)
    <3> HIDE DEF l
    <3>1. FormsKept(l, p)
      BY <2>2, LearnPolicyKeepsForms
    <3>2. FormsKept(pane, p)
      BY <2>2, <3>1, FormsKeptTwice
    <3>3. QED BY <3>2 DEF FormsKept
  <2>4. pane' \in {p, [p EXCEPT !.saving = @ \ {"contacts"}], R!Closed(p, c.item)}
    BY <2>1
  <2> HIDE DEF p
  <2>5. FormsKept(p, [p EXCEPT !.saving = @ \ {"contacts"}])
    BY <2>3 DEF FormsKept, RolesShape, RoleFields
  <2>6. FormsKept(p, R!Closed(p, c.item))
    BY <2>3, ClosedKeepsForms
  <2>7. FormsKept(pane, [p EXCEPT !.saving = @ \ {"contacts"}]) /\ FormsKept(pane, R!Closed(p, c.item))
    BY <2>3, <2>5, <2>6, FormsKeptTwice
  <2>8. QED BY <2>3, <2>4, <2>7
<1>7. CASE \E c \in calls : R!RefreshFailed(c) \/ R!HubServes(c) \/ R!Goes(c)
  BY <1>1, <1>7 DEF R!RefreshFailed, R!HubServes, R!Goes
<1>8. CASE \E c \in calls : R!refreshSelectedInbox(c) \/ R!Refused(c) \/ R!Tested(c)
  BY <1>1, <1>8 DEF R!refreshSelectedInbox, R!Refused, R!Tested, FormsKept, RolesShape, RoleFields
<1>9. QED BY <1>4, <1>5, <1>6, <1>7, <1>8

(* What the owner does is counted.                                             *)
LEMMA RolesActed ==
  ASSUME RolesShape(pane), acts \in Nat,
         \/ R!setEditing \/ R!selectContact \/ R!leaveContact \/ R!onChange \/ R!setPolicy
         \/ R!saveCandidate \/ R!saveContact \/ R!save \/ R!savePolicy \/ R!test
  PROVE  RolesShape(pane') /\ acts' = acts + 1
<1>1. CASE R!setEditing
  <2>1. PICK x \in Things : R!Does(IF x \notin pane.open THEN [pane EXCEPT !.open = @ \cup {x}]
                                 ELSE [pane EXCEPT !.open = @ \ {x},
                                         !.draft[x] = IF x \in R!Rows THEN R!Fresh(pane.known[x]) ELSE @])
    BY <1>1 DEF R!setEditing, R!Rows, R!Candidates
  <2>2. RolesShape([pane EXCEPT !.open = @ \cup {x}])
    BY DEF RolesShape, RoleFields
  <2>3. ASSUME NEW v PROVE RolesShape([pane EXCEPT !.open = @ \ {x}, !.draft[x] = v])
    BY DEF RolesShape, RoleFields
  <2>4. RolesShape(pane')
    <3>1. CASE x \notin pane.open
      BY <2>1, <2>2, <3>1 DEF R!Does
    <3>2. CASE x \in pane.open
      BY <2>1, <2>3, <3>2 DEF R!Does
    <3>3. QED BY <3>1, <3>2
  <2>5. QED BY <2>1, <2>4 DEF R!Does, R!Acts
<1>2. CASE R!selectContact
  <2>1. PICK x \in Things :
          R!Does([pane EXCEPT !.open = {y \in @ : ~R!IsContact(y)} \cup {x}, !.draft[x] = R!Fresh(pane.known[x])])
    BY <1>2 DEF R!selectContact, R!Contacts
  <2>2. ASSUME NEW v
        PROVE  RolesShape([pane EXCEPT !.open = {y \in @ : ~R!IsContact(y)} \cup {x}, !.draft[x] = v])
    BY DEF RolesShape, RoleFields
  <2>3. QED BY <2>1, <2>2 DEF R!Does, R!Acts
<1>7. CASE R!leaveContact
  BY <1>7 DEF R!leaveContact, R!Does, R!Acts, RolesShape, RoleFields
<1>3. CASE R!onChange
  <2>1. ASSUME NEW x, NEW v PROVE RolesShape([pane EXCEPT !.draft[x].edited = v])
    BY DEF RolesShape, RoleFields
  <2>2. QED BY <1>3, <2>1 DEF R!onChange, R!Does, R!Acts
<1>5. CASE R!setPolicy
  BY <1>5 DEF R!setPolicy, R!Does, R!Acts, RolesShape, RoleFields
<1>4. CASE R!saveCandidate \/ R!saveContact \/ R!save \/ R!savePolicy \/ R!test
  BY <1>4 DEF R!saveCandidate, R!saveContact, R!save, R!savePolicy, R!test, R!Saves, R!Acts, RolesShape, RoleFields
<1>8. QED BY <1>1, <1>2, <1>3, <1>4, <1>5, <1>7

LEMMA RolesStep ==
  ASSUME RolesInv, R!ConversationRolesNext
  PROVE  /\ RolesShape(pane') /\ (acts' = acts => FormsKept(pane, pane'))
         /\ acts' \in Nat
<1>0. RolesShape(pane) /\ acts \in Nat
  BY DEF RolesInv, Common
<1>1. CASE \/ R!HubMoves \/ R!Hear
           \/ \E c \in calls : \/ R!RefreshAnswered(c) \/ R!RefreshFailed(c) \/ R!refreshSelectedInbox(c)
                               \/ R!HubServes(c) \/ R!Goes(c) \/ R!Refused(c) \/ R!Tested(c)
  <2>1. FormsKept(pane, pane')
    BY <1>1, RolesLearn
  <2>2. acts' = acts
    BY <1>1 DEF R!HubMoves, R!HubChanges, R!Hear, R!RefreshAnswered, R!RefreshFailed, R!refreshSelectedInbox,
                R!HubServes, R!Goes, R!Refused, R!Tested
  <2>3. QED BY <1>0, <2>1, <2>2 DEF FormsKept
<1>2. CASE \/ R!setEditing \/ R!selectContact \/ R!leaveContact \/ R!onChange \/ R!setPolicy
           \/ R!saveCandidate \/ R!saveContact \/ R!save \/ R!savePolicy \/ R!test
  <2>1. RolesShape(pane') /\ acts' = acts + 1
    BY <1>0, <1>2, RolesActed
  <2>2. QED BY <1>0, <2>1
<1>3. QED BY <1>1, <1>2 DEF R!ConversationRolesNext

LEMMA RolesInit ==
  ASSUME R!ConversationRolesInit, heard = 1, acts = 0
  PROVE  RolesInv
<1>1. PICK e : past = <<e>>
  BY DEF R!ConversationRolesInit
<1>2. PastOK /\ RolesPast
  <2>1. past \in Seq({e}) /\ Len(past) = 1
    BY <1>1
  <2>2. QED BY <2>1 DEF PastOK, RolesPast
<1>3. RolesShape(pane)
  BY DEF R!ConversationRolesInit, RolesShape, RoleFields, R!NothingSeen
<1>4. CallsShape /\ RolesCalls
  BY DEF R!ConversationRolesInit, R!Call, CallsShape, CallFields, RolesCalls
<1>5. QED BY <1>2, <1>3, <1>4 DEF RolesInv, Common

LEMMA RolesKept ==
  ASSUME RolesInv, R!ConversationRolesNext
  PROVE  RolesInv' /\ (acts' = acts => FormsKept(pane, pane'))
<1>1. /\ RolesShape(pane') /\ (acts' = acts => FormsKept(pane, pane'))
      /\ acts' \in Nat
  BY RolesStep
<1>2. RolesShape(pane)'
  BY <1>1 DEF RolesShape
<1>3. QED BY <1>1, <1>2, RolesAsk, RolesHubMoves DEF RolesInv, Common

----------------------------------------------------------------------------
(* The inspector.                                                              *)

InspectorFields ==
  {"kind", "seen", "open", "section", "agent", "config", "savingConfig", "profile", "text", "loading",
   "savingProfile", "roles", "draft", "savingRole", "loadingUsage", "arming"}

(* What is written of the profile is based on the profile that was read.       *)
InspectorShape(p) ==
  /\ DOMAIN p = InspectorFields /\ p.kind = "inspector" /\ DOMAIN p.seen = {}
  /\ DOMAIN p.text = {"base", "edited"} /\ p.text.base = p.profile
  /\ p.draft # I!NoDraft => p.draft.thing \in Things

(* A save expects the version that its author had before him.                  *)
InspectorCalls(cs) ==
  \A c \in cs : /\ DOMAIN c = CallFields
                /\ c.what \in I!Saves => c.base = c.made[1] /\ c.item \in I!Versioned

InspectorData ==
  /\ I!Versioned \cup {"config", "turn", "name"} = DOMAIN Data
  /\ \A k \in I!Versioned : /\ Data[k].version \in Nat
                            /\ Data[k].version > 0 => Data[k].base = Data[k].version - 1

Sec(p) == IF p.open THEN p.section ELSE None

(* Who answers what p shows as being read or saved, of the calls cs.           *)
ReadsProfile(cs) == \E c \in cs : c.what = "profile"
ReadsUsage(cs) == \E c \in cs : c.what = "usage" \/ (c.what = "refresh" /\ c.item = "usage")
SavesProfile(cs) == \E c \in cs : c.what = "save-profile"
SavesConfig(cs) == \E c \in cs : c.what \in I!Configures
SavesRole(cs) == \E c \in cs : c.what \in {"save", "toggle"} \/ (c.what = "connections" /\ c.item \in {"save", "toggle"})
Arms(cs) == \E c \in cs : c.what \in {"trigger", "refresh"} /\ c.item = "arm"

Answered(p, cs) ==
  /\ p.savingProfile => SavesProfile(cs)
  /\ p.savingConfig => SavesConfig(cs)
  /\ p.savingRole => SavesRole(cs)
  /\ p.arming => Sec(pane) = "triggers" /\ Arms(cs)
  /\ p.open /\ pane.open /\ p.loading => ReadsProfile(cs)
  /\ Sec(p) = "usage" /\ Sec(pane) = "usage" /\ p.loadingUsage => ReadsUsage(cs)

InspectorBusy == Answered(pane, calls)

InspectorInv ==
  PastOK /\ InspectorShape(pane) /\ InspectorCalls(calls) /\ InspectorData /\ InspectorBusy

(* The effects of a change of the page leave what is saved where it is.        *)
LEMMA EffectsOnCalls ==
  ASSUME NEW p, NEW cs, I!Effects(p, cs), InspectorShape(p), InspectorCalls(cs)
  PROVE  /\ InspectorCalls(calls')
         /\ SavesProfile(cs) => SavesProfile(calls')
         /\ SavesConfig(cs) => SavesConfig(calls')
         /\ SavesRole(cs) => SavesRole(calls')
         /\ Arms(cs) /\ Sec(p) = Sec(pane) => Arms(calls')
         /\ /\ p.open /\ pane'.loading
            /\ pane.open /\ p.loading => ReadsProfile(cs)
            => ReadsProfile(calls')
         /\ /\ Sec(p) = "usage"
            /\ pane'.loadingUsage
            /\ Sec(pane) = "usage" /\ p.loadingUsage => ReadsUsage(cs)
            => ReadsUsage(calls')
<1> DEFINE now == I!AgentAt(p.agent)
           moved == Sec(p) # Sec(pane)
           again == {s \in {"team"} \cup I!Polled : s = Sec(p) /\ (moved \/ (IF s = "usage" THEN now.turn # I!Agent.turn ELSE now.name # I!Agent.name))}
           left == {s \in I!Polled : s = Sec(pane) /\ (moved \/ s \in again)} \cup IF p.open # pane.open THEN {"profile"} ELSE {}
           asked == again \cup IF p.open /\ ~pane.open THEN {"profile", "connections"} ELSE {}
           kept(c) == I!Timeless(I!Unmounted(c, moved))
<1>1. /\ pane' = [p EXCEPT !.loading = @ \/ "profile" \in asked, !.loadingUsage = @ \/ "usage" \in asked,
                           !.arming = @ /\ Sec(p) = "triggers",
                           !.config = IF now.config = I!Agent.config THEN @ ELSE I!Unedited(now.config)]
      /\ calls' = {kept(c) : c \in I!Asked({d \in cs : d.what \notin left}, asked)}
  BY DEF I!Effects, Sec, I!None, None
<1>2. ASSUME NEW c, DOMAIN c = CallFields
      PROVE  /\ DOMAIN kept(c) = CallFields /\ kept(c).what = c.what /\ kept(c).base = c.base /\ kept(c).made = c.made
             /\ kept(c).item = c.item \/ (c.item = "arm" /\ moved)
  BY <1>2 DEF I!Timeless, I!Unmounted, CallFields
<1>3. ASSUME NEW l, NEW x
      PROVE  DOMAIN I!Call(l, x) = CallFields /\ I!Call(l, x).what = l /\ I!Call(l, x).item = x
  BY DEF I!Call, CallFields
<1>4. left \subseteq {"triggers", "usage", "profile"}
      /\ asked \subseteq {"team", "triggers", "usage", "profile", "connections"}
  BY DEF I!Polled
<1>5. /\ p.open /\ ~pane.open => "profile" \in asked
      /\ p.open /\ pane.open => "profile" \notin left
      /\ Sec(p) = "usage" /\ (moved \/ "usage" \in again) => "usage" \in asked
      /\ Sec(p) = "usage" /\ ~moved /\ "usage" \notin again => "usage" \notin left /\ "usage" \notin asked
  BY DEF I!Polled
<1>6. /\ Sec(p) = "usage" /\ pane'.loadingUsage => "usage" \in asked \/ p.loadingUsage
      /\ pane'.loading => "profile" \in asked \/ p.loading
  BY <1>1 DEF InspectorShape, InspectorFields
<1> HIDE DEF left, asked, again, kept
<1>7. ASSUME NEW c \in cs, c.what \notin left PROVE kept(c) \in calls'
  BY <1>1, <1>7 DEF I!Asked
<1>8. ASSUME NEW l \in asked PROVE kept(I!Call(l, I!None)) \in calls'
  BY <1>1 DEF I!Asked
<1>9. ASSUME NEW d \in calls'
      PROVE  \/ \E c \in cs : d = kept(c)
             \/ \E l \in asked : d = kept(I!Call(l, I!None))
  BY <1>1 DEF I!Asked
<1>10. ASSUME NEW c \in cs PROVE DOMAIN c = CallFields
  BY DEF InspectorCalls
<1>11. InspectorCalls(calls')
  <2> SUFFICES ASSUME NEW d \in calls'
               PROVE  /\ DOMAIN d = CallFields
                      /\ d.what \in I!Saves => d.base = d.made[1] /\ d.item \in I!Versioned
    BY DEF InspectorCalls
  <2>1. ASSUME NEW c \in cs, d = kept(c)
        PROVE  /\ DOMAIN d = CallFields
               /\ d.what \in I!Saves => d.base = d.made[1] /\ d.item \in I!Versioned
    <3>1. "arm" \notin I!Versioned
      BY PaneNames DEF I!Versioned, Names
    <3>2. c.what \in I!Saves => c.base = c.made[1] /\ c.item \in I!Versioned
      BY DEF InspectorCalls
    <3>3. QED BY <1>2, <1>10, <2>1, <3>1, <3>2
  <2>2. ASSUME NEW l \in asked, d = kept(I!Call(l, I!None))
        PROVE  DOMAIN d = CallFields /\ d.what \notin I!Saves
    BY <1>2, <1>3, <1>4, <2>2 DEF I!Saves
  <2>3. QED BY <1>9, <2>1, <2>2
<1>12. SavesProfile(cs) => SavesProfile(calls')
  BY <1>2, <1>4, <1>7, <1>10 DEF SavesProfile
<1>13. SavesConfig(cs) => SavesConfig(calls')
  BY <1>2, <1>4, <1>7, <1>10 DEF SavesConfig, I!Configures
<1>14. SavesRole(cs) => SavesRole(calls')
  BY <1>2, <1>4, <1>7, <1>10 DEF SavesRole
<1>15. Arms(cs) /\ Sec(p) = Sec(pane) => Arms(calls')
  BY <1>2, <1>4, <1>7, <1>10 DEF Arms
<1>16. ASSUME p.open, pane'.loading, pane.open /\ p.loading => ReadsProfile(cs)
       PROVE  ReadsProfile(calls')
  <2>1. "profile" \in asked => ReadsProfile(calls')
    BY <1>2, <1>3, <1>8 DEF ReadsProfile
  <2>2. "profile" \notin left /\ ReadsProfile(cs) => ReadsProfile(calls')
    BY <1>2, <1>7, <1>10 DEF ReadsProfile
  <2>3. QED BY <1>5, <1>6, <1>16, <2>1, <2>2
<1>17. ASSUME Sec(p) = "usage", pane'.loadingUsage,
              Sec(pane) = "usage" /\ p.loadingUsage => ReadsUsage(cs)
       PROVE  ReadsUsage(calls')
  <2>1. "usage" \in asked => ReadsUsage(calls')
    BY <1>2, <1>3, <1>8 DEF ReadsUsage
  <2>2. CASE "usage" \notin asked
    <3>1. ~moved /\ "usage" \notin left /\ p.loadingUsage
      BY <1>5, <1>6, <1>17, <2>2
    <3>2. ReadsUsage(cs)
      BY <1>17, <3>1
    <3>3. QED BY <1>2, <1>4, <1>7, <1>10, <3>1, <3>2 DEF ReadsUsage
  <2>3. QED BY <2>1, <2>2
<1>18. QED BY <1>11, <1>12, <1>13, <1>14, <1>15, <1>16, <1>17

LEMMA EffectsKeep ==
  ASSUME NEW p, NEW cs, I!Effects(p, cs), InspectorShape(p), InspectorCalls(cs), Answered(p, cs)
  PROVE  InspectorShape(pane)' /\ InspectorCalls(calls)' /\ InspectorBusy'
<1> DEFINE section(q) == IF q.open THEN q.section ELSE I!None
<1>1. \E loading, loadingUsage, config :
         pane' = [p EXCEPT !.loading = loading, !.loadingUsage = loadingUsage,
                           !.arming = @ /\ section(p) = "triggers", !.config = config]
  BY DEF I!Effects
<1>2. /\ InspectorShape(pane')
      /\ pane'.savingProfile = p.savingProfile /\ pane'.savingConfig = p.savingConfig
      /\ pane'.savingRole = p.savingRole /\ pane'.open = p.open /\ pane'.section = p.section
      /\ pane'.arming = (p.arming /\ Sec(p) = "triggers")
  BY <1>1 DEF InspectorShape, InspectorFields, Sec, None, I!None
<1>3. Sec(pane') = Sec(p)
  BY <1>2 DEF Sec
<1>4. pane'.savingProfile => SavesProfile(calls')
  BY <1>2, EffectsOnCalls DEF Answered
<1>5. pane'.savingConfig => SavesConfig(calls')
  BY <1>2, EffectsOnCalls DEF Answered
<1>6. pane'.savingRole => SavesRole(calls')
  BY <1>2, EffectsOnCalls DEF Answered
<1>7. pane'.arming => Sec(pane') = "triggers" /\ Arms(calls')
  BY <1>2, <1>3, EffectsOnCalls DEF Answered
<1>8. pane'.open /\ pane'.loading => ReadsProfile(calls')
  BY <1>2, EffectsOnCalls DEF Answered
<1>9. Sec(pane') = "usage" /\ pane'.loadingUsage => ReadsUsage(calls')
  BY <1>3, EffectsOnCalls DEF Answered
<1>10. InspectorBusy'
  BY <1>4, <1>5, <1>6, <1>7, <1>8, <1>9
     DEF InspectorBusy, Answered, SavesProfile, SavesConfig, SavesRole, Arms, ReadsProfile, ReadsUsage, Sec
<1>11. InspectorCalls(calls)'
  BY EffectsOnCalls DEF InspectorCalls
<1>12. InspectorShape(pane)'
  BY <1>2 DEF InspectorShape
<1>13. QED BY <1>10, <1>11, <1>12

(* What the owner does to the page changes no save and asks for what it shows. *)
Calmer(p) ==
  /\ p.savingProfile => pane.savingProfile
  /\ p.savingConfig => pane.savingConfig
  /\ p.savingRole => pane.savingRole
  /\ p.arming => pane.arming
  /\ p.loading => pane.loading
  /\ p.loadingUsage => pane.loadingUsage

LEMMA CalmerAnswered ==
  ASSUME InspectorBusy, NEW p, Calmer(p)
  PROVE  Answered(p, calls)
BY DEF InspectorBusy, Answered, Calmer, Sec

LEMMA InspectorActs ==
  ASSUME InspectorInv,
         \/ I!Hear \/ I!openInspector \/ I!setConfigOpen \/ I!setConfigSection \/ I!select
         \/ I!editConfig \/ I!editProfile \/ I!startMembership \/ I!editMembership \/ I!setMembershipDraft
  PROVE  InspectorShape(pane)' /\ InspectorCalls(calls)' /\ InspectorBusy'
<1>1. InspectorShape(pane) /\ InspectorCalls(calls) /\ InspectorBusy
  BY DEF InspectorInv
<1>2. ASSUME NEW p, InspectorShape(p), Calmer(p), I!Effects(p, calls)
      PROVE  InspectorShape(pane)' /\ InspectorCalls(calls)' /\ InspectorBusy'
  BY <1>1, <1>2, CalmerAnswered, EffectsKeep
<1>3. CASE I!Hear
  <2>1. \E n : I!Effects([pane EXCEPT !.agent = n], calls)
    BY <1>3 DEF I!Hear
  <2>2. ASSUME NEW n PROVE InspectorShape([pane EXCEPT !.agent = n]) /\ Calmer([pane EXCEPT !.agent = n])
    BY <1>1 DEF InspectorShape, InspectorFields, Calmer
  <2>3. QED BY <1>2, <2>1, <2>2
<1>4. CASE I!openInspector \/ I!setConfigOpen \/ I!setConfigSection
  <2>1. \E open, section : I!Effects([pane EXCEPT !.open = open, !.section = section], calls)
    <3>1. CASE I!openInspector
      BY <3>1 DEF I!openInspector, I!Does
    <3>2. CASE I!setConfigOpen
      <4>1. [pane EXCEPT !.open = FALSE] = [pane EXCEPT !.open = FALSE, !.section = pane.section]
        BY <1>1 DEF InspectorShape, InspectorFields
      <4>2. I!Effects([pane EXCEPT !.open = FALSE], calls)
        BY <3>2 DEF I!setConfigOpen, I!Does
      <4>3. QED BY <4>1, <4>2
    <3>3. CASE I!setConfigSection
      <4>1. PICK s : I!Effects([pane EXCEPT !.section = s], calls)
        BY <3>3 DEF I!setConfigSection, I!Does
      <4>2. [pane EXCEPT !.section = s] = [pane EXCEPT !.open = pane.open, !.section = s]
        BY <1>1 DEF InspectorShape, InspectorFields
      <4>3. QED BY <4>1, <4>2
    <3>4. QED BY <1>4, <3>1, <3>2, <3>3
  <2>2. ASSUME NEW open, NEW section
        PROVE  /\ InspectorShape([pane EXCEPT !.open = open, !.section = section])
               /\ Calmer([pane EXCEPT !.open = open, !.section = section])
    BY <1>1 DEF InspectorShape, InspectorFields, Calmer
  <2>3. QED BY <1>2, <2>1, <2>2
<1>5. CASE I!editConfig \/ I!editProfile
  <2>1. \/ I!Effects([pane EXCEPT !.config.edited = TRUE], calls)
        \/ I!Effects([pane EXCEPT !.text.edited = TRUE], calls)
    BY <1>5 DEF I!editConfig, I!editProfile, I!Does
  <2>2. InspectorShape([pane EXCEPT !.config.edited = TRUE]) /\ InspectorShape([pane EXCEPT !.text.edited = TRUE])
    BY <1>1 DEF InspectorShape, InspectorFields
  <2>3. Calmer([pane EXCEPT !.config.edited = TRUE]) /\ Calmer([pane EXCEPT !.text.edited = TRUE])
    BY <1>1 DEF InspectorShape, InspectorFields, Calmer
  <2>4. QED BY <1>2, <2>1, <2>2, <2>3
<1>6. CASE I!startMembership \/ I!editMembership \/ I!setMembershipDraft
  <2>1. \E draft : /\ draft # I!NoDraft => draft.thing \in Things
                   /\ I!Effects([pane EXCEPT !.draft = draft], calls)
    <3>1. CASE I!startMembership \/ I!editMembership
      <4>1. PICK x \in Things : \E v : I!Effects([pane EXCEPT !.draft = I!Draft(x, v)], calls)
        BY <3>1 DEF I!startMembership, I!editMembership, I!Does
      <4>2. \A v : I!Draft(x, v).thing = x
        BY DEF I!Draft
      <4>3. QED BY <4>1, <4>2
    <3>2. CASE I!setMembershipDraft
      BY <3>2 DEF I!setMembershipDraft, I!Does
    <3>3. QED BY <1>6, <3>1, <3>2
  <2>2. ASSUME NEW draft, draft # I!NoDraft => draft.thing \in Things
        PROVE  InspectorShape([pane EXCEPT !.draft = draft]) /\ Calmer([pane EXCEPT !.draft = draft])
    BY <1>1, <2>2 DEF InspectorShape, InspectorFields, Calmer
  <2>3. QED BY <1>2, <2>1, <2>2
<1>7. CASE I!select
  <2>1. PICK x \in Things :
          \E v : I!Effects([pane EXCEPT !.open = TRUE, !.section = "external", !.draft = I!Draft(x, v)], calls)
    BY <1>7 DEF I!select, I!Does
  <2> PICK v : I!Effects([pane EXCEPT !.open = TRUE, !.section = "external", !.draft = I!Draft(x, v)], calls)
    BY <2>1
  <2>2. InspectorShape([pane EXCEPT !.open = TRUE, !.section = "external", !.draft = I!Draft(x, v)])
    BY <1>1 DEF InspectorShape, InspectorFields, I!Draft
  <2>3. Calmer([pane EXCEPT !.open = TRUE, !.section = "external", !.draft = I!Draft(x, v)])
    BY <1>1 DEF InspectorShape, InspectorFields, Calmer
  <2>4. QED BY <1>2, <2>1, <2>2, <2>3
<1>8. QED BY <1>3, <1>4, <1>5, <1>6, <1>7

(* A command is under way once it is begun.                                    *)
LEMMA InspectorBegins ==
  ASSUME InspectorInv,
         \/ I!saveConfig \/ I!saveProfile \/ I!saveMembership \/ I!toggleMembership
         \/ I!submit \/ I!act \/ I!onRefresh
  PROVE  InspectorShape(pane)' /\ InspectorCalls(calls)' /\ InspectorBusy'
<1>1. InspectorShape(pane) /\ InspectorCalls(calls) /\ InspectorBusy
  BY DEF InspectorInv
<1> DEFINE call(what, item, base, made) == I!Timeless([I!Call(what, item) EXCEPT !.base = base, !.made = made])
<1>2. ASSUME NEW p, NEW what, NEW item, NEW base, NEW made, I!Begins(p, what, item, base, made)
      PROVE  pane' = p /\ calls' = calls \cup {call(what, item, base, made)}
  BY <1>2 DEF I!Begins
<1>3. ASSUME NEW what, NEW item, NEW base, NEW made
      PROVE  LET c == call(what, item, base, made)
             IN DOMAIN c = CallFields /\ c.what = what /\ c.item = item /\ c.base = base /\ c.made = made
  BY DEF I!Timeless, I!Call, CallFields
<1> HIDE DEF call
<1>4. ASSUME NEW c, calls' = calls \cup {c}
      PROVE  /\ SavesProfile(calls) \/ c.what = "save-profile" => SavesProfile(calls')
             /\ SavesConfig(calls) \/ c.what \in I!Configures => SavesConfig(calls')
             /\ SavesRole(calls) \/ c.what \in {"save", "toggle"} => SavesRole(calls')
             /\ Arms(calls) \/ (c.what = "trigger" /\ c.item = "arm") => Arms(calls')
             /\ ReadsProfile(calls) => ReadsProfile(calls')
             /\ ReadsUsage(calls) \/ (c.what = "refresh" /\ c.item = "usage") => ReadsUsage(calls')
             /\ DOMAIN c = CallFields /\ (c.what \in I!Saves => c.base = c.made[1] /\ c.item \in I!Versioned)
                  => InspectorCalls(calls')
  BY <1>1, <1>4 DEF SavesProfile, SavesConfig, SavesRole, Arms, ReadsProfile, ReadsUsage, InspectorCalls
<1>5. ASSUME NEW p, NEW c, pane' = p, calls' = calls \cup {c},
             InspectorShape(p), p.open = pane.open, p.section = pane.section, p.loading => pane.loading,
             p.savingProfile => pane.savingProfile \/ c.what = "save-profile",
             p.savingConfig => pane.savingConfig \/ c.what \in I!Configures,
             p.savingRole => pane.savingRole \/ c.what \in {"save", "toggle"},
             p.arming => pane.arming \/ (Sec(pane) = "triggers" /\ c.what = "trigger" /\ c.item = "arm"),
             p.loadingUsage => pane.loadingUsage \/ (c.what = "refresh" /\ c.item = "usage"),
             DOMAIN c = CallFields /\ (c.what \in I!Saves => c.base = c.made[1] /\ c.item \in I!Versioned)
      PROVE  InspectorShape(pane)' /\ InspectorCalls(calls)' /\ InspectorBusy'
  <2>1. InspectorShape(pane)'
    BY <1>5 DEF InspectorShape
  <2>2. InspectorCalls(calls')
    BY <1>4, <1>5
  <2>3. InspectorCalls(calls)'
    BY <2>2 DEF InspectorCalls
  <2>4. Sec(pane') = Sec(pane)
    BY <1>5 DEF Sec
  <2>5. /\ pane'.savingProfile => SavesProfile(calls')
        /\ pane'.savingConfig => SavesConfig(calls')
        /\ pane'.savingRole => SavesRole(calls')
    BY <1>1, <1>4, <1>5 DEF InspectorBusy, Answered
  <2>6. pane'.arming => Sec(pane') = "triggers" /\ Arms(calls')
    BY <1>1, <1>4, <1>5, <2>4 DEF InspectorBusy, Answered
  <2>7. pane'.open /\ pane'.loading => ReadsProfile(calls')
    BY <1>1, <1>4, <1>5 DEF InspectorBusy, Answered
  <2>8. Sec(pane') = "usage" /\ pane'.loadingUsage => ReadsUsage(calls')
    BY <1>1, <1>4, <1>5, <2>4 DEF InspectorBusy, Answered
  <2>9. InspectorBusy'
    BY <2>5, <2>6, <2>7, <2>8
       DEF InspectorBusy, Answered, SavesProfile, SavesConfig, SavesRole, Arms, ReadsProfile, ReadsUsage, Sec
  <2>10. QED BY <2>1, <2>3, <2>9
<1>6. DOMAIN pane = InspectorFields /\ InspectorShape(pane)
  BY <1>1 DEF InspectorShape
<1>7. CASE I!saveConfig
  <2> DEFINE p == [pane EXCEPT !.savingConfig = TRUE]
  <2>1. PICK what \in I!Configures : \E base, made : I!Begins(p, what, I!None, base, made)
    BY <1>7 DEF I!saveConfig, I!Configures
  <2> PICK base : \E made : I!Begins(p, what, I!None, base, made)
    BY <2>1
  <2>2. PICK made : I!Begins(p, what, I!None, base, made)
    OBVIOUS
  <2>3. /\ InspectorShape(p) /\ p.open = pane.open /\ p.section = pane.section /\ p.loading = pane.loading
        /\ p.savingProfile = pane.savingProfile /\ p.savingRole = pane.savingRole /\ p.arming = pane.arming
        /\ p.loadingUsage = pane.loadingUsage
    BY <1>6 DEF InspectorShape, InspectorFields
  <2> HIDE DEF p
  <2>4. what \notin I!Saves
    BY DEF I!Configures, I!Saves
  <2>5. QED BY <1>2, <1>3, <1>5, <2>2, <2>3, <2>4
<1>8. ASSUME NEW what \in I!Saves, NEW item \in I!Versioned, NEW base, NEW made, NEW p, base = made[1],
             I!Begins(p, what, item, base, made),
             what = "save-profile" => p = [pane EXCEPT !.savingProfile = TRUE],
             what # "save-profile" => p = [pane EXCEPT !.savingRole = TRUE]
      PROVE  InspectorShape(pane)' /\ InspectorCalls(calls)' /\ InspectorBusy'
  <2>1. /\ InspectorShape(p) /\ p.open = pane.open /\ p.section = pane.section /\ p.loading = pane.loading
        /\ p.savingConfig = pane.savingConfig /\ p.arming = pane.arming /\ p.loadingUsage = pane.loadingUsage
    BY <1>6, <1>8 DEF InspectorShape, InspectorFields
  <2>2. /\ p.savingProfile => pane.savingProfile \/ what = "save-profile"
        /\ p.savingRole => pane.savingRole \/ what \in {"save", "toggle"}
    <3>1. CASE what = "save-profile"
      BY <1>6, <1>8, <3>1 DEF InspectorFields
    <3>2. CASE what # "save-profile"
      <4>1. what \in {"save", "toggle"} /\ p = [pane EXCEPT !.savingRole = TRUE]
        BY <1>8, <3>2 DEF I!Saves
      <4>2. QED BY <1>6, <4>1 DEF InspectorFields
    <3>3. QED BY <3>1, <3>2
  <2>3. QED BY <1>2, <1>3, <1>5, <1>8, <2>1, <2>2
<1>9. CASE I!saveProfile
  <2>1. I!Begins([pane EXCEPT !.savingProfile = TRUE], "save-profile", "profile", pane.text.base, <<pane.profile>>)
    BY <1>9 DEF I!saveProfile
  <2>2. pane.text.base = <<pane.profile>>[1]
    BY <1>6 DEF InspectorShape
  <2>3. QED BY <1>8, <2>1, <2>2 DEF I!Saves, I!Versioned
<1>10. CASE I!saveMembership
  <2>1. I!Begins([pane EXCEPT !.savingRole = TRUE], "save", pane.draft.thing, pane.draft.version, <<pane.draft.version>>)
    BY <1>10 DEF I!saveMembership
  <2>2. pane.draft.thing \in I!Versioned
    BY <1>6, <1>10 DEF I!saveMembership, InspectorShape, I!Versioned
  <2>3. QED BY <1>8, <2>1, <2>2 DEF I!Saves
<1>11. CASE I!toggleMembership
  <2>1. PICK x \in Things : I!Begins([pane EXCEPT !.savingRole = TRUE], "toggle", x, pane.roles[x], <<pane.roles[x]>>)
    BY <1>11 DEF I!toggleMembership
  <2>2. x \in I!Versioned
    BY DEF I!Versioned
  <2>3. QED BY <1>8, <2>1, <2>2 DEF I!Saves
<1>12. CASE I!submit
  <2> DEFINE p == [pane EXCEPT !.arming = TRUE]
  <2>1. I!Begins(p, "trigger", "arm", 0, <<>>) /\ Sec(pane) = "triggers"
    BY <1>12 DEF I!submit, I!In, Sec
  <2>2. /\ InspectorShape(p) /\ p.open = pane.open /\ p.section = pane.section /\ p.loading = pane.loading
        /\ p.savingProfile = pane.savingProfile /\ p.savingRole = pane.savingRole
        /\ p.savingConfig = pane.savingConfig /\ p.loadingUsage = pane.loadingUsage
    BY <1>6 DEF InspectorShape, InspectorFields
  <2> HIDE DEF p
  <2>3. QED BY <1>2, <1>3, <1>5, <2>1, <2>2 DEF I!Saves
<1>13. CASE I!act
  <2>1. I!Begins(pane, "trigger", "act", 0, <<>>)
    BY <1>13 DEF I!act
  <2>2. QED BY <1>2, <1>3, <1>5, <1>6, <2>1 DEF I!Saves
<1>14. CASE I!onRefresh
  <2> DEFINE p == [pane EXCEPT !.loadingUsage = TRUE]
             c == call("refresh", "usage", 0, <<>>)
  <2>1. pane' = p /\ calls' = calls \cup {c}
    BY <1>2, <1>14 DEF I!onRefresh
  <2>2. /\ InspectorShape(p) /\ p.open = pane.open /\ p.section = pane.section /\ p.loading = pane.loading
        /\ p.savingProfile = pane.savingProfile /\ p.savingRole = pane.savingRole
        /\ p.savingConfig = pane.savingConfig /\ p.arming = pane.arming
    BY <1>6 DEF InspectorShape, InspectorFields
  <2>3. DOMAIN c = CallFields /\ c.what = "refresh" /\ c.item = "usage"
    BY <1>3
  <2> HIDE DEF p, c
  <2>4. c.what \notin I!Saves
    BY <2>3 DEF I!Saves
  <2>5. QED BY <1>5, <2>1, <2>2, <2>3, <2>4
<1>15. QED BY <1>7, <1>9, <1>10, <1>11, <1>12, <1>13, <1>14

(* The answer to a call ends what waited for it.                               *)
LEMMA AnsweredWithout ==
  ASSUME InspectorBusy, NEW c \in calls, NEW cs, calls \ {c} \subseteq cs, NEW p, Calmer(p),
         p.savingProfile => c.what # "save-profile" \/ SavesProfile(cs),
         p.savingConfig => c.what \notin I!Configures \/ SavesConfig(cs),
         p.savingRole => \/ c.what \notin {"save", "toggle"} /\ (c.what = "connections" => c.item \notin {"save", "toggle"})
                         \/ SavesRole(cs),
         p.arming => (c.what \in {"trigger", "refresh"} => c.item # "arm") \/ Arms(cs),
         p.open /\ p.loading => c.what # "profile",
         p.loadingUsage => c.what # "usage" /\ (c.what = "refresh" => c.item # "usage")
  PROVE  Answered(p, cs)
<1>1. /\ SavesProfile(calls) /\ c.what # "save-profile" => SavesProfile(cs)
      /\ SavesConfig(calls) /\ c.what \notin I!Configures => SavesConfig(cs)
      /\ ReadsProfile(calls) /\ c.what # "profile" => ReadsProfile(cs)
  BY DEF SavesProfile, SavesConfig, ReadsProfile
<1>2. /\ SavesRole(calls) /\ c.what \notin {"save", "toggle"} /\ (c.what = "connections" => c.item \notin {"save", "toggle"})
         => SavesRole(cs)
      /\ Arms(calls) /\ (c.what \in {"trigger", "refresh"} => c.item # "arm") => Arms(cs)
      /\ ReadsUsage(calls) /\ c.what # "usage" /\ (c.what = "refresh" => c.item # "usage") => ReadsUsage(cs)
  BY DEF SavesRole, Arms, ReadsUsage
<1>3. /\ pane.savingProfile => SavesProfile(calls)
      /\ pane.savingConfig => SavesConfig(calls)
      /\ pane.savingRole => SavesRole(calls)
      /\ pane.arming => Sec(pane) = "triggers" /\ Arms(calls)
      /\ pane.open /\ pane.loading => ReadsProfile(calls)
      /\ Sec(pane) = "usage" /\ pane.loadingUsage => ReadsUsage(calls)
  BY DEF InspectorBusy, Answered
<1>4. QED BY <1>1, <1>2, <1>3 DEF Answered, Calmer

LEMMA InspectorAnswers ==
  ASSUME InspectorInv, NEW c \in calls,
         \/ I!ProfileAnswered(c) \/ I!refreshConnections(c) \/ I!SectionAnswered(c) \/ I!Unread(c)
         \/ I!HubServes(c) \/ I!Configured(c) \/ I!ProfileSaved(c) \/ I!RoleSaved(c) \/ I!TriggerDone(c) \/ I!Refused(c)
  PROVE  InspectorShape(pane)' /\ InspectorCalls(calls)' /\ InspectorBusy'
<1>1. InspectorShape(pane) /\ InspectorCalls(calls) /\ InspectorBusy
  BY DEF InspectorInv
<1>2. DOMAIN pane = InspectorFields
  BY <1>1 DEF InspectorShape
<1>3. /\ DOMAIN c = CallFields
      /\ c.what \in I!Saves => c.base = c.made[1] /\ c.item \in I!Versioned
  BY <1>1 DEF InspectorCalls
<1>4. InspectorCalls(calls \ {c})
  BY <1>1 DEF InspectorCalls
<1>5. ASSUME NEW d, DOMAIN d = CallFields, d.what \in I!Saves => d.base = d.made[1] /\ d.item \in I!Versioned
      PROVE  InspectorCalls((calls \ {c}) \cup {d})
  BY <1>4, <1>5 DEF InspectorCalls
<1>6. ASSUME InspectorShape(pane'), pane'.open = pane.open, pane'.section = pane.section,
             InspectorCalls(calls'), Answered(pane', calls')
      PROVE  InspectorShape(pane)' /\ InspectorCalls(calls)' /\ InspectorBusy'
  <2>1. InspectorShape(pane)' /\ InspectorCalls(calls)'
    BY <1>6 DEF InspectorShape, InspectorCalls
  <2>2. Sec(pane') = Sec(pane)
    BY <1>6 DEF Sec
  <2>3. InspectorBusy'
    BY <1>6, <2>2 DEF InspectorBusy, Answered, SavesProfile, SavesConfig, SavesRole, Arms, ReadsProfile, ReadsUsage, Sec
  <2>4. QED BY <2>1, <2>3
<1>7. CASE I!ProfileAnswered(c)
  <2>1. PICK v : pane' = [pane EXCEPT !.profile = v, !.text = I!Unedited(v), !.loading = FALSE]
    <3>1. PICK v : pane' = [I!ProfileRead(pane, v) EXCEPT !.loading = FALSE]
      BY <1>7 DEF I!ProfileAnswered
    <3>2. QED BY <3>1 DEF I!ProfileRead
  <2>2. /\ InspectorShape(pane') /\ Calmer(pane') /\ pane'.open = pane.open /\ pane'.section = pane.section
        /\ pane'.loading = FALSE
    BY <1>1, <1>2, <2>1 DEF InspectorShape, InspectorFields, I!Unedited, Calmer
  <2>3. calls' = calls \ {c} /\ c.what = "profile"
    BY <1>7 DEF I!ProfileAnswered
  <2>4. Answered(pane', calls')
    BY <1>1, <2>2, <2>3, AnsweredWithout DEF I!Configures
  <2>5. QED BY <1>4, <1>6, <2>2, <2>3, <2>4
<1>8. CASE I!refreshConnections(c)
  <2>1. PICK roles, draft :
          /\ pane' = [pane EXCEPT !.roles = roles, !.savingRole = @ /\ c.item = None, !.draft = draft]
          /\ draft = I!NoDraft \/ draft = pane.draft
    BY <1>2, <1>8 DEF I!refreshConnections, InspectorFields, I!None, None
  <2>2. /\ InspectorShape(pane') /\ Calmer(pane') /\ pane'.open = pane.open /\ pane'.section = pane.section
        /\ pane'.savingRole => c.item = None
    BY <1>1, <1>2, <2>1 DEF InspectorShape, InspectorFields, Calmer
  <2>3. calls' = calls \ {c} /\ c.what = "connections"
    BY <1>8 DEF I!refreshConnections
  <2>4. Answered(pane', calls')
    BY <1>1, <2>2, <2>3, AnsweredWithout DEF I!Configures, None
  <2>5. QED BY <1>4, <1>6, <2>2, <2>3, <2>4
<1>9. CASE I!SectionAnswered(c)
  <2>1. pane' = [pane EXCEPT !.loadingUsage = @ /\ c.what # "usage" /\ c.item # "usage", !.arming = @ /\ c.item # "arm"]
    BY <1>9 DEF I!SectionAnswered
  <2>2. /\ InspectorShape(pane') /\ Calmer(pane') /\ pane'.open = pane.open /\ pane'.section = pane.section
        /\ pane'.loadingUsage => c.what # "usage" /\ c.item # "usage"
        /\ pane'.arming => c.item # "arm"
    BY <1>1, <1>2, <2>1 DEF InspectorShape, InspectorFields, Calmer
  <2>3. calls' = calls \ {c} /\ c.what \in {"team", "triggers", "usage", "refresh"}
    BY <1>9 DEF I!SectionAnswered
  <2>4. Answered(pane', calls')
    BY <1>1, <2>2, <2>3, AnsweredWithout DEF I!Configures
  <2>5. QED BY <1>4, <1>6, <2>2, <2>3, <2>4
<1>10. CASE I!Unread(c)
  <2>1. pane' = [pane EXCEPT !.loading = @ /\ c.what # "profile",
                             !.savingRole = @ /\ (c.what # "connections" \/ c.item = None)]
    BY <1>10 DEF I!Unread, I!None, None
  <2>2. /\ InspectorShape(pane') /\ Calmer(pane') /\ pane'.open = pane.open /\ pane'.section = pane.section
        /\ pane'.loading => c.what # "profile"
        /\ pane'.savingRole => c.what # "connections" \/ c.item = None
    BY <1>1, <1>2, <2>1 DEF InspectorShape, InspectorFields, Calmer
  <2>3. calls' = calls \ {c} /\ c.what \in {"profile", "connections"}
    BY <1>10 DEF I!Unread
  <2>4. Answered(pane', calls')
    BY <1>1, <2>2, <2>3, AnsweredWithout DEF I!Configures, None
  <2>5. QED BY <1>4, <1>6, <2>2, <2>3, <2>4
<1>11. CASE I!HubServes(c)
  <2>1. PICK n : calls' = (calls \ {c}) \cup {[c EXCEPT !.done = TRUE, !.asked = n]}
    BY <1>11 DEF I!HubServes
  <2> DEFINE d == [c EXCEPT !.done = TRUE, !.asked = n]
  <2>2. DOMAIN d = CallFields /\ d.what = c.what /\ d.item = c.item /\ d.base = c.base /\ d.made = c.made
    BY <1>3 DEF CallFields
  <2>3. pane' = pane
    BY <1>11 DEF I!HubServes
  <2> HIDE DEF d
  <2>4. InspectorCalls(calls')
    BY <1>3, <1>5, <2>1, <2>2 DEF d
  <2>5. \A a \in calls : \E b \in calls' : b.what = a.what /\ b.item = a.item
    <3>1. d \in calls'
      BY <2>1 DEF d
    <3>2. QED BY <2>1, <2>2, <3>1
  <2>6. Answered(pane, calls')
    BY <1>1, <2>5 DEF InspectorBusy, Answered, SavesProfile, SavesConfig, SavesRole, Arms, ReadsProfile, ReadsUsage
  <2>7. QED BY <1>1, <1>6, <2>3, <2>4, <2>6
<1>12. CASE I!Configured(c)
  <2> DEFINE n == I!AgentSince(c.asked)
             p == [pane EXCEPT !.agent = n]
             q == [[pane EXCEPT !.agent = n] EXCEPT !.open = FALSE, !.savingConfig = FALSE]
             d == [c EXCEPT !.what = "config", !.done = FALSE]
  <2>1. \/ c.what = "provider" /\ I!Effects(p, (calls \ {c}) \cup {d})
        \/ c.what = "config" /\ I!Effects(q, calls \ {c})
    BY <1>12 DEF I!Configured, I!Configures, I!updateAgent
  <2>2. InspectorShape(p) /\ Calmer(p) /\ p.open = pane.open
    BY <1>1, <1>2 DEF InspectorShape, InspectorFields, Calmer
  <2>3. InspectorShape(q) /\ Calmer(q) /\ q.open = FALSE /\ q.savingConfig = FALSE
    BY <1>1, <1>2 DEF InspectorShape, InspectorFields, Calmer
  <2>4. DOMAIN d = CallFields /\ d.what = "config"
    BY <1>3 DEF CallFields
  <2> HIDE DEF n, p, q, d
  <2>5. CASE c.what = "provider" /\ I!Effects(p, (calls \ {c}) \cup {d})
    <3> DEFINE cs == (calls \ {c}) \cup {d}
    <3>1. InspectorCalls(cs) /\ SavesConfig(cs)
      BY <1>5, <2>4 DEF I!Saves, SavesConfig, I!Configures
    <3>2. calls \ {c} \subseteq cs
      OBVIOUS
    <3> HIDE DEF cs
    <3>3. Answered(p, cs)
      BY <1>1, <2>2, <2>5, <3>1, <3>2, AnsweredWithout
    <3>4. QED BY <2>2, <2>5, <3>1, <3>3, EffectsKeep DEF cs
  <2>6. CASE c.what = "config" /\ I!Effects(q, calls \ {c})
    <3>1. Answered(q, calls \ {c})
      BY <1>1, <2>3, <2>6, AnsweredWithout
    <3>2. QED BY <1>4, <2>3, <2>6, <3>1, EffectsKeep
  <2>7. QED BY <2>1, <2>5, <2>6
<1>13. CASE I!ProfileSaved(c)
  <2>1. PICK v : pane' = [pane EXCEPT !.profile = v, !.text = I!Unedited(v), !.savingProfile = FALSE]
    <3>1. PICK v : pane' = [I!ProfileRead(pane, v) EXCEPT !.savingProfile = FALSE]
      BY <1>13 DEF I!ProfileSaved
    <3>2. QED BY <3>1 DEF I!ProfileRead
  <2>2. /\ InspectorShape(pane') /\ Calmer(pane') /\ pane'.open = pane.open /\ pane'.section = pane.section
        /\ pane'.savingProfile = FALSE
    BY <1>1, <1>2, <2>1 DEF InspectorShape, InspectorFields, I!Unedited, Calmer
  <2>3. calls' = calls \ {c} /\ c.what = "save-profile"
    BY <1>13 DEF I!ProfileSaved
  <2>4. Answered(pane', calls')
    BY <1>1, <2>2, <2>3, AnsweredWithout DEF I!Configures
  <2>5. QED BY <1>4, <1>6, <2>2, <2>3, <2>4
<1>14. CASE I!RoleSaved(c)
  <2> DEFINE d == I!Call("connections", c.what)
  <2>1. pane' = pane /\ calls' = (calls \ {c}) \cup {d} /\ c.what \in {"save", "toggle"}
    BY <1>14 DEF I!RoleSaved
  <2>2. DOMAIN d = CallFields /\ d.what = "connections" /\ d.item = c.what
    BY DEF I!Call, CallFields
  <2> HIDE DEF d
  <2>3. InspectorCalls(calls') /\ SavesRole(calls')
    BY <1>5, <2>1, <2>2 DEF I!Saves, SavesRole
  <2>4. calls \ {c} \subseteq calls' /\ Calmer(pane)
    BY <2>1 DEF Calmer
  <2>5. Answered(pane, calls')
    BY <1>1, <2>1, <2>3, <2>4, AnsweredWithout DEF I!Configures
  <2>6. QED BY <1>1, <1>6, <2>1, <2>3, <2>5
<1>15. CASE I!TriggerDone(c)
  <2> DEFINE d == [c EXCEPT !.what = "refresh"]
             p == [pane EXCEPT !.arming = @ /\ c.item # "arm"]
  <2>1. /\ c.what = "trigger"
        /\ \/ calls' = (calls \ {c}) \cup {d} /\ pane' = pane
           \/ calls' = calls \ {c} /\ pane' = p
    BY <1>15 DEF I!TriggerDone
  <2>2. DOMAIN d = CallFields /\ d.what = "refresh" /\ d.item = c.item
    BY <1>3 DEF CallFields
  <2>3. InspectorShape(p) /\ Calmer(p) /\ p.open = pane.open /\ p.section = pane.section /\ (p.arming => c.item # "arm")
    BY <1>1, <1>2 DEF InspectorShape, InspectorFields, Calmer
  <2> HIDE DEF d, p
  <2>4. CASE calls' = (calls \ {c}) \cup {d} /\ pane' = pane
    <3>1. InspectorCalls(calls')
      BY <1>5, <2>2, <2>4 DEF I!Saves
    <3>2. c.item = "arm" => Arms(calls')
      BY <2>2, <2>4 DEF Arms
    <3>3. calls \ {c} \subseteq calls' /\ Calmer(pane)
      BY <2>4 DEF Calmer
    <3>4. Answered(pane, calls')
      BY <1>1, <2>1, <3>2, <3>3, AnsweredWithout DEF I!Configures
    <3>5. QED BY <1>1, <1>6, <2>4, <3>1, <3>4
  <2>5. CASE calls' = calls \ {c} /\ pane' = p
    <3>1. Answered(p, calls')
      BY <1>1, <2>1, <2>3, <2>5, AnsweredWithout DEF I!Configures
    <3>2. QED BY <1>4, <1>6, <2>3, <2>5, <3>1
  <2>6. QED BY <2>1, <2>4, <2>5
<1>16. CASE I!Refused(c)
  <2>1. pane' = [pane EXCEPT !.savingConfig = @ /\ c.what \notin I!Configures, !.savingProfile = @ /\ c.what # "save-profile",
                             !.savingRole = @ /\ c.what \notin {"save", "toggle"}]
    BY <1>16 DEF I!Refused
  <2>2. /\ InspectorShape(pane') /\ Calmer(pane') /\ pane'.open = pane.open /\ pane'.section = pane.section
        /\ pane'.savingConfig => c.what \notin I!Configures
        /\ pane'.savingProfile => c.what # "save-profile"
        /\ pane'.savingRole => c.what \notin {"save", "toggle"}
    BY <1>1, <1>2, <2>1 DEF InspectorShape, InspectorFields, Calmer
  <2>3. calls' = calls \ {c} /\ c.what \notin {"profile", "connections", "usage", "refresh", "trigger"}
    BY <1>16 DEF I!Refused, I!Saves, I!Configures
  <2>4. Answered(pane', calls')
    BY <1>1, <2>2, <2>3, AnsweredWithout
  <2>5. QED BY <1>4, <1>6, <2>2, <2>3, <2>4
<1>17. QED BY <1>7, <1>8, <1>9, <1>10, <1>11, <1>12, <1>13, <1>14, <1>15, <1>16

(* What is written is one version after what it is based on.                   *)
LEMMA InspectorWrites ==
  ASSUME InspectorInv, PastOK', DOMAIN Data' = DOMAIN Data,
         \A k \in I!Versioned : Data'[k] # Data[k] => Data'[k] = I!Wrote(k, Data[k].version)
  PROVE  InspectorData'
<1>1. /\ I!Versioned \cup {"config", "turn", "name"} = DOMAIN Data
      /\ \A k \in I!Versioned : /\ Data[k].version \in Nat
                                /\ Data[k].version > 0 => Data[k].base = Data[k].version - 1
  BY DEF InspectorInv, InspectorData
<1>2. ASSUME NEW k \in I!Versioned
      PROVE  /\ Data'[k].version \in Nat
             /\ Data'[k].version > 0 => Data'[k].base = Data'[k].version - 1
  <2>1. CASE Data'[k] = Data[k]
    BY <1>1, <2>1
  <2>2. CASE Data'[k] = I!Wrote(k, Data[k].version)
    <3>1. Data[k].version \in Nat
      BY <1>1
    <3>2. Data'[k].version = Data[k].version + 1 /\ Data'[k].base = Data[k].version
      BY <2>2 DEF I!Wrote, I!Data, Data
    <3>3. QED BY <3>1, <3>2
  <2>3. QED BY <2>1, <2>2
<1>3. QED BY <1>1, <1>2 DEF InspectorData, I!Versioned

LEMMA InspectorPast ==
  ASSUME InspectorInv, I!InspectorNext
  PROVE  PastOK' /\ InspectorData'
<1>1. /\ PastOK /\ InspectorCalls(calls)
      /\ I!Versioned \cup {"config", "turn", "name"} = DOMAIN Data
  BY DEF InspectorInv, InspectorData
<1>2. "config" \notin I!Versioned /\ "turn" \notin I!Versioned /\ "name" \notin I!Versioned
  BY PaneNames DEF I!Versioned, Names
<1>3. ASSUME UNCHANGED past PROVE PastOK' /\ InspectorData'
  BY <1>3 DEF InspectorInv, PastOK, InspectorData, Data, I!Versioned
<1>4. ASSUME NEW what, NEW thing, NEW known, I!Changed(what, thing, known)
      PROVE  PastOK' /\ Data' = [Data EXCEPT ![thing] = known]
  <2>1. Changed(what, thing, known)
    BY <1>4 DEF I!Changed, I!CanChange, I!Data, Changed, CanChange, Data
  <2>2. QED BY <1>1, <2>1, ChangedPast
<1>5. ASSUME NEW what, NEW k \in I!Versioned, I!Changed(what, k, I!Wrote(k, Data[k].version))
      PROVE  PastOK' /\ InspectorData'
  <2> DEFINE known == I!Wrote(k, Data[k].version)
  <2>1. PastOK' /\ Data' = [Data EXCEPT ![k] = known]
    BY <1>4, <1>5
  <2> HIDE DEF known
  <2>2. DOMAIN Data' = DOMAIN Data /\ \A x \in DOMAIN Data : Data'[x] = IF x = k THEN known ELSE Data[x]
    BY <2>1
  <2>3. \A x \in I!Versioned : Data'[x] # Data[x] => Data'[x] = I!Wrote(x, Data[x].version)
    BY <1>1, <2>2 DEF known
  <2>4. QED BY <2>1, <2>2, <2>3, InspectorWrites
<1>6. ASSUME NEW what, NEW thing \in {"config", "turn"}, NEW known, I!Changed(what, thing, known)
      PROVE  PastOK' /\ InspectorData'
  <2>1. PastOK' /\ Data' = [Data EXCEPT ![thing] = known]
    BY <1>4, <1>6
  <2>2. \A x \in I!Versioned : Data'[x] = Data[x]
    BY <1>1, <1>2, <2>1
  <2>3. QED BY <2>1, <2>2, InspectorWrites
<1>7. CASE I!HubMoves
  <2>1. Data = I!Data
    BY DEF Data, I!Data
  <2>2. \/ \E k \in I!Versioned : I!Changed(k, k, I!Wrote(k, Data[k].version))
        \/ \E thing \in {"config", "turn"} : \E known : I!Changed(thing, thing, known)
    BY <1>7, <2>1 DEF I!HubMoves, I!HubChanges
  <2>3. QED BY <1>5, <1>6, <2>2
<1>8. ASSUME NEW c \in calls, I!HubServes(c) PROVE PastOK' /\ InspectorData'
  <2>1. c.what \in I!Saves => c.base = c.made[1] /\ c.item \in I!Versioned
    BY <1>1 DEF InspectorCalls
  <2>2. Data = I!Data
    BY DEF Data, I!Data
  <2>3. CASE c.what \in I!Saves /\ c.made[1] = Data[c.item].version /\ I!Changed(c.item, c.item, I!Wrote(c.item, c.base))
    BY <1>5, <2>1, <2>3
  <2>4. CASE UNCHANGED past
    BY <1>3, <2>4
  <2>5. ASSUME NEW config, NEW name,
               past' = Append(past, [what |-> "config", data |-> [Data EXCEPT !["config"] = config, !["name"] = name]])
        PROVE  PastOK' /\ InspectorData'
    <3> DEFINE data == [Data EXCEPT !["config"] = config, !["name"] = name]
               e == [what |-> "config", data |-> data]
    <3>1. past' = Append(past, e) /\ e.data = data
      BY <2>5
    <3>2. DOMAIN data = DOMAIN Data /\ \A x \in I!Versioned : data[x] = Data[x]
      BY <1>1, <1>2
    <3>3. PICK X : past \in Seq(X)
      BY <1>1 DEF PastOK
    <3> HIDE DEF e, data
    <3>4. /\ past' \in Seq(X \cup {e}) /\ Len(past') = Len(past) + 1 /\ past'[Len(past')] = e
      BY <3>1, <3>3, Appended
    <3>5. PastOK' /\ Data' = data
      BY <1>1, <3>1, <3>3, <3>4 DEF PastOK, Data
    <3>6. QED BY <3>2, <3>5, InspectorWrites
  <2>6. \/ c.what \in I!Saves /\ c.made[1] = Data[c.item].version /\ I!Changed(c.item, c.item, I!Wrote(c.item, c.base))
        \/ UNCHANGED past
        \/ \E config, name :
             past' = Append(past, [what |-> "config", data |-> [Data EXCEPT !["config"] = config, !["name"] = name]])
    <3>1. ASSUME NEW config, NEW wrote
          PROVE  [Data EXCEPT !["config"] = config, !["name"] = IF wrote THEN @ + 1 ELSE @]
                   = [Data EXCEPT !["config"] = config, !["name"] = IF wrote THEN Data["name"] + 1 ELSE Data["name"]]
      OBVIOUS
    <3>2. QED BY <1>8, <2>2, <3>1 DEF I!HubServes
  <2>7. QED BY <2>3, <2>4, <2>5, <2>6
<1>9. CASE \/ I!Hear \/ I!openInspector \/ I!setConfigOpen \/ I!setConfigSection \/ I!select
           \/ I!editConfig \/ I!editProfile \/ I!startMembership \/ I!editMembership \/ I!setMembershipDraft
  BY <1>3, <1>9 DEF I!Hear, I!openInspector, I!setConfigOpen, I!setConfigSection, I!select, I!editConfig, I!editProfile,
                    I!startMembership, I!editMembership, I!setMembershipDraft, I!Does, I!Idle
<1>10. CASE \/ I!saveConfig \/ I!saveProfile \/ I!saveMembership \/ I!toggleMembership
            \/ I!submit \/ I!act \/ I!onRefresh
  BY <1>3, <1>10 DEF I!saveConfig, I!saveProfile, I!saveMembership, I!toggleMembership, I!submit, I!act, I!onRefresh,
                     I!Begins, I!Idle
<1>11. CASE \E c \in calls : \/ I!ProfileAnswered(c) \/ I!refreshConnections(c) \/ I!SectionAnswered(c) \/ I!Unread(c)
                             \/ I!Configured(c) \/ I!ProfileSaved(c) \/ I!RoleSaved(c) \/ I!TriggerDone(c) \/ I!Refused(c)
  BY <1>3, <1>11 DEF I!ProfileAnswered, I!refreshConnections, I!SectionAnswered, I!Unread, I!Configured, I!ProfileSaved,
                     I!RoleSaved, I!TriggerDone, I!Refused, I!Idle
<1>12. QED BY <1>7, <1>8, <1>9, <1>10, <1>11 DEF I!InspectorNext

LEMMA InspectorKept ==
  ASSUME InspectorInv, I!InspectorNext
  PROVE  InspectorInv'
<1>1. PastOK' /\ InspectorData'
  BY InspectorPast
<1>2. CASE I!HubMoves
  <2>1. UNCHANGED <<pane, calls>>
    BY <1>2 DEF I!HubMoves, I!HubChanges
  <2>2. QED BY <1>1, <2>1
        DEF InspectorInv, InspectorShape, InspectorCalls, InspectorBusy, Answered, SavesProfile, SavesConfig, SavesRole,
            Arms, ReadsProfile, ReadsUsage, Sec
<1>3. CASE \/ I!Hear \/ I!openInspector \/ I!setConfigOpen \/ I!setConfigSection \/ I!select
           \/ I!editConfig \/ I!editProfile \/ I!startMembership \/ I!editMembership \/ I!setMembershipDraft
  BY <1>1, <1>3, InspectorActs DEF InspectorInv
<1>4. CASE \/ I!saveConfig \/ I!saveProfile \/ I!saveMembership \/ I!toggleMembership
           \/ I!submit \/ I!act \/ I!onRefresh
  BY <1>1, <1>4, InspectorBegins DEF InspectorInv
<1>5. CASE \E c \in calls : \/ I!ProfileAnswered(c) \/ I!refreshConnections(c) \/ I!SectionAnswered(c) \/ I!Unread(c)
                            \/ I!HubServes(c) \/ I!Configured(c) \/ I!ProfileSaved(c) \/ I!RoleSaved(c)
                            \/ I!TriggerDone(c) \/ I!Refused(c)
  BY <1>1, <1>5, InspectorAnswers DEF InspectorInv
<1>6. QED BY <1>2, <1>3, <1>4, <1>5 DEF I!InspectorNext

LEMMA InspectorInit ==
  ASSUME I!InspectorInit
  PROVE  InspectorInv
<1>1. PICK old \in {[x \in Things |-> n] : n \in {0, 1}} :
        past = <<[what |-> "start",
                  data |-> [k \in I!Versioned \cup {"config", "turn", "name"} |->
                              CASE k \in Things -> [version |-> old[k], base |-> 0]
                                [] k \in {"profile", "config"} -> [version |-> 1, base |-> 0]
                                [] k = "turn" -> "idle"
                                [] k = "name" -> 1]]>>
  BY DEF I!InspectorInit
<1> DEFINE data == [k \in I!Versioned \cup {"config", "turn", "name"} |->
                      CASE k \in Things -> [version |-> old[k], base |-> 0]
                        [] k \in {"profile", "config"} -> [version |-> 1, base |-> 0]
                        [] k = "turn" -> "idle"
                        [] k = "name" -> 1]
           e == [what |-> "start", data |-> data]
<1>2. \A k \in Things : data[k] = [version |-> old[k], base |-> 0]
  <2>1. \A k \in Things : k \notin Names
    BY PaneNames
  <2>2. \A k \in Things : k \in I!Versioned \cup {"config", "turn", "name"}
    BY DEF I!Versioned
  <2>3. QED BY <2>1, <2>2 DEF Names
<1>3. data["profile"] = [version |-> 1, base |-> 0]
  BY PaneNames DEF Names, I!Versioned
<1>4. past = <<e>> /\ e.data = data /\ DOMAIN data = I!Versioned \cup {"config", "turn", "name"}
  BY <1>1
<1>5. \A k \in Things : old[k] \in {0, 1}
  OBVIOUS
<1> HIDE DEF data, e
<1>6. PastOK /\ Data = data
  <2>1. past \in Seq({e}) /\ Len(past) = 1 /\ past[1] = e
    BY <1>4
  <2>2. PastOK
    BY <2>1 DEF PastOK
  <2>3. Data = e.data
    BY <2>1 DEF Data
  <2>4. QED BY <1>4, <2>2, <2>3
<1>7. ASSUME NEW k \in I!Versioned PROVE data[k].version \in {0, 1} /\ data[k].base = 0
  <2>1. CASE k \in Things
    <3>1. data[k] = [version |-> old[k], base |-> 0]
      BY <1>2, <2>1
    <3>2. old[k] \in {0, 1}
      BY <1>5, <2>1
    <3>3. QED BY <3>1, <3>2
  <2>2. CASE k = "profile"
    BY <1>3, <2>2
  <2>3. QED BY <2>1, <2>2 DEF I!Versioned
<1>8. InspectorData
  BY <1>4, <1>6, <1>7 DEF InspectorData
<1>9. InspectorShape(pane) /\ InspectorCalls(calls) /\ InspectorBusy
  BY DEF I!InspectorInit, InspectorShape, InspectorFields, InspectorCalls, InspectorBusy, Answered, I!Unedited, I!NoDraft,
         I!NothingSeen
<1>10. QED BY <1>6, <1>8, <1>9 DEF InspectorInv

----------------------------------------------------------------------------
(* External identities.                                                        *)

(* What is shown as being read, or as being done, is asked for.                *)
Reads(cs) == \E c \in cs : c.what \in {"discover", "discover-run", "credentials"}
Works(cs) == \E c \in cs : \/ c.what \in E!Commands \cup {"discover-run"}
                           \/ c.what = "refresh" /\ c.item # E!None
CallOf(c) == DOMAIN c = CallFields /\ (c.what = "setup" => c.item # E!None)
ExternalBusy(p, cs) ==
  /\ \A c \in cs : CallOf(c)
  /\ p.loading => Reads(cs)
  /\ p.working => Works(cs)
ExternalFields == {"kind", "seen", "loading", "working"}
Like(p) == ExternalFields \subseteq DOMAIN p /\ p.kind = pane.kind /\ p.seen = pane.seen
\* As busy as the pane is.
AsBusy(p) == Like(p) /\ p.loading = pane.loading /\ p.working = pane.working
ExternalInv == ExternalFields \subseteq DOMAIN pane /\ ExternalBusy(pane, calls)

LEMMA ExternalAsks ==
  /\ \A what, item : LET c == E!Call(what, item)
                     IN DOMAIN c = CallFields /\ c.what = what /\ c.item = item
  /\ \A x, agent : LET c == E!Discover(x, agent)
                   IN DOMAIN c = CallFields /\ c.what = "discover" /\ CallOf(c)
  /\ \A what, item : what # "setup" \/ item # E!None => CallOf(E!Call(what, item))
BY DEF E!Call, E!Discover, CallFields, CallOf

(* A call more keeps nothing waiting for no answer.                            *)
LEMMA ExternalMore ==
  ASSUME NEW p, NEW cs, ExternalBusy(p, cs), NEW d, CallOf(d)
  PROVE  ExternalBusy(p, cs \cup {d})
BY DEF ExternalBusy, Reads, Works

LEMMA ExternalEffects ==
  ASSUME NEW p, Like(p), NEW cs, ExternalBusy(p, cs), E!Effects(p, cs)
  PROVE  Like(pane') /\ ExternalBusy(pane', calls')
<1>1. PICK asks, x : /\ pane' = [p EXCEPT !.loading = @ \/ asks]
                     /\ calls' = IF asks THEN cs \cup {E!Discover(x, E!None)} ELSE cs
  BY DEF E!Effects
<1>2. Like(pane') /\ pane'.working = p.working /\ (pane'.loading => p.loading \/ asks)
  BY <1>1 DEF Like, ExternalFields
<1>3. CASE asks
  <2> DEFINE d == E!Discover(x, E!None)
  <2>1. CallOf(d) /\ d.what = "discover" /\ calls' = cs \cup {d}
    BY <1>1, <1>3, ExternalAsks
  <2> HIDE DEF d
  <2>2. QED BY <1>2, <2>1 DEF ExternalBusy, Reads, Works
<1>4. CASE ~asks
  <2>1. calls' = cs
    BY <1>1, <1>4
  <2>2. QED BY <1>2, <1>4, <2>1 DEF ExternalBusy
<1>5. QED BY <1>3, <1>4

LEMMA ExternalHears ==
  ASSUME ExternalInv,
         \/ E!HubMoves \/ E!Hear
         \/ \E c \in calls : E!discover(c) \/ E!refresh(c) \/ E!RefreshFailed(c)
  PROVE  Like(pane') /\ ExternalBusy(pane', calls')
<1>1. AsBusy(pane) /\ ExternalBusy(pane, calls)
  BY DEF AsBusy, Like, ExternalInv
<1>2. CASE E!HubMoves
  BY <1>1, <1>2 DEF E!HubMoves, E!HubChanges, AsBusy
<1>3. CASE E!Hear
  <2>1. \/ \E known : E!Effects([pane EXCEPT !.known = known], calls)
        \/ pane' = pane /\ calls' = calls \cup {E!Call("refresh", E!None)}
    BY <1>3 DEF E!Hear, E!Asked
  <2>2. ASSUME NEW known PROVE Like([pane EXCEPT !.known = known]) /\ ExternalBusy([pane EXCEPT !.known = known], calls)
    BY <1>1 DEF AsBusy, Like, ExternalFields, ExternalBusy
  <2> DEFINE d == E!Call("refresh", E!None)
  <2>3. CallOf(d)
    BY ExternalAsks
  <2> HIDE DEF d
  <2>4. ExternalBusy(pane, calls \cup {d}) /\ Like(pane)
    BY <1>1, <2>3, ExternalMore DEF AsBusy
  <2>5. CASE pane' = pane /\ calls' = calls \cup {d}
    BY <2>4, <2>5 DEF Like
  <2>6. CASE \E known : E!Effects([pane EXCEPT !.known = known], calls)
    BY <2>2, <2>6, ExternalEffects
  <2>7. QED BY <2>1, <2>5, <2>6 DEF d
<1>4. ASSUME NEW c \in calls, E!discover(c) PROVE Like(pane') /\ ExternalBusy(pane', calls')
  <2> DEFINE d == E!Call("refresh", "run")
  <2>1. \/ c.what = "discover" /\ calls' = calls \ {c}
        \/ c.what = "discover-run" /\ calls' = (calls \ {c}) \cup {d}
    BY <1>4 DEF E!discover
  <2>2. Like(pane') /\ pane'.loading = FALSE /\ pane'.working = pane.working
    BY <1>1, <1>4 DEF AsBusy, Like, ExternalFields, E!discover, E!Discovered
  <2>3. CallOf(d) /\ d.what = "refresh" /\ d.item # E!None
    BY ExternalAsks DEF E!None
  <2> HIDE DEF d
  <2>4. QED BY <1>1, <2>1, <2>2, <2>3 DEF ExternalBusy, Works, E!Commands
<1>5. ASSUME NEW c \in calls, E!refresh(c) PROVE Like(pane') /\ ExternalBusy(pane', calls')
  <2> DEFINE d == E!Call("refresh", "run")
             chosen(known) == [[pane EXCEPT !.known = known] EXCEPT !.selected = c.item, !.setup = E!NoSetup]
             taken(known, first) == [[pane EXCEPT !.known = known] EXCEPT !.selected = first,
                                                                           !.working = @ /\ c.item # "run"]
  <2>1. /\ c.what = "refresh"
        /\ \E known : \/ E!Effects(chosen(known), (calls \ {c}) \cup {d})
                      \/ c.item \in {E!None, "run"} /\ \E first : E!Effects(taken(known, first), calls \ {c})
    BY <1>5, Zenon DEF E!refresh
  <2>2. \A known, first : /\ Like(chosen(known)) /\ chosen(known).loading = pane.loading
                          /\ Like(taken(known, first)) /\ taken(known, first).loading = pane.loading
                          /\ taken(known, first).working => pane.working /\ c.item # "run"
                          /\ chosen(known).working = pane.working
    BY <1>1 DEF AsBusy, Like, ExternalFields
  <2>3. CallOf(d) /\ d.what = "refresh" /\ d.item # E!None
    BY ExternalAsks DEF E!None
  <2> HIDE DEF d, chosen, taken
  <2>4. \A known : ExternalBusy(chosen(known), (calls \ {c}) \cup {d})
    BY <1>1, <2>1, <2>2, <2>3 DEF ExternalBusy, Reads, Works
  <2>5. ASSUME c.item \in {E!None, "run"}, NEW known, NEW first
        PROVE  ExternalBusy(taken(known, first), calls \ {c})
    <3>1. taken(known, first).working => Works(calls \ {c})
      BY <1>1, <2>1, <2>2, <2>5 DEF ExternalBusy, Works, E!Commands
    <3>2. taken(known, first).loading => Reads(calls \ {c})
      BY <1>1, <2>1, <2>2 DEF ExternalBusy, Reads
    <3>3. QED BY <1>1, <3>1, <3>2 DEF ExternalBusy
  <2>6. QED BY <2>1, <2>2, <2>4, <2>5, ExternalEffects
<1>6. ASSUME NEW c \in calls, E!RefreshFailed(c) PROVE Like(pane') /\ ExternalBusy(pane', calls')
  <2>1. /\ c.what = "refresh" /\ calls' = calls \ {c}
        /\ Like(pane') /\ pane'.loading = pane.loading /\ (pane'.working => pane.working /\ c.item = E!None)
    BY <1>1, <1>6 DEF E!RefreshFailed, AsBusy, Like, ExternalFields
  <2>2. pane'.working => Works(calls')
    BY <1>1, <2>1 DEF ExternalBusy, Works, E!Commands
  <2>3. pane'.loading => Reads(calls')
    BY <1>1, <2>1 DEF ExternalBusy, Reads
  <2>4. QED BY <1>1, <2>1, <2>2, <2>3 DEF ExternalBusy
<1>7. QED BY <1>2, <1>3, <1>4, <1>5, <1>6

LEMMA ExternalOpens ==
  ASSUME ExternalInv,
         \/ E!setSelectedID \/ E!refreshAll \/ E!setCreateOpen \/ E!openSetup \/ E!openNewSetup \/ E!closeSetup
         \/ E!onAdvanced \/ E!verifyCredentials \/ E!onRefreshDiscovery \/ E!setChatID \/ E!selectExternal
         \/ E!startBind \/ E!resetAddressForm
  PROVE  Like(pane') /\ ExternalBusy(pane', calls')
<1>0. AsBusy(pane) /\ ExternalBusy(pane, calls)
  BY DEF AsBusy, Like, ExternalInv
<1>1. ASSUME NEW p, AsBusy(p), E!Does(p) PROVE Like(pane') /\ ExternalBusy(pane', calls')
  <2>1. Like(p) /\ ExternalBusy(p, calls)
    BY <1>0, <1>1 DEF AsBusy, ExternalBusy
  <2>2. QED BY <1>1, <2>1, ExternalEffects DEF E!Does
<1>2. ASSUME NEW a, NEW b, NEW c
      PROVE  /\ AsBusy([pane EXCEPT !.selected = a]) /\ AsBusy([pane EXCEPT !.setup = a])
             /\ AsBusy([pane EXCEPT !.create = a, !.setup = b]) /\ AsBusy([pane EXCEPT !.setup = a, !.create = b])
             /\ AsBusy([pane EXCEPT !.create = a, !.setup = b, !.discovery = c])
             /\ AsBusy([pane EXCEPT !.setup.chat = a]) /\ AsBusy([pane EXCEPT !.bind = a])
  BY <1>0 DEF AsBusy, Like, ExternalFields
<1>3. CASE E!setSelectedID \/ E!setChatID \/ E!startBind \/ E!resetAddressForm
  BY <1>1, <1>2, <1>3 DEF E!setSelectedID, E!setChatID, E!startBind, E!resetAddressForm
<1>4. CASE E!setCreateOpen \/ E!openNewSetup \/ E!closeSetup \/ E!onAdvanced
  BY <1>1, <1>2, <1>4 DEF E!setCreateOpen, E!openNewSetup, E!closeSetup, E!onAdvanced
<1>5. CASE E!refreshAll
  BY <1>0, <1>5, ExternalMore, ExternalAsks DEF E!refreshAll, E!Asked, AsBusy
<1>6. CASE E!openSetup \/ E!verifyCredentials \/ E!onRefreshDiscovery \/ E!selectExternal
  <2>1. PICK d : /\ calls' = calls \cup {d} /\ CallOf(d) /\ d.what \in {"discover", "credentials"}
    <3>1. \E x, agent : calls' \in {calls \cup {E!Call("credentials", x)}, calls \cup {E!Discover(x, agent)}}
      BY <1>6 DEF E!openSetup, E!verifyCredentials, E!onRefreshDiscovery, E!selectExternal
    <3>2. QED BY <3>1, ExternalAsks
  <2>2. Like(pane') /\ pane'.working = pane.working
    BY <1>0, <1>6 DEF E!openSetup, E!verifyCredentials, E!onRefreshDiscovery, E!selectExternal, AsBusy, Like,
                      ExternalFields
  <2>3. QED BY <1>0, <2>1, <2>2 DEF ExternalBusy, Reads, Works
<1>7. QED BY <1>3, <1>4, <1>5, <1>6

LEMMA ExternalRuns ==
  ASSUME ExternalInv,
         \/ E!submit \/ E!createConnection \/ E!toggleConnection \/ E!restartGateway \/ E!bindAddress \/ E!toggleAddress
  PROVE  Like(pane') /\ ExternalBusy(pane', calls')
<1>1. ASSUME NEW what \in E!Commands, NEW item, what = "setup" => item # E!None, NEW made,
             E!Runs(pane, what, item, made)
      PROVE  Like(pane') /\ ExternalBusy(pane', calls')
  <2> DEFINE d == [E!Call(what, item) EXCEPT !.made = made]
  <2>1. calls' = calls \cup {d} /\ Like(pane') /\ pane'.loading = pane.loading
    BY <1>1 DEF E!Runs, ExternalInv, Like, ExternalFields
  <2>2. CallOf(d) /\ d.what = what
    BY <1>1 DEF E!Call, CallFields, CallOf
  <2> HIDE DEF d
  <2>3. QED BY <1>1, <2>1, <2>2 DEF ExternalInv, ExternalBusy, Reads, Works
<1>2. CASE E!submit
  <2>1. E!Runs(pane, "setup", pane.discovery.of, <<pane.setup>>) /\ pane.discovery.of # E!None
    BY <1>2 DEF E!submit, E!Choosing, E!Ready
  <2>2. QED BY <1>1, <2>1 DEF E!Commands
<1>3. CASE E!createConnection \/ E!toggleConnection \/ E!restartGateway \/ E!bindAddress \/ E!toggleAddress
  BY <1>1, <1>3 DEF E!createConnection, E!toggleConnection, E!restartGateway, E!bindAddress, E!toggleAddress, E!Commands
<1>4. QED BY <1>2, <1>3

LEMMA ExternalServed ==
  ASSUME ExternalInv, NEW c \in calls,
         E!HubServes(c) \/ E!Done(c) \/ E!Verified(c) \/ E!Refused(c)
  PROVE  Like(pane') /\ ExternalBusy(pane', calls')
<1>1. AsBusy(pane) /\ ExternalBusy(pane, calls) /\ CallOf(c)
  BY DEF AsBusy, Like, ExternalInv, ExternalBusy
<1>2. CASE E!HubServes(c)
  <2> DEFINE d == [c EXCEPT !.done = TRUE]
  <2>1. pane' = pane /\ calls' = (calls \ {c}) \cup {d}
    BY <1>2 DEF E!HubServes
  <2>2. CallOf(d) /\ d.what = c.what /\ d.item = c.item
    BY <1>1 DEF CallOf, CallFields
  <2> HIDE DEF d
  <2>3. QED BY <1>1, <2>1, <2>2 DEF ExternalBusy, Reads, Works, AsBusy
<1>3. CASE E!Done(c)
  <2> DEFINE p == CASE c.what = "create" -> [pane EXCEPT !.selected = c.item, !.create = FALSE]
                    [] c.what = "bind" -> [pane EXCEPT !.bind = E!None]
                    [] c.what = "gateway" -> [pane EXCEPT !.loading = TRUE]
                    [] OTHER -> pane
             next == CASE c.what = "setup" -> E!Call("refresh", c.item)
                       [] c.what = "gateway" -> [E!Discover(c.item, E!None) EXCEPT !.what = "discover-run"]
                       [] OTHER -> E!Call("refresh", "run")
  <2>1. E!Effects(p, (calls \ {c}) \cup {next}) /\ c.what \in E!Commands
    BY <1>3 DEF E!Done
  <2>2. Like(p) /\ p.working = pane.working /\ (c.what # "gateway" => p.loading = pane.loading)
    <3>1. CASE c.what = "create"
      BY <1>1, <3>1 DEF AsBusy, Like, ExternalFields
    <3>2. CASE c.what = "bind"
      BY <1>1, <3>2 DEF AsBusy, Like, ExternalFields
    <3>3. CASE c.what = "gateway"
      BY <1>1, <3>3 DEF AsBusy, Like, ExternalFields
    <3>4. CASE c.what \notin {"create", "bind", "gateway"}
      BY <1>1, <3>4 DEF AsBusy
    <3>5. QED BY <3>1, <3>2, <3>3, <3>4
  <2>3. /\ CallOf(next)
        /\ IF c.what = "gateway" THEN next.what = "discover-run" ELSE next.what = "refresh" /\ next.item # E!None
    <3>1. CASE c.what = "setup"
      BY <1>1, <3>1, ExternalAsks DEF CallOf
    <3>2. CASE c.what = "gateway"
      BY <3>2 DEF CallFields, CallOf, E!Discover, E!Call
    <3>3. CASE c.what \notin {"setup", "gateway"}
      BY <3>3, ExternalAsks DEF E!None
    <3>4. QED BY <3>1, <3>2, <3>3
  <2> HIDE DEF p, next
  <2>4. Works((calls \ {c}) \cup {next})
    BY <2>3 DEF Works
  <2>5. p.loading => Reads((calls \ {c}) \cup {next})
    BY <1>1, <2>1, <2>2, <2>3 DEF ExternalBusy, Reads, E!Commands
  <2>6. ExternalBusy(p, (calls \ {c}) \cup {next})
    BY <1>1, <2>3, <2>4, <2>5 DEF ExternalBusy
  <2>7. QED BY <2>1, <2>2, <2>6, ExternalEffects
<1>4. CASE E!Verified(c)
  <2>1. /\ c.what = "credentials" /\ calls' = calls \ {c}
        /\ Like(pane') /\ pane'.loading = FALSE /\ pane'.working = pane.working
    BY <1>1, <1>4 DEF E!Verified, E!Discovered, AsBusy, Like, ExternalFields
  <2>2. QED BY <1>1, <2>1 DEF ExternalBusy, Works, E!Commands
<1>5. CASE E!Refused(c)
  <2>1. c.what \in E!Commands \cup {"credentials"} /\ calls' = calls \ {c} /\ Like(pane')
    BY <1>1, <1>5 DEF E!Refused, AsBusy, Like, ExternalFields
  <2>2. CASE c.what = "credentials"
    <3>1. pane'.loading = FALSE /\ pane'.working = pane.working
      BY <1>1, <1>5, <2>2 DEF E!Refused, AsBusy, Like, ExternalFields
    <3>2. QED BY <1>1, <2>1, <2>2, <3>1 DEF ExternalBusy, Works, E!Commands
  <2>3. CASE c.what # "credentials"
    <3>1. pane'.working = FALSE /\ pane'.loading = pane.loading
      BY <1>1, <1>5, <2>3 DEF E!Refused, AsBusy, Like, ExternalFields
    <3>2. QED BY <1>1, <2>1, <2>3, <3>1 DEF ExternalBusy, Reads, E!Commands
  <2>4. QED BY <2>2, <2>3
<1>6. QED BY <1>2, <1>3, <1>4, <1>5

LEMMA ExternalKept ==
  ASSUME ExternalInv, E!ExternalNext
  PROVE  Alike(pane') /\ ExternalInv'
<1>1. CASE \/ E!HubMoves \/ E!Hear
           \/ \E c \in calls : E!discover(c) \/ E!refresh(c) \/ E!RefreshFailed(c)
  BY <1>1, ExternalHears DEF Like, Alike, ExternalFields, ExternalInv, ExternalBusy, Reads, Works, CallOf
<1>2. CASE \/ E!setSelectedID \/ E!refreshAll \/ E!setCreateOpen \/ E!openSetup \/ E!openNewSetup \/ E!closeSetup
           \/ E!onAdvanced \/ E!verifyCredentials \/ E!onRefreshDiscovery \/ E!setChatID \/ E!selectExternal
           \/ E!startBind \/ E!resetAddressForm
  BY <1>2, ExternalOpens DEF Like, Alike, ExternalFields, ExternalInv, ExternalBusy, Reads, Works, CallOf
<1>3. CASE \/ E!submit \/ E!createConnection \/ E!toggleConnection \/ E!restartGateway \/ E!bindAddress
           \/ E!toggleAddress
  BY <1>3, ExternalRuns DEF Like, Alike, ExternalFields, ExternalInv, ExternalBusy, Reads, Works, CallOf
<1>4. CASE \E c \in calls : E!HubServes(c) \/ E!Done(c) \/ E!Verified(c) \/ E!Refused(c)
  BY <1>4, ExternalServed DEF Like, Alike, ExternalFields, ExternalInv, ExternalBusy, Reads, Works, CallOf
<1>5. QED BY <1>1, <1>2, <1>3, <1>4 DEF E!ExternalNext

LEMMA ExternalBegins ==
  ASSUME E!ExternalInit
  PROVE  /\ {"kind", "seen"} \subseteq DOMAIN pane /\ pane.kind = "external" /\ DOMAIN pane.seen = {}
         /\ ExternalInv
<1>1. PICK linked \in BOOLEAN :
        /\ {"kind", "seen", "loading", "working"} \subseteq DOMAIN pane /\ pane.kind = "external"
        /\ DOMAIN pane.seen = {} /\ pane.loading = linked /\ pane.working = FALSE
        /\ calls = {E!Call("refresh", E!None)} \cup IF linked THEN {E!Discover(E!None, E!None)} ELSE {}
  BY DEF E!ExternalInit, E!NothingSeen
<1>2. \A c \in calls : CallOf(c)
  BY <1>1, ExternalAsks
<1>3. pane.loading => Reads(calls)
  BY <1>1, ExternalAsks DEF Reads
<1>4. QED BY <1>1, <1>2, <1>3 DEF ExternalInv, ExternalFields, ExternalBusy

----------------------------------------------------------------------------
(* The composer.                                                               *)

ComposerFields ==
  {"kind", "seen", "turn", "goal", "input", "files", "answering", "sending", "turnAction", "heldAction",
   "goalSaving", "owed"}
ComposerShape(p) == DOMAIN p = ComposerFields /\ p.kind = "composer" /\ DOMAIN p.seen = C!ComposerLists

(* One text at a time is on its way, and what is typed meanwhile is no task.   *)
OneOnItsWay(p, cs) ==
  \A c \in cs : c.what \in C!Sends => /\ p.sending = "sending" /\ p.input # "typed"
                                      /\ \A d \in cs : d.what \in C!Sends => d = c
OnItsWay(cs) == \E c \in cs : c.what \in C!Sends /\ c.made.text = "typed" /\ ~c.done
Kept(p, cs) == p.owed => p.input = "typed" \/ OnItsWay(cs)

ComposerInv == ComposerShape(pane) /\ CallsShape /\ OneOnItsWay(pane, calls) /\ Kept(pane, calls)

LEMMA ComposerNow ==
  ASSUME ComposerShape(pane'), \A c \in calls' : DOMAIN c = CallFields,
         OneOnItsWay(pane', calls'), Kept(pane', calls')
  PROVE  ComposerInv'
BY DEF ComposerInv, ComposerShape, CallsShape, OneOnItsWay, Kept, OnItsWay

(* A step that is not about a text leaves it, and what is sent, alone.         *)
LEMMA ComposerQuiet ==
  ASSUME ComposerInv, ComposerShape(pane'), pane'.input = pane.input, pane'.owed = pane.owed,
         pane.sending = "sending" => pane'.sending = "sending",
         \A c \in calls' : c \in calls \/ (DOMAIN c = CallFields /\ c.what \notin C!Sends),
         \A c \in calls : c.what \in C!Sends => c \in calls'
  PROVE  ComposerInv'
<1>1. \A c \in calls' : DOMAIN c = CallFields
  BY DEF ComposerInv, CallsShape
<1>2. OneOnItsWay(pane', calls')
  BY DEF ComposerInv, OneOnItsWay
<1>3. Kept(pane', calls')
  BY DEF ComposerInv, Kept, OnItsWay
<1>4. QED BY <1>1, <1>2, <1>3, ComposerNow

LEMMA ComposerHears ==
  ASSUME ComposerInv,
         \/ C!HubMoves \/ C!Hear
         \/ \E c \in calls : C!ListAnswered(c) \/ C!ListFailed(c)
         \/ C!addAttachmentFiles \/ C!removeAttachment \/ C!DropAnswering \/ C!Refreshed \/ C!HeldEnds
  PROVE  ComposerInv'
<1>1. ComposerShape(pane) /\ DOMAIN pane = ComposerFields
  BY DEF ComposerInv, ComposerShape
<1>2. CASE C!HubMoves
  BY <1>1, <1>2, ComposerQuiet DEF C!HubMoves, C!HubChanges
<1>3. CASE C!Hear
  <2>1. \/ \E turn, goal : pane' = [pane EXCEPT !.turn = turn, !.goal = goal] /\ calls' = calls
        \/ /\ \E l \in {"requests", "pending"} : calls' = C!Invalidated(calls, {l})
           /\ \E seen : DOMAIN seen = DOMAIN pane.seen /\ pane' = [pane EXCEPT !.seen = seen]
    <3>1. \A cs, lists : C!HeardOf(cs, lists) =>
            /\ calls' = C!Invalidated(cs, lists)
            /\ \E seen : DOMAIN seen = DOMAIN pane.seen /\ pane' = [pane EXCEPT !.seen = seen]
      BY DEF C!HeardOf
    <3>2. \/ \E turn, goal : pane' = [pane EXCEPT !.turn = turn, !.goal = goal] /\ calls' = calls
          \/ \E l \in {"requests", "pending"} : C!HeardOf(calls, {l})
      BY <1>3 DEF C!Hear
    <3>3. QED BY <3>1, <3>2
  <2>2. ASSUME NEW turn, NEW goal, pane' = [pane EXCEPT !.turn = turn, !.goal = goal]
        PROVE  /\ ComposerShape(pane') /\ pane'.input = pane.input /\ pane'.owed = pane.owed
               /\ pane'.sending = pane.sending
    BY <1>1, <2>2 DEF ComposerShape, ComposerFields
  <2>3. ASSUME NEW l \in {"requests", "pending"}, calls' = C!Invalidated(calls, {l})
        PROVE  /\ \A c \in calls' : c \in calls \/ (DOMAIN c = CallFields /\ c.what \notin C!Sends)
               /\ \A c \in calls : c.what \in C!Sends => c \in calls'
    BY <2>3 DEF C!Invalidated, C!Anew, C!Call, CallFields, C!Sends
  <2>4. ASSUME NEW seen, DOMAIN seen = DOMAIN pane.seen, pane' = [pane EXCEPT !.seen = seen]
        PROVE  /\ ComposerShape(pane') /\ pane'.input = pane.input /\ pane'.owed = pane.owed
               /\ pane'.sending = pane.sending
    BY <1>1, <2>4 DEF ComposerShape, ComposerFields
  <2>5. QED BY <1>1, <2>1, <2>2, <2>3, <2>4, ComposerQuiet
<1>4. ASSUME NEW c \in calls, C!ListAnswered(c) \/ C!ListFailed(c) PROVE ComposerInv'
  <2>1. \E seen : DOMAIN seen = DOMAIN pane.seen /\ pane' = [pane EXCEPT !.seen = seen]
    <3>1. CASE C!ListAnswered(c)
      <4>1. PICK n : pane' = C!Read(pane, c, n)
        BY <3>1 DEF C!ListAnswered
      <4>2. DOMAIN pane'.seen = DOMAIN pane.seen /\ pane' = [pane EXCEPT !.seen = pane'.seen]
        BY <1>1, <4>1 DEF C!Read, ComposerFields
      <4>3. QED BY <4>2
    <3>2. CASE C!ListFailed(c)
      <4>1. DOMAIN pane'.seen = DOMAIN pane.seen /\ pane' = [pane EXCEPT !.seen = pane'.seen]
        BY <1>1, <3>2 DEF C!ListFailed, ComposerFields
      <4>2. QED BY <4>1
    <3>3. QED BY <1>4, <3>1, <3>2
  <2>2. /\ ComposerShape(pane') /\ pane'.input = pane.input /\ pane'.owed = pane.owed
        /\ pane'.sending = pane.sending
    BY <1>1, <2>1 DEF ComposerShape, ComposerFields
  <2>3. calls' = calls \ {c} /\ c.what \in DOMAIN pane.seen
    BY <1>4 DEF C!ListAnswered, C!ListFailed
  <2>4. c.what \notin C!Sends
    BY <1>1, <2>3 DEF ComposerShape, C!ComposerLists, C!Sends
  <2>5. /\ \A d \in calls' : d \in calls
        /\ \A d \in calls : d.what \in C!Sends => d \in calls'
    BY <2>3, <2>4
  <2>6. QED BY <2>2, <2>5, ComposerQuiet
<1>5. CASE C!addAttachmentFiles \/ C!removeAttachment
  <2>1. \E files : pane' = [pane EXCEPT !.files = files] /\ calls' = calls
    BY <1>5 DEF C!addAttachmentFiles, C!removeAttachment, C!Does
  <2>2. /\ ComposerShape(pane') /\ pane'.input = pane.input /\ pane'.owed = pane.owed
        /\ pane'.sending = pane.sending
    BY <1>1, <2>1 DEF ComposerShape, ComposerFields
  <2>3. QED BY <2>1, <2>2, ComposerQuiet
<1>6. CASE C!DropAnswering \/ C!Refreshed \/ C!HeldEnds
  <2>1. /\ ComposerShape(pane') /\ pane'.input = pane.input /\ pane'.owed = pane.owed /\ calls' = calls
        /\ pane.sending = "sending" => pane'.sending = "sending"
    BY <1>1, <1>6 DEF C!DropAnswering, C!Refreshed, C!HeldEnds, ComposerShape, ComposerFields
  <2>2. QED BY <2>1, ComposerQuiet
<1>7. QED BY <1>2, <1>3, <1>4, <1>5, <1>6

LEMMA ComposerOrders ==
  ASSUME ComposerInv,
         \/ C!interrupt \/ C!continueInterruptedTurn \/ C!dismissInterruptedTurn
         \/ C!continueHeldMessage \/ C!closeHeldMessage \/ C!GoalBar
         \/ \E c \in calls : C!HubActs(c) \/ C!OrderDone(c) \/ C!OrderFails(c)
  PROVE  ComposerInv'
<1>1. ComposerShape(pane) /\ DOMAIN pane = ComposerFields
  BY DEF ComposerInv, ComposerShape
<1>2. \A what \in C!Orders : what \notin C!Sends
  BY DEF C!Orders, C!OnTurn, C!OnHeld, C!OnGoal, C!Sends
<1> DEFINE Texts(p) == ComposerShape(p) /\ p.input = pane.input /\ p.owed = pane.owed /\ p.sending = pane.sending
<1>3. ASSUME NEW a, NEW b, NEW c
      PROVE  /\ Texts(pane) /\ Texts([pane EXCEPT !.turnAction = a]) /\ Texts([pane EXCEPT !.heldAction = a])
             /\ Texts([pane EXCEPT !.goalSaving = a])
             /\ Texts([pane EXCEPT !.turnAction = a, !.turn = b, !.goal = c])
             /\ Texts([pane EXCEPT !.goalSaving = a, !.turn = b, !.goal = c])
  BY <1>1 DEF ComposerShape, ComposerFields
<1>4. ASSUME NEW p, NEW what \in C!Orders, NEW d, C!Begins(p, d), DOMAIN d = CallFields, d.what = what, Texts(p)
      PROVE  ComposerInv'
  BY <1>2, <1>4, ComposerQuiet DEF C!Begins
<1> HIDE DEF Texts
<1>5. CASE C!interrupt \/ C!continueInterruptedTurn \/ C!dismissInterruptedTurn \/ C!continueHeldMessage \/ C!closeHeldMessage
  <2>1. PICK p \in {pane, [pane EXCEPT !.turnAction = TRUE], [pane EXCEPT !.heldAction = "asked"]} :
          \E what \in C!Orders : C!Begins(p, C!Call(what, C!None))
    BY <1>5 DEF C!interrupt, C!continueInterruptedTurn, C!dismissInterruptedTurn, C!continueHeldMessage,
                C!closeHeldMessage, C!Orders, C!OnTurn, C!OnHeld
  <2>2. PICK what \in C!Orders : C!Begins(p, C!Call(what, C!None))
    BY <2>1
  <2>3. DOMAIN C!Call(what, C!None) = CallFields /\ C!Call(what, C!None).what = what
    BY DEF C!Call, CallFields
  <2>4. Texts(p)
    BY <1>3
  <2>5. QED BY <1>4, <2>2, <2>3, <2>4
<1>6. CASE C!GoalBar
  <2>1. PICK what \in C!OnGoal : \E made : C!Begins([pane EXCEPT !.goalSaving = TRUE],
                                                    [C!Call(what, C!None) EXCEPT !.made = made])
    BY <1>6 DEF C!GoalBar
  <2>2. PICK made : C!Begins([pane EXCEPT !.goalSaving = TRUE], [C!Call(what, C!None) EXCEPT !.made = made])
    BY <2>1
  <2> DEFINE d == [C!Call(what, C!None) EXCEPT !.made = made]
             p == [pane EXCEPT !.goalSaving = TRUE]
  <2>3. DOMAIN d = CallFields /\ d.what = what
    BY DEF C!Call, CallFields
  <2>4. Texts(p)
    BY <1>3
  <2>5. C!Begins(p, d) /\ what \in C!Orders
    BY <2>2 DEF C!Orders
  <2> HIDE DEF d, p
  <2>6. QED BY <1>4, <2>3, <2>4, <2>5
<1>7. ASSUME NEW c \in calls, C!HubActs(c) PROVE ComposerInv'
  <2>1. PICK made : calls' = (calls \ {c}) \cup {[c EXCEPT !.done = TRUE, !.made = made]}
    BY <1>7 DEF C!HubActs
  <2>2. DOMAIN c = CallFields /\ c.what \notin C!Sends /\ pane' = pane
    BY <1>2, <1>7 DEF ComposerInv, CallsShape, C!HubActs
  <2> DEFINE d == [c EXCEPT !.done = TRUE, !.made = made]
  <2>3. DOMAIN d = CallFields /\ d.what = c.what
    BY <2>2 DEF CallFields
  <2>4. calls' = (calls \ {c}) \cup {d}
    BY <2>1
  <2> HIDE DEF d
  <2>5. QED BY <1>1, <2>2, <2>3, <2>4, ComposerQuiet
<1>8. ASSUME NEW c \in calls, C!OrderDone(c) PROVE ComposerInv'
  <2>1. c.what \in C!Orders /\ pane' = C!Acknowledged(pane, c)
    BY <1>8 DEF C!OrderDone, C!Ends
  <2>2. Texts(pane')
    <3>1. CASE c.what \in C!OnTurn
      BY <1>3, <2>1, <3>1 DEF C!Acknowledged
    <3>2. CASE c.what \in C!OnHeld
      BY <1>3, <2>1, <3>2 DEF C!Acknowledged, C!OnTurn, C!OnHeld
    <3>3. CASE c.what \in C!OnGoal
      BY <1>3, <2>1, <3>3 DEF C!Acknowledged, C!OnTurn, C!OnHeld, C!OnGoal
    <3>4. CASE c.what \notin C!OnTurn \cup C!OnHeld \cup C!OnGoal
      BY <1>3, <2>1, <3>4 DEF C!Acknowledged
    <3>5. QED BY <3>1, <3>2, <3>3, <3>4
  <2>3. calls' = calls \ {c} \/ calls' = C!Invalidated(calls, {"pending"}) \ {c}
    BY <1>8 DEF C!OrderDone, C!Ends
  <2>4. /\ \A d \in calls' : d \in calls \/ (DOMAIN d = CallFields /\ d.what \notin C!Sends)
        /\ \A d \in calls : d.what \in C!Sends => d \in calls'
    BY <1>2, <2>1, <2>3 DEF C!Invalidated, C!Anew, C!Call, CallFields, C!Sends
  <2>5. QED BY <2>2, <2>4, ComposerQuiet DEF Texts
<1>9. ASSUME NEW c \in calls, C!OrderFails(c) PROVE ComposerInv'
  <2>1. c.what \in C!Orders /\ calls' = calls \ {c}
    BY <1>9 DEF C!OrderFails
  <2>2. pane' \in {pane, [pane EXCEPT !.turnAction = FALSE], [pane EXCEPT !.heldAction = "no"],
                   [pane EXCEPT !.goalSaving = FALSE]}
    <3>1. CASE c.what \in C!OnTurn
      BY <1>9, <3>1 DEF C!OrderFails
    <3>2. CASE c.what \in C!OnHeld
      BY <1>9, <3>2 DEF C!OrderFails, C!OnTurn, C!OnHeld
    <3>3. CASE c.what \in C!OnGoal
      BY <1>9, <3>3 DEF C!OrderFails, C!OnTurn, C!OnHeld, C!OnGoal
    <3>4. CASE c.what \notin C!OnTurn \cup C!OnHeld \cup C!OnGoal
      BY <1>9, <3>4 DEF C!OrderFails
    <3>5. QED BY <3>1, <3>2, <3>3, <3>4
  <2>3. Texts(pane')
    BY <1>3, <2>2
  <2>4. \A d \in calls : d.what \in C!Sends => d \in calls'
    BY <1>2, <2>1
  <2>5. QED BY <2>1, <2>3, <2>4, ComposerQuiet DEF Texts
<1>10. QED BY <1>5, <1>6, <1>7, <1>8, <1>9

(* What the owner writes, and puts aside.                                      *)
LEMMA ComposerWrites ==
  ASSUME ComposerInv, C!onChange \/ C!onAnswer \/ C!cancelAnswering \/ C!send
  PROVE  ComposerInv'
<1>1. /\ ComposerShape(pane) /\ DOMAIN pane = ComposerFields /\ \A c \in calls : DOMAIN c = CallFields
      /\ OneOnItsWay(pane, calls) /\ Kept(pane, calls)
  BY DEF ComposerInv, ComposerShape, CallsShape
<1>2. CASE C!onChange
  <2>1. PICK text : pane' = [pane EXCEPT !.input = text, !.owed = text = "typed"] /\ calls' = calls /\ pane.sending = "no"
    BY <1>2 DEF C!onChange, C!Does
  <2>2. ComposerShape(pane') /\ pane'.input = text /\ pane'.owed = (text = "typed")
    BY <1>1, <2>1 DEF ComposerShape, ComposerFields
  <2>3. OneOnItsWay(pane', calls')
    BY <1>1, <2>1 DEF OneOnItsWay
  <2>4. Kept(pane', calls')
    BY <2>2 DEF Kept
  <2>5. QED BY <1>1, <2>1, <2>2, <2>3, <2>4, ComposerNow
<1>3. CASE C!onAnswer \/ C!cancelAnswering
  <2>1. PICK text, files, answering :
          /\ pane' = [C!PutAside(pane) EXCEPT !.input = text, !.files = files, !.answering = answering]
          /\ text # "typed" /\ calls' = calls
    <3>1. CASE C!onAnswer
      BY <3>1 DEF C!onAnswer, C!Does, C!None
    <3>2. CASE C!cancelAnswering
      <4>1. pane' = [C!PutAside(pane) EXCEPT !.input = C!None, !.files = pane.files, !.answering = C!None]
        BY <1>1, <3>2 DEF C!cancelAnswering, C!Does, C!PutAside, ComposerFields
      <4>2. calls' = calls
        BY <3>2 DEF C!cancelAnswering, C!Does
      <4>3. QED BY <4>1, <4>2 DEF C!None
    <3>3. QED BY <1>3, <3>1, <3>2
  <2>2. /\ ComposerShape(pane') /\ pane'.input = text /\ pane'.sending = pane.sending
        /\ pane'.owed = (pane.owed /\ pane.input # "typed")
    BY <1>1, <2>1 DEF ComposerShape, ComposerFields, C!PutAside
  <2>3. OneOnItsWay(pane', calls')
    BY <1>1, <2>1, <2>2 DEF OneOnItsWay
  <2>4. Kept(pane', calls')
    BY <1>1, <2>1, <2>2 DEF Kept
  <2>5. QED BY <1>1, <2>1, <2>2, <2>3, <2>4, ComposerNow
<1>4. CASE C!send
  <2>1. PICK what \in C!Sends : \E base :
          C!Begins([pane EXCEPT !.sending = "sending", !.input = C!None, !.files = {}],
                   [C!Call(what, pane.answering) EXCEPT !.base = base, !.made = [text |-> pane.input, files |-> pane.files]])
    BY <1>4 DEF C!send, C!Sends
  <2> PICK base : C!Begins([pane EXCEPT !.sending = "sending", !.input = C!None, !.files = {}],
                           [C!Call(what, pane.answering) EXCEPT !.base = base,
                                                                !.made = [text |-> pane.input, files |-> pane.files]])
    BY <2>1
  <2> DEFINE p == [pane EXCEPT !.sending = "sending", !.input = C!None, !.files = {}]
             d == [C!Call(what, pane.answering) EXCEPT !.base = base, !.made = [text |-> pane.input, files |-> pane.files]]
  <2>2. /\ DOMAIN d = CallFields /\ d.what \in C!Sends /\ d.made.text = pane.input /\ ~d.done
    BY DEF C!Call, CallFields
  <2>3. ComposerShape(p) /\ p.sending = "sending" /\ p.input # "typed" /\ p.owed = pane.owed
    BY <1>1 DEF ComposerShape, ComposerFields, C!None
  <2>4. pane' = p /\ calls' = calls \cup {d} /\ pane.sending = "no"
    BY <1>4, <2>1 DEF C!Begins, C!send, C!SendFree
  <2> HIDE DEF p, d
  <2>5. \A c \in calls : c.what \notin C!Sends
    BY <1>1, <2>4 DEF OneOnItsWay
  <2>6. OneOnItsWay(pane', calls')
    BY <2>2, <2>3, <2>4, <2>5 DEF OneOnItsWay
  <2>7. Kept(pane', calls')
    BY <1>1, <2>2, <2>3, <2>4, <2>5 DEF Kept, OnItsWay
  <2>8. QED BY <1>1, <2>2, <2>3, <2>4, <2>6, <2>7, ComposerNow
<1>5. QED BY <1>2, <1>3, <1>4

(* What becomes of a text that is on its way.                                  *)
LEMMA ComposerSends ==
  ASSUME ComposerInv, NEW c \in calls, C!uploadThreadArtifact(c) \/ C!HubTakes(c) \/ C!Sent(c) \/ C!NotSent(c)
  PROVE  ComposerInv'
<1>1. /\ ComposerShape(pane) /\ DOMAIN pane = ComposerFields /\ \A d \in calls : DOMAIN d = CallFields
      /\ OneOnItsWay(pane, calls) /\ Kept(pane, calls)
  BY DEF ComposerInv, ComposerShape, CallsShape
<1>2. c.what \in C!Sends
  BY DEF C!uploadThreadArtifact, C!HubTakes, C!Sent, C!NotSent, C!Sends
<1>3. pane.sending = "sending" /\ pane.input # "typed" /\ \A d \in calls : d.what \in C!Sends => d = c
  BY <1>1, <1>2 DEF OneOnItsWay
<1>4. pane.owed => c.made.text = "typed" /\ ~c.done
  BY <1>1, <1>3 DEF Kept, OnItsWay
<1>5. ASSUME NEW d, DOMAIN d = CallFields, d.what \in C!Sends, calls' = (calls \ {c}) \cup {d},
             ComposerShape(pane'), pane'.sending = pane.sending, pane'.input = pane.input,
             pane'.owed => d.made.text = "typed" /\ ~d.done
      PROVE  ComposerInv'
  <2>1. OneOnItsWay(pane', calls')
    BY <1>3, <1>5 DEF OneOnItsWay
  <2>2. Kept(pane', calls')
    BY <1>5 DEF Kept, OnItsWay
  <2>3. QED BY <1>1, <1>5, <2>1, <2>2, ComposerNow
<1>6. CASE C!uploadThreadArtifact(c)
  <2>1. PICK d : /\ d \in {[c EXCEPT !.what = "turn", !.base = 0], [c EXCEPT !.base = @ - 1]}
                 /\ calls' = (calls \ {c}) \cup {d} /\ pane' = pane
    BY <1>6 DEF C!uploadThreadArtifact
  <2>2. DOMAIN d = CallFields /\ d.what \in C!Sends /\ d.made = c.made /\ d.done = c.done
    BY <1>1, <1>2, <2>1 DEF CallFields, C!Sends
  <2>3. QED BY <1>1, <1>4, <1>5, <2>1, <2>2
<1>7. CASE C!HubTakes(c)
  <2> DEFINE d == [c EXCEPT !.done = TRUE]
  <2>1. calls' = (calls \ {c}) \cup {d} /\ pane' = [pane EXCEPT !.owed = @ /\ c.made.text # "typed"]
    BY <1>7 DEF C!HubTakes, C!Served
  <2>2. DOMAIN d = CallFields /\ d.what \in C!Sends
    BY <1>1, <1>2 DEF CallFields
  <2> HIDE DEF d
  <2>3. /\ ComposerShape(pane') /\ pane'.sending = pane.sending /\ pane'.input = pane.input
        /\ pane'.owed = (pane.owed /\ c.made.text # "typed")
    BY <1>1, <2>1 DEF ComposerShape, ComposerFields
  <2>4. QED BY <1>4, <1>5, <2>1, <2>2, <2>3
<1>8. CASE C!Sent(c)
  <2>1. /\ pane' \in {[pane EXCEPT !.sending = "refresh", !.answering = C!None], [pane EXCEPT !.sending = "no"]}
        /\ calls' \in {C!Invalidated(calls, {"requests"}) \ {c}, calls \ {c}}
        /\ c.done
    BY <1>8 DEF C!Sent, C!Ends
  <2>2. ComposerShape(pane') /\ pane'.owed = pane.owed
    BY <1>1, <2>1 DEF ComposerShape, ComposerFields
  <2>3. /\ \A d \in calls' : DOMAIN d = CallFields
        /\ \A d \in calls' : d.what \notin C!Sends
    BY <1>1, <1>3, <2>1 DEF C!Invalidated, C!Anew, C!Call, CallFields, C!Sends
  <2>4. QED BY <1>4, <2>1, <2>2, <2>3, ComposerNow DEF OneOnItsWay, Kept
<1>9. CASE C!NotSent(c)
  <2>1. pane' = [pane EXCEPT !.input = c.made.text, !.files = c.made.files, !.sending = "no"] /\ calls' = calls \ {c}
    BY <1>9 DEF C!NotSent
  <2>2. ComposerShape(pane') /\ pane'.owed = pane.owed /\ pane'.input = c.made.text
    BY <1>1, <2>1 DEF ComposerShape, ComposerFields
  <2>3. OneOnItsWay(pane', calls')
    BY <1>3, <2>1 DEF OneOnItsWay
  <2>4. Kept(pane', calls')
    BY <1>4, <2>2 DEF Kept
  <2>5. QED BY <1>1, <2>1, <2>2, <2>3, <2>4, ComposerNow
<1>10. QED BY <1>6, <1>7, <1>8, <1>9

LEMMA ComposerKept ==
  ASSUME ComposerInv, C!ComposerNext
  PROVE  ComposerInv'
<1>1. CASE \/ C!HubMoves \/ C!Hear
           \/ \E c \in calls : C!ListAnswered(c) \/ C!ListFailed(c)
           \/ C!addAttachmentFiles \/ C!removeAttachment \/ C!DropAnswering \/ C!Refreshed \/ C!HeldEnds
  BY <1>1, ComposerHears
<1>2. CASE \/ C!interrupt \/ C!continueInterruptedTurn \/ C!dismissInterruptedTurn
           \/ C!continueHeldMessage \/ C!closeHeldMessage \/ C!GoalBar
           \/ \E c \in calls : C!HubActs(c) \/ C!OrderDone(c) \/ C!OrderFails(c)
  BY <1>2, ComposerOrders
<1>3. CASE C!onChange \/ C!onAnswer \/ C!cancelAnswering \/ C!send
  BY <1>3, ComposerWrites
<1>4. CASE \E c \in calls : C!uploadThreadArtifact(c) \/ C!HubTakes(c) \/ C!Sent(c) \/ C!NotSent(c)
  BY <1>4, ComposerSends
<1>5. QED BY <1>1, <1>2, <1>3, <1>4 DEF C!ComposerNext

LEMMA ComposerInit ==
  ASSUME C!ComposerInit
  PROVE  ComposerInv
BY DEF C!ComposerInit, ComposerInv, ComposerShape, ComposerFields, CallsShape, OneOnItsWay, Kept

----------------------------------------------------------------------------
(* The Host's files.                                                           *)

FilesFields ==
  {"kind", "seen", "initial", "path", "homePending", "homeError", "homeRequested", "direct", "before", "node",
   "error", "preview", "text", "previewError"}
FilesShape(p) == DOMAIN p = FilesFields /\ p.kind = "files" /\ DOMAIN p.seen = {}

(* What is asked for, and what is shown, is of the path and the file of p.     *)
AskedOf(p, cs) ==
  \A c \in cs : /\ c.what = "node" => c.item = p.path
                /\ c.what = "text" => c.item = p.preview
ShownOf(p) ==
  /\ p.node # None => p.node = p.path
  /\ p.text # None => p.text = p.preview
FilesInv == FilesShape(pane) /\ AskedOf(pane, calls) /\ ShownOf(pane)

(* What q is to the pane before the effects of a step: the same is shown.      *)
NowOf(q) == FilesShape(q) /\ q.node = pane.node /\ q.text = pane.text

LEMMA FilesNow ==
  ASSUME FilesShape(pane'), AskedOf(pane', calls'), ShownOf(pane')
  PROVE  FilesInv'
BY DEF FilesInv, FilesShape, AskedOf, ShownOf, None

LEMMA FilesCallsMade ==
  ASSUME NEW q, NEW cs, AskedOf(pane, cs), NEW again
  PROVE  AskedOf(q, F!NodeCalls(F!TextCalls(F!HomeCalls(cs, again), q, again), q, again))
<1> DEFINE home == F!HomeCalls(cs, again)
           text == F!TextCalls(home, q, again)
<1>1. ASSUME NEW what, NEW item PROVE F!Call(what, item).what = what /\ F!Call(what, item).item = item
  BY DEF F!Call
<1>2. AskedOf(pane, home)
  BY <1>1 DEF F!HomeCalls, AskedOf
<1> HIDE DEF home
<1>3. \A c \in text : (c.what = "node" => c.item = pane.path) /\ (c.what = "text" => c.item = q.preview)
  BY <1>1, <1>2 DEF F!TextCalls, F!PreviewOf, AskedOf
<1> HIDE DEF text
<1>4. AskedOf(q, F!NodeCalls(text, q, again))
  BY <1>1, <1>3 DEF F!NodeCalls, AskedOf
<1>5. QED BY <1>4 DEF text, home

LEMMA FilesEmptied ==
  ASSUME FilesInv, NEW q, NowOf(q), NEW again
  PROVE  LET p == F!Emptied(q, again)
         IN FilesShape(p) /\ ShownOf(p) /\ p.path = q.path /\ p.preview = q.preview
BY DEF FilesInv, FilesShape, FilesFields, NowOf, ShownOf, F!Emptied, F!None, None

LEMMA FilesStep ==
  ASSUME FilesInv, NEW q, NowOf(q), NEW cs, cs \subseteq calls, NEW again, F!Step(q, cs, again)
  PROVE  FilesInv'
<1>1. AskedOf(pane, cs)
  BY DEF FilesInv, AskedOf
<1>2. AskedOf(q, calls') /\ pane' = F!Emptied(q, again)
  BY <1>1, FilesCallsMade DEF F!Step
<1>3. QED BY <1>2, FilesEmptied, FilesNow DEF AskedOf

LEMMA FilesAddressed ==
  ASSUME NEW q, NowOf(q), NEW path
  PROVE  NowOf(F!Addressed(q, path)) /\ (q.path = path => F!Addressed(q, path).path = path)
BY DEF FilesShape, FilesFields, NowOf, F!Addressed

LEMMA FilesAnswered ==
  ASSUME FilesInv, NEW c \in calls, F!fetchHostHome(c) \/ F!fetchHostFileNode(c) \/ F!fetchHostTextPreview(c)
  PROVE  FilesInv'
<1>1. FilesShape(pane) /\ DOMAIN pane = FilesFields /\ AskedOf(pane, calls) /\ ShownOf(pane)
  BY DEF FilesInv, FilesShape
<1>2. calls \ {c} \subseteq calls /\ AskedOf(pane, calls \ {c})
  BY <1>1 DEF AskedOf
<1>3. CASE F!fetchHostHome(c)
  <2> DEFINE q == [pane EXCEPT !.homePending = FALSE, !.path = Home]
  <2>1. NowOf(q)
    BY <1>1 DEF FilesShape, FilesFields, NowOf
  <2>2. \/ F!Step(q, calls \ {c}, {})
        \/ /\ pane' = [pane EXCEPT !.homePending = FALSE, !.homeError = TRUE, !.error = TRUE]
           /\ calls' = {d \in calls : d.what \notin {"home", "node"}}
    BY <1>3 DEF F!fetchHostHome
  <2> HIDE DEF q
  <2>3. CASE F!Step(q, calls \ {c}, {})
    BY <1>2, <2>1, <2>3, FilesStep
  <2>4. CASE /\ pane' = [pane EXCEPT !.homePending = FALSE, !.homeError = TRUE, !.error = TRUE]
             /\ calls' = {d \in calls : d.what \notin {"home", "node"}}
    <3>1. FilesShape(pane') /\ ShownOf(pane') /\ pane'.path = pane.path /\ pane'.preview = pane.preview
      BY <1>1, <2>4 DEF FilesShape, FilesFields, ShownOf
    <3>2. AskedOf(pane', calls')
      BY <1>1, <2>4, <3>1 DEF AskedOf
    <3>3. QED BY <3>1, <3>2, FilesNow
  <2>5. QED BY <2>2, <2>3, <2>4
<1>4. CASE F!fetchHostFileNode(c)
  <2> DEFINE direct == pane.direct = c.item
             arrived == [pane EXCEPT !.direct = IF direct THEN F!None ELSE @]
             opened == IF direct THEN F!Addressed(arrived, c.item) ELSE arrived
             q == [opened EXCEPT !.preview = IF c.item \in Files THEN c.item ELSE @]
             left == [arrived EXCEPT !.path = pane.before]
  <2>1. c.item = pane.path
    BY <1>1, <1>4 DEF F!fetchHostFileNode, AskedOf
  <2>2. NowOf(arrived) /\ arrived.path = c.item
    BY <1>1, <2>1 DEF FilesShape, FilesFields, NowOf
  <2>3. NowOf(left)
    BY <1>1 DEF FilesShape, FilesFields, NowOf
  <2>4. NowOf(opened) /\ opened.path = c.item
    <3> HIDE DEF arrived
    <3>1. QED BY <2>2, FilesAddressed
  <2>5. \/ \E again : /\ pane' = [F!Emptied(q, again) EXCEPT !.node = c.item]
                      /\ calls' = F!NodeCalls(F!TextCalls(F!HomeCalls(calls \ {c}, again), pane', again), pane', again)
        \/ F!Step(left, calls \ {c}, {})
        \/ pane' = [pane EXCEPT !.node = F!None, !.error = TRUE] /\ calls' = calls \ {c}
    BY <1>4 DEF F!fetchHostFileNode
  <2>6. ASSUME NEW again, pane' = [F!Emptied(q, again) EXCEPT !.node = c.item],
               calls' = F!NodeCalls(F!TextCalls(F!HomeCalls(calls \ {c}, again), pane', again), pane', again)
        PROVE  FilesInv'
    <3>1. NowOf(q) /\ q.path = c.item
      <4> HIDE DEF opened
      <4>1. QED BY <2>4 DEF NowOf, FilesShape, FilesFields
    <3> HIDE DEF q
    <3> DEFINE p == F!Emptied(q, again)
    <3>2. FilesShape(p) /\ ShownOf(p) /\ p.path = c.item
      BY <3>1, FilesEmptied
    <3>3. pane' = [p EXCEPT !.node = c.item]
      BY <2>6
    <3> HIDE DEF p
    <3>4. FilesShape(pane') /\ ShownOf(pane')
      BY <3>2, <3>3 DEF FilesShape, FilesFields, ShownOf
    <3>5. AskedOf(pane', calls')
      BY <1>2, <2>6, FilesCallsMade
    <3>6. QED BY <3>4, <3>5, FilesNow
  <2> HIDE DEF q, left
  <2>7. CASE F!Step(left, calls \ {c}, {})
    BY <1>2, <2>3, <2>7, FilesStep
  <2>8. CASE pane' = [pane EXCEPT !.node = F!None, !.error = TRUE] /\ calls' = calls \ {c}
    <3>1. FilesShape(pane') /\ ShownOf(pane') /\ pane'.path = pane.path /\ pane'.preview = pane.preview
      BY <1>1, <2>8 DEF FilesShape, FilesFields, ShownOf, F!None, None
    <3>2. AskedOf(pane', calls')
      BY <1>2, <2>8, <3>1 DEF AskedOf
    <3>3. QED BY <3>1, <3>2, FilesNow
  <2>9. QED BY <2>5, <2>6, <2>7, <2>8
<1>5. CASE F!fetchHostTextPreview(c)
  <2>1. /\ pane' \in {[pane EXCEPT !.text = c.item], [pane EXCEPT !.previewError = TRUE]}
        /\ calls' = calls \ {c} /\ c.what = "text"
    BY <1>5 DEF F!fetchHostTextPreview
  <2>2. c.item = pane.preview
    BY <1>1, <2>1 DEF AskedOf
  <2>3. FilesShape(pane') /\ ShownOf(pane') /\ pane'.path = pane.path /\ pane'.preview = pane.preview
    BY <1>1, <2>1, <2>2 DEF FilesShape, FilesFields, ShownOf
  <2>4. AskedOf(pane', calls')
    BY <1>2, <2>1, <2>3 DEF AskedOf
  <2>5. QED BY <2>3, <2>4, FilesNow
<1>6. QED BY <1>3, <1>4, <1>5

LEMMA FilesActs ==
  ASSUME FilesInv,
         \/ F!goHome \/ F!openEntry \/ F!openPath \/ F!submitPath \/ F!OpenHostFile
         \/ F!refresh \/ F!retryPreview \/ F!closePreview
  PROVE  FilesInv'
<1>1. FilesShape(pane) /\ DOMAIN pane = FilesFields
  BY DEF FilesInv, FilesShape
<1>2. ASSUME NEW q, NowOf(q), NEW again, F!Step(q, calls, again) PROVE FilesInv'
  BY <1>2, FilesStep
<1>3. NowOf(pane) /\ NowOf(F!Left) /\ \A x : NowOf([F!Left EXCEPT !.path = x])
  BY <1>1 DEF NowOf, FilesShape, FilesFields, F!Left
<1>4. CASE F!goHome
  <2>1. NowOf([F!Left EXCEPT !.homeError = FALSE, !.homePending = TRUE, !.homeRequested = TRUE, !.path = F!Root,
                             !.initial = F!Root])
    BY <1>1 DEF NowOf, FilesShape, FilesFields, F!Left
  <2>2. QED BY <1>2, <1>4, <2>1 DEF F!goHome
<1>5. CASE F!openEntry
  <2>1. \A x : NowOf([pane EXCEPT !.preview = x])
    BY <1>1 DEF NowOf, FilesShape, FilesFields
  <2>2. PICK x : F!Step([pane EXCEPT !.preview = x], calls, {}) \/ F!Step([F!Left EXCEPT !.path = x], calls, {})
    BY <1>5 DEF F!openEntry
  <2>3. QED BY <1>2, <1>3, <2>1, <2>2
<1>6. CASE F!openPath
  <2>1. PICK x : \E again : F!Step(F!Addressed([F!Left EXCEPT !.path = x], x), calls, again)
    BY <1>6 DEF F!openPath
  <2>2. NowOf(F!Addressed([F!Left EXCEPT !.path = x], x))
    BY <1>3, FilesAddressed
  <2>3. QED BY <1>2, <2>1, <2>2
<1>7. CASE F!submitPath
  <2>1. PICK x : \/ F!Step([pane EXCEPT !.preview = F!None], calls, {"node"})
                 \/ F!Step([pane EXCEPT !.preview = F!None, !.before = pane.path, !.direct = x, !.path = x], calls, {})
    BY <1>7 DEF F!submitPath
  <2>2. /\ NowOf([pane EXCEPT !.preview = F!None])
        /\ NowOf([pane EXCEPT !.preview = F!None, !.before = pane.path, !.direct = x, !.path = x])
    BY <1>1 DEF NowOf, FilesShape, FilesFields
  <2>3. QED BY <1>2, <2>1, <2>2
<1>8. CASE F!OpenHostFile
  <2>1. PICK x : \E again : F!Step(F!Addressed(pane, x), calls, again)
    BY <1>8 DEF F!OpenHostFile
  <2>2. NowOf(F!Addressed(pane, x))
    BY <1>3, FilesAddressed
  <2>3. QED BY <1>2, <2>1, <2>2
<1>9. CASE F!refresh \/ F!retryPreview \/ F!closePreview
  <2>1. NowOf([pane EXCEPT !.homePending = TRUE, !.homeError = FALSE]) /\ NowOf([pane EXCEPT !.preview = F!None])
    BY <1>1 DEF NowOf, FilesShape, FilesFields
  <2>2. QED BY <1>2, <1>3, <1>9, <2>1 DEF F!refresh, F!retryPreview, F!closePreview
<1>10. QED BY <1>4, <1>5, <1>6, <1>7, <1>8, <1>9

LEMMA FilesKept ==
  ASSUME FilesInv, F!HostFilesNext
  PROVE  FilesInv'
<1>1. CASE F!HostMoves
  BY <1>1 DEF F!HostMoves, F!HubChanges, FilesInv, FilesShape, AskedOf, ShownOf, None
<1>2. QED BY <1>1, FilesAnswered, FilesActs DEF F!HostFilesNext

LEMMA FilesInit ==
  ASSUME F!HostFilesInit
  PROVE  FilesInv
<1>1. PICK initial : /\ pane.path = initial /\ pane.node = F!None /\ pane.text = F!None
                     /\ FilesShape(pane) /\ calls \in {{F!Call("home", F!None)}, {F!Call("node", initial)}}
  BY DEF F!HostFilesInit, FilesShape, FilesFields, F!NothingSeen
<1>2. QED BY <1>1 DEF FilesInv, AskedOf, ShownOf, F!Call, F!None, None

----------------------------------------------------------------------------
(* The reader of a thread.                                                     *)

ScrollFields == {"kind", "seen", "height", "top", "saved", "anchor", "initial", "stick", "restoring", "keep", "older",
                 "active", "timers", "reader"}

(* Where the page is and may be brought back to is a place; what brings it     *)
(* there, or keeps a place under new rows, is on its way.                      *)
ScrollOK(p) ==
  /\ DOMAIN p = ScrollFields
  /\ p.height \in Nat /\ p.top \in Int /\ p.saved \in Int /\ p.anchor \in Int /\ p.keep \in Int
  /\ p.top <= S!Bottom(p) /\ p.anchor <= S!Bottom(p) /\ p.keep <= p.height
  /\ p.active /\ p.keep # S!Nowhere => "feed" \in p.timers
  /\ "restore" \in p.timers => p.restoring /\ p.keep = S!Nowhere

(* The page is not at the bottom, and nothing that is on its way brings it     *)
(* there: an anchor of old that is the bottom is replaced before it is used.   *)
Away(p) ==
  /\ 0 < S!Bottom(p) /\ p.top < S!Bottom(p) /\ p.saved < S!Bottom(p)
  /\ ~S!Pins(p) /\ "bottom" \notin p.timers
  /\ p.keep # S!Nowhere => 0 < p.keep - View /\ p.top < p.keep - View
  /\ \/ p.anchor < S!Bottom(p)
     \/ "anchor" \in p.timers /\ p.active /\ p.timers \cap {"feed", "restore"} = {}

ScrollInv == ScrollOK(pane) /\ (pane.reader = "up" => Away(pane))

(* A step of the page's own.                                                   *)
Scrolls(p, q) == ScrollOK(q) /\ q.reader = p.reader /\ (Away(p) => Away(q))

LEMMA ScrollsTwice ==
  ASSUME NEW p, NEW q, NEW r, Scrolls(p, q), Scrolls(q, r)
  PROVE  Scrolls(p, r)
BY DEF Scrolls

LEMMA BottomFacts ==
  ASSUME NEW p, p.height \in Nat
  PROVE  /\ S!Bottom(p) \in Nat /\ p.height - View <= S!Bottom(p)
         /\ 0 < S!Bottom(p) => S!Bottom(p) = p.height - View
BY ViewAssumption DEF S!Bottom, S!Later

LEMMA ScrollHeard ==
  ASSUME NEW p, ScrollOK(p)
  PROVE  Scrolls(p, S!onScroll(p))
<1> DEFINE pinned == ~(p.top < p.saved) /\ S!AtBottom(p)
           q == [p EXCEPT !.initial = FALSE, !.saved = p.top, !.stick = pinned, !.older = @ \/ p.top = 0,
                          !.anchor = IF pinned THEN S!Nowhere ELSE @,
                          !.timers = IF pinned THEN @ ELSE (@ \ {"pin", "bottom"}) \cup {"anchor"}]
<1>1. S!onScroll(p) = p \/ S!onScroll(p) = q
  BY DEF S!onScroll
<1>2. S!Bottom(p) \in Nat /\ DOMAIN p = ScrollFields /\ S!Nowhere = -1
  BY BottomFacts DEF ScrollOK, S!Nowhere
<1>3. /\ DOMAIN q = ScrollFields /\ q.height = p.height /\ q.top = p.top /\ q.saved = p.top /\ q.keep = p.keep
      /\ q.active = p.active /\ q.restoring = p.restoring /\ q.reader = p.reader
      /\ q.anchor = IF pinned THEN S!Nowhere ELSE p.anchor
      /\ q.timers = IF pinned THEN p.timers ELSE (p.timers \ {"pin", "bottom"}) \cup {"anchor"}
  BY <1>2 DEF ScrollFields
<1>4. q.initial = FALSE /\ q.stick = pinned
  BY <1>2 DEF ScrollFields
<1>5. Away(p) => ~pinned
  BY <1>2 DEF Away, ScrollOK, S!AtBottom
<1> HIDE DEF q, pinned
<1>6. S!Bottom(q) = S!Bottom(p)
  BY <1>3 DEF S!Bottom
<1>7. ScrollOK(q)
  BY <1>2, <1>3, <1>6 DEF ScrollOK
<1>8. Away(p) => Away(q)
  <2>1. SUFFICES ASSUME Away(p) PROVE Away(q)
    OBVIOUS
  <2>2. ~S!Pins(q)
    BY <1>4, <1>5, <2>1 DEF S!Pins
  <2>3. q.anchor = p.anchor /\ q.timers = (p.timers \ {"pin", "bottom"}) \cup {"anchor"}
    BY <1>3, <1>5, <2>1
  <2>4. QED BY <1>3, <1>6, <2>1, <2>2, <2>3 DEF Away
<1>9. Scrolls(p, p) /\ Scrolls(p, q)
  BY <1>3, <1>7, <1>8 DEF Scrolls
<1>10. QED BY <1>1, <1>9

(* A timer that changes nothing else, or is set.                               *)
LEMMA TimerOver ==
  ASSUME NEW p, ScrollOK(p), NEW timer, timer \notin {"feed", "anchor"}
  PROVE  Scrolls(p, S!Done(p, timer))
<1> DEFINE q == S!Done(p, timer)
<1>1. q = [p EXCEPT !.timers = @ \ {timer}] /\ DOMAIN p = ScrollFields
  BY DEF S!Done, ScrollOK
<1>2. DOMAIN q = ScrollFields /\ q.timers = p.timers \ {timer} /\ \A x \in ScrollFields \ {"timers"} : q[x] = p[x]
  BY <1>1 DEF ScrollFields
<1> HIDE DEF q
<1>3. S!Bottom(q) = S!Bottom(p) /\ S!Pins(q) = S!Pins(p)
  BY <1>2 DEF S!Bottom, S!Pins, ScrollFields
<1>4. ScrollOK(q)
  BY <1>2, <1>3 DEF ScrollOK, ScrollFields
<1>5. Away(p) => Away(q)
  BY <1>2, <1>3 DEF Away, ScrollFields
<1>6. QED BY <1>2, <1>4, <1>5 DEF Scrolls, q, ScrollFields

LEMMA TimerSet ==
  ASSUME NEW p, ScrollOK(p), NEW timer \in {"settle", "pin", "jump"}
  PROVE  Scrolls(p, S!Due(p, timer))
<1> DEFINE q == S!Due(p, timer)
<1>1. q = [p EXCEPT !.timers = @ \cup {timer}] /\ DOMAIN p = ScrollFields
  BY DEF S!Due, ScrollOK
<1>2. DOMAIN q = ScrollFields /\ q.timers = p.timers \cup {timer} /\ \A x \in ScrollFields \ {"timers"} : q[x] = p[x]
  BY <1>1 DEF ScrollFields
<1> HIDE DEF q
<1>3. S!Bottom(q) = S!Bottom(p) /\ S!Pins(q) = S!Pins(p)
  BY <1>2 DEF S!Bottom, S!Pins, ScrollFields
<1>4. ScrollOK(q)
  BY <1>2, <1>3 DEF ScrollOK, ScrollFields
<1>5. Away(p) => Away(q)
  BY <1>2, <1>3 DEF Away, ScrollFields
<1>6. QED BY <1>2, <1>4, <1>5 DEF Scrolls, q, ScrollFields

(* The page goes to a place.                                                   *)
LEMMA Goes ==
  ASSUME NEW p, ScrollOK(p), NEW top \in Int
  PROVE  LET q == S!To(p, top)
         IN /\ ScrollOK(q) /\ \A x \in ScrollFields \ {"top"} : q[x] = p[x]
            /\ S!Bottom(q) = S!Bottom(p) /\ S!Pins(q) = S!Pins(p)
            /\ q.top = IF top > S!Bottom(p) THEN S!Bottom(p) ELSE top
<1> DEFINE q == S!To(p, top)
<1>1. q = [p EXCEPT !.top = IF top > S!Bottom(p) THEN S!Bottom(p) ELSE top] /\ DOMAIN p = ScrollFields
  BY DEF S!To, ScrollOK
<1>2. /\ DOMAIN q = ScrollFields /\ \A x \in ScrollFields \ {"top"} : q[x] = p[x]
      /\ q.top = IF top > S!Bottom(p) THEN S!Bottom(p) ELSE top
  BY <1>1 DEF ScrollFields
<1>0. S!Bottom(p) \in Nat
  BY BottomFacts DEF ScrollOK
<1> HIDE DEF q
<1>3. S!Bottom(q) = S!Bottom(p) /\ S!Pins(q) = S!Pins(p)
  BY <1>2 DEF S!Bottom, S!Pins, ScrollFields
<1>4. ScrollOK(q)
  BY <1>0, <1>2, <1>3 DEF ScrollOK, ScrollFields
<1>5. QED BY <1>2, <1>3, <1>4 DEF q

(* To the bottom it goes only if it is to be there.                            *)
LEMMA GoesDown ==
  ASSUME NEW p, ScrollOK(p), S!Pins(p)
  PROVE  Scrolls(p, S!To(p, S!Bottom(p))) /\ S!Pins(S!To(p, S!Bottom(p)))
<1> DEFINE q == S!To(p, S!Bottom(p))
<1>1. S!Bottom(p) \in Int
  BY BottomFacts DEF ScrollOK
<1>2. ScrollOK(q) /\ q.reader = p.reader /\ S!Pins(q) = S!Pins(p)
  BY <1>1, Goes DEF ScrollFields
<1>3. QED BY <1>2 DEF Scrolls, Away

(* The place seen last is another.                                             *)
LEMMA Remembered ==
  ASSUME NEW p, ScrollOK(p), NEW top \in Int, Away(p) => top < S!Bottom(p)
  PROVE  Scrolls(p, [p EXCEPT !.saved = top])
<1> DEFINE q == [p EXCEPT !.saved = top]
<1>1. DOMAIN q = ScrollFields /\ q.saved = top /\ \A x \in ScrollFields \ {"saved"} : q[x] = p[x]
  BY DEF ScrollOK, ScrollFields
<1> HIDE DEF q
<1>2. S!Bottom(q) = S!Bottom(p) /\ S!Pins(q) = S!Pins(p)
  BY <1>1 DEF S!Bottom, S!Pins, ScrollFields
<1>3. ScrollOK(q)
  BY <1>1, <1>2 DEF ScrollOK, ScrollFields
<1>4. Away(p) => Away(q)
  BY <1>1, <1>2 DEF Away, ScrollFields
<1>5. QED BY <1>1, <1>3, <1>4 DEF Scrolls, q, ScrollFields

(* Everything but the timers of the page's own that end with onScroll.         *)
LEMMA HeardAfter ==
  ASSUME NEW p, ScrollOK(p), NEW q, Scrolls(p, q)
  PROVE  Scrolls(p, S!onScroll(q))
BY ScrollHeard, ScrollsTwice DEF Scrolls

LEMMA FeedFires ==
  ASSUME ScrollOK(pane), S!FeedTimer
  PROVE  Scrolls(pane, pane')
<1> DEFINE p == S!Done(pane, "feed")
           moved == p.top + p.height - p.keep
           back == [S!To(p, moved) EXCEPT !.keep = S!Nowhere, !.saved = moved]
           down == S!Due(S!To(p, S!Bottom(p)), "settle")
           bring == S!Due([p EXCEPT !.restoring = TRUE], "restore")
<1>1. /\ "feed" \in pane.timers
      /\ pane' = IF p.keep # S!Nowhere THEN S!onScroll(back)
                 ELSE IF S!Pins(p) THEN S!onScroll(down) ELSE bring
  BY DEF S!FeedTimer, S!Fires
<1>2. DOMAIN pane = ScrollFields
  BY DEF ScrollOK
<1>3. p = [pane EXCEPT !.timers = @ \ {"feed"}]
  BY DEF S!Done
<1>4. DOMAIN p = ScrollFields /\ p.timers = pane.timers \ {"feed"} /\ \A x \in ScrollFields \ {"timers"} : p[x] = pane[x]
  BY <1>2, <1>3 DEF ScrollFields
<1>5. /\ p.height = pane.height /\ p.top = pane.top /\ p.keep = pane.keep /\ p.saved = pane.saved
      /\ p.anchor = pane.anchor /\ p.active = pane.active /\ p.restoring = pane.restoring /\ p.reader = pane.reader
      /\ p.initial = pane.initial /\ p.stick = pane.stick
  BY <1>4 DEF ScrollFields
<1>6. moved \in Int /\ moved = pane.top + pane.height - pane.keep
  BY <1>5 DEF ScrollOK
<1> HIDE DEF p, moved
<1>7. S!Bottom(p) = S!Bottom(pane) /\ S!Pins(p) = S!Pins(pane) /\ S!Bottom(pane) \in Nat
  BY <1>5, BottomFacts DEF S!Bottom, S!Pins, ScrollOK
<1>8. CASE p.keep # S!Nowhere
  <2>1. back = [p EXCEPT !.top = IF moved > S!Bottom(p) THEN S!Bottom(p) ELSE moved, !.keep = S!Nowhere, !.saved = moved]
    BY <1>4 DEF S!To
  <2>2. /\ DOMAIN back = ScrollFields /\ back.keep = S!Nowhere /\ back.saved = moved
        /\ back.top = IF moved > S!Bottom(p) THEN S!Bottom(p) ELSE moved
        /\ back.height = p.height /\ back.anchor = p.anchor /\ back.active = p.active /\ back.restoring = p.restoring
        /\ back.timers = p.timers /\ back.reader = p.reader /\ back.initial = p.initial /\ back.stick = p.stick
    BY <1>4, <2>1 DEF ScrollFields
  <2> HIDE DEF back
  <2>3. S!Bottom(back) = S!Bottom(pane) /\ S!Pins(back) = S!Pins(pane)
    BY <1>5, <1>7, <2>2 DEF S!Bottom, S!Pins
  <2>4. ScrollOK(back)
    BY <1>4, <1>5, <1>6, <1>7, <2>2, <2>3 DEF ScrollOK, S!Nowhere
  <2>5. Away(pane) => Away(back)
    <3>1. SUFFICES ASSUME Away(pane) PROVE Away(back)
      OBVIOUS
    <3>2. pane.top < pane.keep - View /\ S!Bottom(pane) = pane.height - View
      BY <1>5, <1>8, <3>1, BottomFacts DEF Away, ScrollOK
    <3>3. moved < S!Bottom(pane)
      BY <1>6, <3>2, ViewAssumption DEF ScrollOK
    <3>4. pane.anchor < S!Bottom(pane)
      BY <1>1, <3>1 DEF Away
    <3>5. "bottom" \notin back.timers
      BY <1>4, <2>2, <3>1 DEF Away
    <3>6. back.top < S!Bottom(pane)
      BY <1>6, <1>7, <2>2, <3>3
    <3>7. QED BY <1>5, <2>2, <2>3, <3>1, <3>3, <3>4, <3>5, <3>6 DEF Away
  <2>6. Scrolls(pane, back)
    BY <1>5, <2>2, <2>4, <2>5 DEF Scrolls
  <2>7. QED BY <1>1, <1>8, <2>6, HeardAfter
<1>9. ASSUME p.keep = S!Nowhere PROVE ScrollOK(p)
  BY <1>4, <1>5, <1>7, <1>9 DEF ScrollOK
<1>10. CASE p.keep = S!Nowhere /\ S!Pins(p)
  <2>1. Scrolls(p, S!To(p, S!Bottom(p)))
    BY <1>9, <1>10, GoesDown
  <2>2. Scrolls(p, down)
    BY <2>1, TimerSet, ScrollsTwice DEF Scrolls
  <2>3. Scrolls(p, S!onScroll(down))
    BY <1>9, <1>10, <2>2, HeardAfter
  <2>4. QED BY <1>1, <1>5, <1>7, <1>10, <2>3 DEF Scrolls, Away
<1>11. CASE p.keep = S!Nowhere /\ ~S!Pins(p)
  <2>1. bring = [p EXCEPT !.restoring = TRUE, !.timers = @ \cup {"restore"}]
    BY <1>4 DEF S!Due, ScrollFields
  <2>2. /\ DOMAIN bring = ScrollFields /\ bring.restoring = TRUE /\ bring.timers = p.timers \cup {"restore"}
        /\ \A x \in ScrollFields \ {"restoring", "timers"} : bring[x] = p[x]
    BY <1>4, <2>1 DEF ScrollFields
  <2> HIDE DEF bring
  <2>3. S!Bottom(bring) = S!Bottom(pane) /\ S!Pins(bring) = S!Pins(pane)
    BY <1>7, <2>2 DEF S!Bottom, S!Pins, ScrollFields
  <2>4. ScrollOK(bring)
    BY <1>4, <1>5, <1>11, <2>2, <2>3 DEF ScrollOK, ScrollFields
  <2>5. Away(pane) => Away(bring)
    <3>1. SUFFICES ASSUME Away(pane) PROVE Away(bring)
      OBVIOUS
    <3>2. pane.anchor < S!Bottom(pane)
      BY <1>1, <3>1 DEF Away
    <3>3. "bottom" \notin bring.timers
      BY <1>4, <2>2, <3>1 DEF Away
    <3>4. /\ bring.top = pane.top /\ bring.saved = pane.saved /\ bring.keep = S!Nowhere /\ bring.anchor = pane.anchor
      BY <1>5, <1>11, <2>2 DEF ScrollFields
    <3>5. QED BY <2>3, <3>1, <3>2, <3>3, <3>4 DEF Away
  <2>6. QED BY <1>1, <1>5, <1>11, <2>2, <2>4, <2>5 DEF Scrolls, ScrollFields
<1>12. QED BY <1>8, <1>10, <1>11

LEMMA SettleFires ==
  ASSUME ScrollOK(pane), S!SettleTimer
  PROVE  Scrolls(pane, pane')
<1> DEFINE p == S!Done(pane, "settle")
           q == IF S!Pins(p) THEN S!onScroll(S!To(p, S!Bottom(p))) ELSE p
<1>1. pane' = [q EXCEPT !.saved = q.top]
  BY DEF S!SettleTimer, S!Fires
<1>2. Scrolls(pane, p)
  BY TimerOver
<1> HIDE DEF p
<1>3. Scrolls(p, q)
  <2>1. CASE S!Pins(p)
    BY <1>2, <2>1, GoesDown, HeardAfter DEF Scrolls
  <2>2. CASE ~S!Pins(p)
    BY <1>2, <2>2 DEF Scrolls
  <2>3. QED BY <2>1, <2>2
<1> HIDE DEF q
<1>4. Scrolls(q, pane')
  BY <1>1, <1>3, Remembered DEF Scrolls, ScrollOK, Away
<1>5. QED BY <1>2, <1>3, <1>4, ScrollsTwice

LEMMA RestoreFires ==
  ASSUME ScrollOK(pane), S!RestoreTimer
  PROVE  Scrolls(pane, pane')
<1> DEFINE place(p) == IF p.anchor = S!Nowhere THEN p.saved ELSE p.anchor
<1>1. ASSUME NEW p, ScrollOK(p), p.keep = S!Nowhere, Away(p) => p.anchor < S!Bottom(p)
      PROVE  Scrolls(p, S!restorePosition(p))
  <2> DEFINE q == S!To(p, place(p))
  <2>1. q = S!restorePosition(p)
    BY DEF S!restorePosition
  <2>2. place(p) \in Int
    BY <1>1 DEF ScrollOK
  <2>3. Away(p) => place(p) < S!Bottom(p)
    BY <1>1 DEF Away
  <2> DEFINE top == place(p)
  <2> HIDE DEF place
  <2>4. /\ ScrollOK(q) /\ \A x \in ScrollFields \ {"top"} : q[x] = p[x]
        /\ S!Bottom(q) = S!Bottom(p) /\ S!Pins(q) = S!Pins(p)
        /\ q.top = IF top > S!Bottom(p) THEN S!Bottom(p) ELSE top
    BY <1>1, <2>2, Goes
  <2>5. S!Bottom(p) \in Nat
    BY <1>1, BottomFacts DEF ScrollOK
  <2> HIDE DEF q
  <2>6. Away(p) => q.top < S!Bottom(p)
    BY <2>2, <2>3, <2>4, <2>5
  <2>7. Away(p) => Away(q)
    BY <1>1, <2>4, <2>6 DEF Away, ScrollFields
  <2>8. QED BY <2>1, <2>4, <2>7 DEF Scrolls, ScrollFields
<1>2. /\ "restore" \in pane.timers /\ pane.keep = S!Nowhere
  BY DEF S!RestoreTimer, S!Fires, ScrollOK
<1>3. Away(pane) => pane.anchor < S!Bottom(pane)
  BY <1>2 DEF Away
<1>4. CASE pane' = S!restorePosition(pane)
  BY <1>1, <1>2, <1>3, <1>4
<1> DEFINE p == S!Done(pane, "restore")
           q == S!restorePosition(p)
           r == [q EXCEPT !.restoring = FALSE, !.saved = q.top]
<1>5. CASE pane' = S!onScroll(r)
  <2>1. Scrolls(pane, S!restorePosition(pane))
    BY <1>1, <1>2, <1>3
  <2>2. q = S!Done(S!restorePosition(pane), "restore")
    <3>1. DOMAIN pane = ScrollFields
      BY DEF ScrollOK
    <3>2. p = [pane EXCEPT !.timers = @ \ {"restore"}]
      BY DEF S!Done
    <3>3. place(p) = place(pane) /\ S!Bottom(p) = S!Bottom(pane)
      BY <3>1, <3>2 DEF S!Bottom, ScrollFields
    <3> DEFINE top == IF place(pane) > S!Bottom(pane) THEN S!Bottom(pane) ELSE place(pane)
    <3>4. q = [p EXCEPT !.top = top]
      BY <3>3 DEF S!restorePosition, S!To
    <3>5. S!restorePosition(pane) = [pane EXCEPT !.top = top]
      BY DEF S!restorePosition, S!To
    <3> HIDE DEF top, p, q
    <3>6. [p EXCEPT !.top = top] = [[pane EXCEPT !.top = top] EXCEPT !.timers = @ \ {"restore"}]
      BY <3>1, <3>2 DEF ScrollFields
    <3>7. QED BY <3>4, <3>5, <3>6 DEF S!Done
  <2> HIDE DEF p, q
  <2>3. Scrolls(pane, q)
    BY <2>1, <2>2, TimerOver, ScrollsTwice DEF Scrolls
  <2>4. "restore" \notin q.timers
    BY <2>1, <2>2 DEF S!Done, Scrolls, ScrollOK, ScrollFields
  <2>5. ScrollOK(q)
    BY <2>3 DEF Scrolls
  <2>6. /\ DOMAIN r = ScrollFields /\ r.saved = q.top /\ r.restoring = FALSE
        /\ \A x \in ScrollFields \ {"saved", "restoring"} : r[x] = q[x]
    BY <2>5 DEF ScrollOK, ScrollFields
  <2> HIDE DEF r
  <2>7. S!Bottom(r) = S!Bottom(q) /\ S!Pins(r) = S!Pins(q)
    BY <2>6 DEF S!Bottom, S!Pins, ScrollFields
  <2>8. ScrollOK(r)
    BY <2>4, <2>5, <2>6, <2>7 DEF ScrollOK, ScrollFields
  <2>9. Away(q) => Away(r)
    BY <2>6, <2>7 DEF Away, ScrollFields
  <2>10. Scrolls(q, r)
    BY <2>6, <2>8, <2>9 DEF Scrolls, ScrollFields
  <2>11. Scrolls(pane, r)
    BY <2>3, <2>10, ScrollsTwice
  <2>12. QED BY <1>5, <2>11, HeardAfter
<1>6. pane' = S!restorePosition(pane) \/ pane' = S!onScroll(r)
  <2>1. [q EXCEPT !.restoring = FALSE, !.saved = q.top] = r
    OBVIOUS
  <2>2. QED BY DEF S!RestoreTimer, S!Fires
<1>7. QED BY <1>4, <1>5, <1>6

LEMMA AnchorFires ==
  ASSUME ScrollOK(pane), S!AnchorTimer
  PROVE  Scrolls(pane, pane')
<1>1. pane' = [S!Done(pane, "anchor") EXCEPT !.anchor = pane.top] /\ DOMAIN pane = ScrollFields
  BY DEF S!AnchorTimer, S!Fires, ScrollOK
<1>2. /\ DOMAIN pane' = ScrollFields /\ pane'.anchor = pane.top /\ pane'.timers = pane.timers \ {"anchor"}
      /\ \A x \in ScrollFields \ {"anchor", "timers"} : pane'[x] = pane[x]
  BY <1>1 DEF S!Done, ScrollFields
<1>3. S!Bottom(pane') = S!Bottom(pane) /\ S!Pins(pane') = S!Pins(pane)
  BY <1>2 DEF S!Bottom, S!Pins, ScrollFields
<1>4. ScrollOK(pane')
  BY <1>2, <1>3 DEF ScrollOK, ScrollFields
<1>5. Away(pane) => Away(pane')
  BY <1>2, <1>3 DEF Away, ScrollFields
<1>6. QED BY <1>2, <1>4, <1>5 DEF Scrolls, ScrollFields

(* What is done of a page that is to be at the bottom keeps what holds of one  *)
(* that is away from it.                                                       *)
LEMMA Pinned ==
  ASSUME NEW p, S!Pins(p), NEW q, ScrollOK(q), q.reader = p.reader
  PROVE  Scrolls(p, q)
BY DEF Scrolls, Away

LEMMA PinFires ==
  ASSUME ScrollOK(pane), S!PinTimer
  PROVE  Scrolls(pane, pane')
<1> DEFINE p == S!Done(pane, "pin")
           r == S!onScroll(S!To(p, S!Bottom(p)))
           q == [r EXCEPT !.saved = S!Bottom(p)]
<1>1. pane' = IF ~p.active \/ ~S!Pins(p) \/ (~p.initial /\ S!AtBottom(p)) THEN p
              ELSE IF q.initial THEN S!Due(q, "bottom") ELSE q
  BY DEF S!PinTimer, S!Fires
<1>2. Scrolls(pane, p)
  BY TimerOver
<1> HIDE DEF p
<1>3. CASE pane' = p
  BY <1>2, <1>3
<1>4. CASE S!Pins(p) /\ pane' \in {q, S!Due(q, "bottom")}
  <2>1. Scrolls(p, r)
    BY <1>2, <1>4, GoesDown, HeardAfter DEF Scrolls
  <2>2. S!Bottom(p) \in Int
    BY <1>2, BottomFacts DEF Scrolls, ScrollOK
  <2> HIDE DEF r
  <2>3. /\ DOMAIN q = ScrollFields /\ q.saved = S!Bottom(p) /\ \A x \in ScrollFields \ {"saved"} : q[x] = r[x]
    BY <2>1 DEF Scrolls, ScrollOK, ScrollFields
  <2> HIDE DEF q
  <2>4. S!Bottom(q) = S!Bottom(r)
    BY <2>3 DEF S!Bottom, ScrollFields
  <2>5. ScrollOK(q) /\ q.reader = p.reader
    BY <2>1, <2>2, <2>3, <2>4 DEF Scrolls, ScrollOK, ScrollFields
  <2> DEFINE d == S!Due(q, "bottom")
  <2>6. DOMAIN d = ScrollFields /\ d.timers = q.timers \cup {"bottom"} /\ \A x \in ScrollFields \ {"timers"} : d[x] = q[x]
    BY <2>5 DEF S!Due, ScrollOK, ScrollFields
  <2> HIDE DEF d
  <2>7. S!Bottom(d) = S!Bottom(q)
    BY <2>6 DEF S!Bottom, ScrollFields
  <2>8. ScrollOK(d) /\ d.reader = p.reader
    BY <2>5, <2>6, <2>7 DEF ScrollOK, ScrollFields
  <2>9. Scrolls(p, q) /\ Scrolls(p, d)
    BY <1>4, <2>5, <2>8, Pinned
  <2>10. QED BY <1>2, <1>4, <2>9, ScrollsTwice DEF d
<1>5. QED BY <1>1, <1>3, <1>4

LEMMA BottomFires ==
  ASSUME ScrollOK(pane), S!BottomTimer
  PROVE  Scrolls(pane, pane')
<1> DEFINE p == S!Done(pane, "bottom")
           q == [p EXCEPT !.initial = FALSE, !.saved = p.top]
<1>1. /\ "bottom" \in pane.timers
      /\ pane' = IF ~p.active THEN p ELSE IF S!AtBottom(p) THEN q ELSE S!onScroll(S!To(p, S!Bottom(p)))
  BY DEF S!BottomTimer, S!Fires
<1>2. Scrolls(pane, p)
  BY TimerOver
<1> HIDE DEF p
<1>3. ScrollOK(p) /\ p.reader = pane.reader
  BY <1>2 DEF Scrolls
<1>4. ScrollOK(q) /\ q.reader = p.reader
  <2>1. /\ DOMAIN q = ScrollFields /\ q.saved = p.top /\ \A x \in ScrollFields \ {"saved", "initial"} : q[x] = p[x]
    BY <1>3 DEF ScrollOK, ScrollFields
  <2> HIDE DEF q
  <2>2. S!Bottom(q) = S!Bottom(p)
    BY <2>1 DEF S!Bottom, ScrollFields
  <2>3. QED BY <1>3, <2>1, <2>2 DEF ScrollOK, ScrollFields
<1> HIDE DEF q
<1>5. ScrollOK(S!onScroll(S!To(p, S!Bottom(p)))) /\ S!onScroll(S!To(p, S!Bottom(p))).reader = p.reader
  <2>1. S!Bottom(p) \in Int
    BY <1>3, BottomFacts DEF ScrollOK
  <2>2. ScrollOK(S!To(p, S!Bottom(p))) /\ S!To(p, S!Bottom(p)).reader = p.reader
    BY <1>3, <2>1, Goes DEF ScrollFields
  <2>3. QED BY <2>2, ScrollHeard DEF Scrolls
<1>6. QED BY <1>1, <1>3, <1>4, <1>5 DEF Scrolls, Away

LEMMA JumpFires ==
  ASSUME ScrollOK(pane), S!JumpTimer
  PROVE  Scrolls(pane, pane')
<1> DEFINE p == S!Done(pane, "jump")
           t == S!To(p, S!Bottom(p))
           q == [t EXCEPT !.saved = S!Bottom(p)]
<1>1. pane' = IF p.stick THEN S!onScroll(q) ELSE p
  BY DEF S!JumpTimer, S!Fires
<1>2. Scrolls(pane, p)
  BY TimerOver
<1> HIDE DEF p
<1>3. CASE p.stick
  <2>1. Scrolls(p, t) /\ S!Pins(t)
    BY <1>2, <1>3, GoesDown DEF Scrolls, S!Pins
  <2>2. S!Bottom(p) \in Int
    BY <1>2, BottomFacts DEF Scrolls, ScrollOK
  <2> HIDE DEF t
  <2>3. Scrolls(t, q)
    BY <2>1, <2>2, Remembered DEF Scrolls, Away
  <2>4. Scrolls(pane, q)
    BY <1>2, <2>1, <2>3, ScrollsTwice
  <2> HIDE DEF q
  <2>5. QED BY <1>1, <1>3, <2>4, HeardAfter
<1>4. QED BY <1>1, <1>2, <1>3

LEMMA FramesFire ==
  ASSUME ScrollOK(pane), S!FramesTimer
  PROVE  Scrolls(pane, pane')
<1> DEFINE p == S!onScroll(S!Done(pane, "frames"))
<1>1. pane' = IF S!Pins(p) THEN S!onScroll(S!To(p, S!Bottom(p))) ELSE p
  BY DEF S!FramesTimer, S!Fires
<1>2. Scrolls(pane, p)
  BY TimerOver, HeardAfter
<1> HIDE DEF p
<1>3. CASE S!Pins(p)
  <2>1. Scrolls(p, S!To(p, S!Bottom(p)))
    BY <1>2, <1>3, GoesDown DEF Scrolls
  <2>2. QED BY <1>1, <1>2, <1>3, <2>1, HeardAfter, ScrollsTwice DEF Scrolls
<1>4. QED BY <1>1, <1>2, <1>3

(* Rows come: the bottom goes down, and what is seen is brought back.          *)
LEMMA Grown ==
  ASSUME NEW p, ScrollOK(p)
  PROVE  LET q == [p EXCEPT !.height = @ + 1]
         IN Scrolls(p, q) /\ (Away(p) => q.anchor < S!Bottom(q))
<1> DEFINE q == [p EXCEPT !.height = @ + 1]
<1>1. DOMAIN q = ScrollFields /\ q.height = p.height + 1 /\ \A x \in ScrollFields \ {"height"} : q[x] = p[x]
  BY DEF ScrollOK, ScrollFields
<1> HIDE DEF q
<1>2. q.height \in Nat /\ p.height \in Nat
  BY <1>1 DEF ScrollOK
<1>3. S!Bottom(p) \in Nat /\ S!Bottom(q) \in Nat /\ S!Bottom(p) <= S!Bottom(q)
      /\ (0 < S!Bottom(p) => S!Bottom(q) = S!Bottom(p) + 1)
  BY <1>1, <1>2, ViewAssumption DEF S!Bottom, S!Later
<1>4. S!Pins(q) = S!Pins(p)
  BY <1>1 DEF S!Pins, ScrollFields
<1>5. ScrollOK(q)
  BY <1>1, <1>3 DEF ScrollOK, ScrollFields
<1>6. ASSUME Away(p) PROVE q.anchor < S!Bottom(q)
  BY <1>1, <1>3, <1>6 DEF Away, ScrollOK, ScrollFields
<1>7. ASSUME Away(p) PROVE Away(q)
  <2>1. q.top < S!Bottom(q) /\ q.saved < S!Bottom(q) /\ 0 < S!Bottom(q)
    BY <1>1, <1>3, <1>7 DEF Away, ScrollOK, ScrollFields
  <2>2. ~S!Pins(q) /\ "bottom" \notin q.timers /\ (q.keep # S!Nowhere => 0 < q.keep - View /\ q.top < q.keep - View)
    BY <1>1, <1>4, <1>7 DEF Away, ScrollFields
  <2>3. QED BY <1>6, <1>7, <2>1, <2>2 DEF Away
<1>8. QED BY <1>1, <1>5, <1>6, <1>7 DEF Scrolls, q, ScrollFields

LEMMA Measured ==
  ASSUME NEW p, ScrollOK(p)
  PROVE  LET q == S!MeasuredBy(p, 1)
         IN Scrolls(p, q) /\ (Away(p) => q.anchor < S!Bottom(q))
<1> DEFINE g == [p EXCEPT !.height = @ + 1]
           q == S!MeasuredBy(p, 1)
<1>1. Scrolls(p, g) /\ (Away(p) => g.anchor < S!Bottom(g))
  BY Grown
<1>2. q = g \/ q = S!Due(g, "pin")
  BY DEF S!MeasuredBy
<1> HIDE DEF g, q
<1>3. Scrolls(g, S!Due(g, "pin"))
  BY <1>1, TimerSet DEF Scrolls
<1>4. S!Due(g, "pin").anchor = g.anchor /\ S!Bottom(S!Due(g, "pin")) = S!Bottom(g)
  BY <1>1 DEF Scrolls, ScrollOK, ScrollFields, S!Due, S!Bottom
<1>5. Scrolls(p, S!Due(g, "pin"))
  BY <1>1, <1>3, ScrollsTwice
<1>6. Scrolls(p, q) /\ (Away(p) => q.anchor < S!Bottom(q))
  BY <1>1, <1>2, <1>4, <1>5
<1>7. QED BY <1>6 DEF q

(* The effect of rows, which may be the one that was on its way before.        *)
LEMMA RowsAre ==
  ASSUME NEW p, ScrollOK([p EXCEPT !.keep = S!Nowhere]), DOMAIN p = ScrollFields,
         p.keep \in Int, p.keep <= p.height
  PROVE  LET q == S!Rows(p)
         IN /\ ScrollOK(q) /\ q.reader = p.reader
            /\ Away(p) /\ p.anchor < S!Bottom(p) => Away(q)
<1> DEFINE n == [p EXCEPT !.keep = S!Nowhere]
           timers == IF p.active THEN (p.timers \ {"settle", "restore"}) \cup {"feed"} ELSE p.timers \ {"feed", "settle", "restore"}
           q == [p EXCEPT !.restoring = FALSE, !.timers = timers]
<1>1. q = S!Rows(p)
  BY DEF S!Rows
<1>2. \A x \in ScrollFields \ {"keep"} : n[x] = p[x]
  BY DEF ScrollFields
<1>3. /\ DOMAIN q = ScrollFields /\ q.timers = timers
      /\ \A x \in ScrollFields \ {"timers", "restoring"} : q[x] = p[x]
  BY DEF ScrollFields
<1> HIDE DEF q, n
<1>4. S!Bottom(q) = S!Bottom(p) /\ S!Bottom(n) = S!Bottom(p) /\ S!Pins(q) = S!Pins(p)
  BY <1>2, <1>3 DEF S!Bottom, S!Pins, ScrollFields
<1>5. /\ p.height \in Nat /\ p.top \in Int /\ p.saved \in Int /\ p.anchor \in Int
      /\ p.top <= S!Bottom(p) /\ p.anchor <= S!Bottom(p)
  <2>1. ScrollOK(n)
    BY DEF n
  <2>2. QED BY <1>2, <1>4, <2>1 DEF ScrollOK, ScrollFields
<1>6. "restore" \notin q.timers /\ (p.active => "feed" \in q.timers)
  BY <1>3
<1>7. ScrollOK(q)
  BY <1>3, <1>4, <1>5, <1>6 DEF ScrollOK, ScrollFields
<1>8. ASSUME Away(p), p.anchor < S!Bottom(p) PROVE Away(q)
  <2>1. "bottom" \notin q.timers
    BY <1>3, <1>8 DEF Away
  <2>2. QED BY <1>3, <1>4, <1>8, <2>1 DEF Away, ScrollFields
<1>9. q.reader = p.reader
  BY <1>3 DEF ScrollFields
<1>10. QED BY <1>1, <1>7, <1>8, <1>9

LEMMA RowsGrow ==
  ASSUME ScrollOK(pane), S!RowsCome \/ S!RowsMeasured \/ S!OlderCome
  PROVE  Scrolls(pane, pane')
<1>1. CASE S!RowsMeasured
  BY <1>1, Measured DEF S!RowsMeasured
<1>2. CASE S!RowsCome
  <2> DEFINE p == S!MeasuredBy(pane, 1)
  <2>1. pane' = S!Rows(p)
    BY <1>2 DEF S!RowsCome
  <2>2. Scrolls(pane, p) /\ (Away(pane) => p.anchor < S!Bottom(p))
    BY Measured
  <2> HIDE DEF p
  <2> DEFINE n == [p EXCEPT !.keep = S!Nowhere]
  <2>3. DOMAIN n = ScrollFields /\ n.keep = S!Nowhere /\ \A x \in ScrollFields \ {"keep"} : n[x] = p[x]
    BY <2>2 DEF Scrolls, ScrollOK, ScrollFields
  <2>4. ScrollOK(n)
    <3> HIDE DEF n
    <3>1. S!Bottom(n) = S!Bottom(p) /\ S!Nowhere \in Int /\ S!Nowhere < 0
      BY <2>3 DEF S!Bottom, S!Nowhere, ScrollFields
    <3>2. n.keep <= n.height
      BY <2>2, <2>3, <3>1 DEF Scrolls, ScrollOK, ScrollFields
    <3>3. QED BY <2>2, <2>3, <3>1, <3>2 DEF Scrolls, ScrollOK, ScrollFields
  <2> HIDE DEF n
  <2>5. /\ ScrollOK(S!Rows(p)) /\ S!Rows(p).reader = p.reader
        /\ Away(p) /\ p.anchor < S!Bottom(p) => Away(S!Rows(p))
    BY <2>2, <2>4, RowsAre DEF Scrolls, ScrollOK, n
  <2>6. QED BY <2>1, <2>2, <2>5 DEF Scrolls
<1>3. CASE S!OlderCome
  <2> DEFINE p == [pane EXCEPT !.older = FALSE, !.keep = pane.height, !.height = @ + 1]
             n == [p EXCEPT !.keep = S!Nowhere]
             g == [pane EXCEPT !.height = @ + 1]
  <2>1. pane' = S!Rows(p)
    BY <1>3 DEF S!OlderCome
  <2>2. DOMAIN pane = ScrollFields /\ pane.height \in Nat
    BY DEF ScrollOK
  <2>3. /\ DOMAIN p = ScrollFields /\ p.keep = pane.height /\ p.height = pane.height + 1
        /\ \A x \in ScrollFields \ {"keep", "height", "older"} : p[x] = pane[x]
    BY <2>2 DEF ScrollFields
  <2>4. DOMAIN n = ScrollFields /\ n.keep = S!Nowhere /\ \A x \in ScrollFields \ {"keep"} : n[x] = p[x]
    BY <2>2 DEF ScrollFields
  <2>5. Scrolls(pane, g) /\ (Away(pane) => g.anchor < S!Bottom(g))
    BY Grown
  <2>6. g.height = pane.height + 1 /\ \A x \in ScrollFields \ {"height"} : g[x] = pane[x]
    BY <2>2 DEF ScrollFields
  <2> HIDE DEF p, n, g
  <2>7. S!Bottom(p) = S!Bottom(g) /\ S!Bottom(n) = S!Bottom(g) /\ S!Pins(p) = S!Pins(g)
    BY <2>3, <2>4, <2>6 DEF S!Bottom, S!Pins, ScrollFields
  <2>8. ScrollOK(n)
    <3>1. /\ n.height = pane.height + 1 /\ n.top = g.top /\ n.saved = g.saved /\ n.anchor = g.anchor /\ n.timers = g.timers
          /\ n.active = g.active /\ n.restoring = g.restoring
      BY <2>3, <2>4, <2>6 DEF ScrollFields
    <3>2. S!Nowhere \in Int /\ S!Nowhere <= n.height
      BY <2>2, <3>1 DEF S!Nowhere
    <3>3. QED BY <2>2, <2>4, <2>5, <2>7, <3>1, <3>2 DEF Scrolls, ScrollOK
  <2>9. /\ ScrollOK(S!Rows(p)) /\ S!Rows(p).reader = p.reader
        /\ Away(p) /\ p.anchor < S!Bottom(p) => Away(S!Rows(p))
    BY <2>2, <2>3, <2>8, RowsAre DEF n
  <2>10. Away(pane) => Away(p) /\ p.anchor < S!Bottom(p)
    <3>1. SUFFICES ASSUME Away(pane) PROVE Away(p) /\ p.anchor < S!Bottom(p)
      OBVIOUS
    <3>2. p.top = pane.top /\ p.anchor = g.anchor /\ p.saved = g.saved /\ p.timers = g.timers /\ g.top = pane.top
      BY <2>3, <2>6 DEF ScrollFields
    <3>3. 0 < pane.height - View /\ pane.top < pane.height - View
      BY <2>2, <3>1, BottomFacts DEF Away
    <3>4. p.anchor < S!Bottom(p)
      BY <2>5, <2>7, <3>1, <3>2
    <3>5. Away(g)
      BY <2>5, <3>1 DEF Scrolls
    <3>6. Away(p)
      BY <2>3, <2>7, <3>2, <3>3, <3>4, <3>5 DEF Away
    <3>7. QED BY <3>4, <3>6
  <2>11. p.reader = pane.reader
    BY <2>3 DEF ScrollFields
  <2>12. QED BY <2>1, <2>9, <2>10, <2>11 DEF Scrolls
<1>4. QED BY <1>1, <1>2, <1>3

(* The reader moves.                                                           *)
LEMMA ReaderMoves ==
  ASSUME ScrollInv, S!ReaderScrolls \/ S!jumpToMessage
  PROVE  ScrollInv'
<1>1. PICK top \in 0..S!Bottom(pane) :
        LET p == S!To(pane, top) IN S!Reads([S!onScroll(p) EXCEPT !.reader = S!Went(p)])
  BY DEF S!ReaderScrolls, S!jumpToMessage
<1> DEFINE p == S!To(pane, top)
           q == S!onScroll(p)
<1>2. pane' = [q EXCEPT !.reader = S!Went(p)] /\ pane.active /\ pane.timers \cap S!AtOnce = {}
  BY <1>1 DEF S!Reads
<1>3. ScrollOK(pane) /\ top \in Int /\ S!Bottom(pane) \in Nat
  BY <1>1, BottomFacts DEF ScrollInv, ScrollOK
<1>4. /\ ScrollOK(p) /\ \A x \in ScrollFields \ {"top"} : p[x] = pane[x]
      /\ S!Bottom(p) = S!Bottom(pane) /\ p.top = top
  BY <1>1, <1>3, Goes
<1> HIDE DEF p
<1>5. ScrollOK(q)
  BY <1>4, ScrollHeard DEF Scrolls
<1>6. ASSUME S!Went(p) = "up"
      PROVE  /\ q.initial = FALSE /\ q.stick = FALSE /\ q.saved = top /\ q.top = top /\ q.height = p.height /\ q.keep = p.keep
             /\ q.timers = (p.timers \ {"pin", "bottom"}) \cup {"anchor"} /\ q.active = p.active
             /\ ~S!AtBottom(p) /\ ~p.restoring
  <2>1. ~S!AtBottom(p) /\ ~p.restoring
    BY <1>6 DEF S!Went
  <2>2. q = [p EXCEPT !.initial = FALSE, !.saved = p.top, !.stick = FALSE, !.older = @ \/ p.top = 0,
                      !.anchor = @, !.timers = (@ \ {"pin", "bottom"}) \cup {"anchor"}]
    BY <2>1 DEF S!onScroll
  <2>3. QED BY <1>4, <2>1, <2>2 DEF ScrollOK, ScrollFields
<1> HIDE DEF q
<1>7. DOMAIN pane' = ScrollFields /\ pane'.reader = S!Went(p) /\ \A x \in ScrollFields \ {"reader"} : pane'[x] = q[x]
  BY <1>2, <1>5 DEF ScrollOK, ScrollFields
<1>8. S!Bottom(pane') = S!Bottom(q) /\ S!Pins(pane') = S!Pins(q)
  BY <1>7 DEF S!Bottom, S!Pins, ScrollFields
<1>9. ScrollOK(pane')
  BY <1>5, <1>7, <1>8 DEF ScrollOK, ScrollFields
<1>10. ASSUME S!Went(p) = "up" PROVE Away(pane')
  <2>1. S!Bottom(q) = S!Bottom(pane) /\ ~S!Pins(q)
    BY <1>4, <1>6, <1>10 DEF S!Bottom, S!Pins
  <2>2. top < S!Bottom(pane) /\ 0 < S!Bottom(pane)
    BY <1>1, <1>3, <1>4, <1>6, <1>10 DEF S!AtBottom
  <2>3. pane.timers \cap {"feed", "anchor", "jump"} = {} /\ "restore" \notin pane.timers /\ pane.keep = S!Nowhere
    BY <1>2, <1>3, <1>4, <1>6, <1>10 DEF S!AtOnce, ScrollOK, ScrollFields
  <2>4. p.keep = pane.keep /\ p.timers = pane.timers /\ p.active = pane.active
    BY <1>4 DEF ScrollFields
  <2>5. /\ pane'.top = top /\ pane'.saved = top /\ pane'.keep = S!Nowhere /\ pane'.active
        /\ pane'.timers = (pane.timers \ {"pin", "bottom"}) \cup {"anchor"}
    BY <1>2, <1>6, <1>7, <1>10, <2>3, <2>4 DEF ScrollFields
  <2>6. "bottom" \notin pane'.timers /\ "anchor" \in pane'.timers /\ pane'.timers \cap {"feed", "restore"} = {}
    BY <2>3, <2>5
  <2>7. QED BY <1>8, <2>1, <2>2, <2>5, <2>6 DEF Away
<1>11. QED BY <1>7, <1>9, <1>10 DEF ScrollInv

LEMMA ReaderGoesDown ==
  ASSUME ScrollInv, S!jumpToBottom
  PROVE  ScrollInv'
<1> DEFINE t == S!To(pane, S!Bottom(pane))
           p == [t EXCEPT !.initial = FALSE, !.stick = TRUE, !.anchor = S!Nowhere, !.reader = "down"]
           q == S!onScroll(p)
<1>1. pane' = S!Due(q, "jump")
  BY DEF S!jumpToBottom, S!Reads
<1>2. S!Bottom(pane) \in Nat
  BY BottomFacts DEF ScrollInv, ScrollOK
<1>3. ScrollOK(t)
  BY <1>2, Goes DEF ScrollInv
<1> HIDE DEF t
<1>4. /\ DOMAIN p = ScrollFields /\ p.anchor = S!Nowhere /\ p.reader = "down"
      /\ \A x \in ScrollFields \ {"initial", "stick", "anchor", "reader"} : p[x] = t[x]
  BY <1>3 DEF ScrollOK, ScrollFields
<1> HIDE DEF p
<1>5. S!Bottom(p) = S!Bottom(t) /\ S!Bottom(t) \in Nat /\ S!Nowhere = -1
  BY <1>3, <1>4, BottomFacts DEF S!Bottom, S!Nowhere, ScrollOK, ScrollFields
<1>6. ScrollOK(p)
  BY <1>3, <1>4, <1>5 DEF ScrollOK, ScrollFields
<1>7. Scrolls(p, q)
  BY <1>6, ScrollHeard
<1> HIDE DEF q
<1>8. Scrolls(q, pane')
  BY <1>1, <1>7, TimerSet DEF Scrolls
<1>9. ScrollOK(pane') /\ pane'.reader = "down"
  BY <1>4, <1>7, <1>8 DEF Scrolls
<1>10. QED BY <1>9 DEF ScrollInv

(* Another tab is shown, and this one again.                                   *)
LEMMA Hides ==
  ASSUME ScrollOK(pane), S!Hide
  PROVE  Scrolls(pane, pane')
<1>1. /\ pane' = [S!Rows([pane EXCEPT !.active = FALSE]) EXCEPT !.timers = @ \ {"frames"}]
      /\ pane.active /\ pane.timers \cap S!AtOnce = {} /\ DOMAIN pane = ScrollFields
  BY DEF S!Hide, S!Reads, ScrollOK
<1>2. /\ DOMAIN pane' = ScrollFields /\ pane'.active = FALSE /\ pane'.restoring = FALSE
      /\ pane'.timers = (pane.timers \ {"feed", "settle", "restore"}) \ {"frames"}
      /\ \A x \in ScrollFields \ {"active", "restoring", "timers"} : pane'[x] = pane[x]
  BY <1>1 DEF S!Rows, ScrollFields
<1>3. S!Bottom(pane') = S!Bottom(pane) /\ S!Pins(pane') = S!Pins(pane)
  BY <1>2 DEF S!Bottom, S!Pins, ScrollFields
<1>4. ScrollOK(pane')
  BY <1>2, <1>3 DEF ScrollOK, ScrollFields
<1>5. ASSUME Away(pane) PROVE Away(pane')
  <2>1. pane.anchor < S!Bottom(pane)
    BY <1>1, <1>5 DEF Away, S!AtOnce
  <2>2. "bottom" \notin pane'.timers
    BY <1>2, <1>5 DEF Away
  <2>3. QED BY <1>2, <1>3, <1>5, <2>1, <2>2 DEF Away, ScrollFields
<1>6. QED BY <1>2, <1>4, <1>5 DEF Scrolls, ScrollFields

LEMMA Shows ==
  ASSUME ScrollOK(pane), S!Show
  PROVE  Scrolls(pane, pane')
<1>1. PICK top \in {0, pane.top} :
        pane' = S!Due(S!Rows([pane EXCEPT !.active = TRUE, !.top = top]), "frames")
  BY DEF S!Show
<1>2. ~pane.active /\ DOMAIN pane = ScrollFields
  BY DEF S!Show, ScrollOK
<1>3. /\ DOMAIN pane' = ScrollFields /\ pane'.active = TRUE /\ pane'.restoring = FALSE /\ pane'.top = top
      /\ pane'.timers = ((pane.timers \ {"settle", "restore"}) \cup {"feed"}) \cup {"frames"}
      /\ \A x \in ScrollFields \ {"active", "restoring", "timers", "top"} : pane'[x] = pane[x]
  BY <1>1, <1>2 DEF S!Rows, S!Due, ScrollFields
<1>4. S!Bottom(pane') = S!Bottom(pane) /\ S!Pins(pane') = S!Pins(pane) /\ S!Bottom(pane) \in Nat
  BY <1>3, BottomFacts DEF S!Bottom, S!Pins, ScrollFields, ScrollOK
<1>5. top \in Int /\ top <= S!Bottom(pane)
  BY <1>1, <1>4 DEF ScrollOK
<1>6. "feed" \in pane'.timers /\ "restore" \notin pane'.timers
  BY <1>3
<1>7. ScrollOK(pane')
  BY <1>3, <1>4, <1>5, <1>6 DEF ScrollOK, ScrollFields
<1>8. ASSUME Away(pane) PROVE Away(pane')
  <2>1. pane.anchor < S!Bottom(pane)
    BY <1>2, <1>8 DEF Away
  <2>2. "bottom" \notin pane'.timers
    BY <1>3, <1>8 DEF Away
  <2>3. top < S!Bottom(pane)
    BY <1>1, <1>8 DEF Away
  <2>4. pane.keep # S!Nowhere => 0 < pane.keep - View /\ top < pane.keep - View
    BY <1>1, <1>8 DEF Away
  <2>5. QED BY <1>3, <1>4, <1>8, <2>1, <2>2, <2>3, <2>4 DEF Away, ScrollFields
<1>9. QED BY <1>3, <1>7, <1>8 DEF Scrolls, ScrollFields

LEMMA ScrollKept ==
  ASSUME ScrollInv, S!FeedScrollNext
  PROVE  ScrollInv'
<1>1. ScrollOK(pane)
  BY DEF ScrollInv
<1>2. ASSUME Scrolls(pane, pane') PROVE ScrollInv'
  BY <1>2 DEF ScrollInv, Scrolls
<1>3. QED BY <1>1, <1>2, FeedFires, SettleFires, RestoreFires, AnchorFires, PinFires, BottomFires, JumpFires, FramesFire,
             RowsGrow, ReaderMoves, ReaderGoesDown, Hides, Shows DEF S!FeedScrollNext

LEMMA ScrollInit ==
  ASSUME S!FeedScrollInit
  PROVE  ScrollInv
<1>1. PICK rows \in 1..(View + 1) :
        pane = [kind |-> "feed", seen |-> S!NothingSeen({}), height |-> rows, top |-> 0, saved |-> 0, anchor |-> S!Nowhere,
                initial |-> TRUE, stick |-> TRUE, restoring |-> FALSE, keep |-> S!Nowhere, older |-> FALSE,
                active |-> TRUE, timers |-> {"feed"}, reader |-> "down"]
  BY DEF S!FeedScrollInit
<1>2. rows \in Nat
  BY <1>1, ViewAssumption
<1>3. /\ DOMAIN pane = ScrollFields /\ pane.height = rows /\ pane.top = 0 /\ pane.saved = 0 /\ pane.anchor = S!Nowhere
      /\ pane.keep = S!Nowhere /\ pane.timers = {"feed"} /\ pane.reader = "down"
  BY <1>1 DEF ScrollFields
<1>4. S!Nowhere = -1 /\ S!Bottom(pane) \in Nat
  BY <1>2, <1>3, BottomFacts DEF S!Nowhere
<1>5. QED BY <1>2, <1>3, <1>4 DEF ScrollInv, ScrollOK

----------------------------------------------------------------------------
(* All the panes.                                                              *)

WorkspaceInv ==
  /\ {"kind", "seen"} \subseteq DOMAIN pane
  /\ pane.kind \in Readers => ReadsInv
  /\ pane.kind \notin Readers => DOMAIN pane.seen = {}
  /\ pane.kind = "roles" => RolesInv
  /\ pane.kind = "inspector" => InspectorInv
  /\ pane.kind = "external" => ExternalInv
  /\ pane.kind = "composer" => ComposerInv
  /\ pane.kind = "files" => FilesInv
  /\ pane.kind = "feed" => ScrollInv

LEMMA WorkspaceBegins == Init => WorkspaceInv
<1> SUFFICES ASSUME Init PROVE WorkspaceInv
  OBVIOUS
<1>0. heard = 1 /\ \A kind \in {"files", "feed", "roles", "inspector", "external"} : kind \notin Readers
  BY DEF Init, Readers, L!Kinds
<1>1. CASE R!ConversationRolesInit
  <2>1. RolesInv
    BY <1>1, RolesInit DEF Init
  <2>2. QED BY <1>0, <2>1 DEF WorkspaceInv, RolesInv, RolesShape, RoleFields
<1>2. CASE I!InspectorInit
  BY <1>0, <1>2, InspectorInit DEF WorkspaceInv, InspectorInv, InspectorShape, InspectorFields
<1>3. CASE E!ExternalInit
  BY <1>0, <1>3, ExternalBegins DEF WorkspaceInv
<1>4. CASE C!ComposerInit
  <2>1. ReadsInv /\ ComposerInv /\ pane.kind = "composer"
    BY <1>0, <1>4, ComposerInit, ComposerBegins
  <2>2. QED BY <1>0, <2>1 DEF WorkspaceInv, ReadsInv
<1>5. CASE F!HostFilesInit
  BY <1>0, <1>5, FilesInit DEF WorkspaceInv, FilesInv, FilesShape, FilesFields
<1>6. CASE N!NeedsYouInit \/ T!TopicsInit \/ L!ListsInit
  <2>1. ReadsInv /\ pane.kind \in {"needs-you", "topics"} \cup L!Kinds
    BY <1>0, <1>6, NeedsYouBegins, TopicsBegins, ListsBegins
  <2>2. QED BY <1>0, <2>1 DEF WorkspaceInv, ReadsInv, L!Kinds
<1>7. CASE S!FeedScrollInit
  <2>1. {"kind", "seen"} \subseteq DOMAIN pane /\ pane.kind = "feed" /\ DOMAIN pane.seen = {}
    BY <1>7 DEF S!FeedScrollInit, S!NothingSeen
  <2>2. QED BY <1>0, <1>7, <2>1, ScrollInit DEF WorkspaceInv
<1>8. QED BY <1>1, <1>2, <1>3, <1>4, <1>5, <1>6, <1>7 DEF Init

LEMMA WorkspaceStep == WorkspaceInv /\ [Next]_vars => WorkspaceInv'
<1> SUFFICES ASSUME WorkspaceInv, [Next]_vars PROVE WorkspaceInv'
  OBVIOUS
<1>0. /\ {"kind", "seen"} \subseteq DOMAIN pane
      /\ \A kind \in {"files", "feed", "roles", "inspector", "external"} : kind \notin Readers
  BY DEF WorkspaceInv, Readers, L!Kinds
<1>1. CASE pane.kind = "roles" /\ R!ConversationRolesNext
  <2>1. RolesInv'
    BY <1>1, RolesKept DEF WorkspaceInv
  <2>2. QED BY <1>0, <2>1 DEF WorkspaceInv, RolesInv, RolesShape, RoleFields
<1>2. CASE pane.kind = "inspector" /\ I!InspectorNext
  <2>1. InspectorInv'
    BY <1>2, InspectorKept DEF WorkspaceInv
  <2>2. QED BY <1>0, <2>1 DEF WorkspaceInv, InspectorInv, InspectorShape, InspectorFields
<1>3. CASE pane.kind = "external" /\ E!ExternalNext
  <2>1. Alike(pane') /\ ExternalInv'
    BY <1>0, <1>3, ExternalKept DEF WorkspaceInv
  <2>2. QED BY <1>0, <1>3, <2>1 DEF WorkspaceInv, Alike
<1>4. CASE pane.kind = "composer" /\ C!ComposerNext
  <2>1. ComposerInv' /\ ReadsInv' /\ pane'.kind = "composer"
    BY <1>4, ComposerKept, ComposerReads DEF WorkspaceInv, Readers
  <2>2. QED BY <1>0, <2>1 DEF WorkspaceInv, ReadsInv
<1>5. CASE pane.kind = "files" /\ F!HostFilesNext
  <2>1. FilesInv'
    BY <1>5, FilesKept DEF WorkspaceInv
  <2>2. QED BY <1>0, <2>1 DEF WorkspaceInv, FilesInv, FilesShape, FilesFields
<1>6. CASE \/ pane.kind = "needs-you" /\ N!NeedsYouNext
           \/ pane.kind = "topics" /\ T!TopicsNext
           \/ pane.kind \in L!Kinds /\ L!ListsNext
  <2>1. ReadsInv' /\ pane'.kind = pane.kind /\ pane.kind \in {"needs-you", "topics"} \cup L!Kinds
    BY <1>6, NeedsYouReads, TopicsReads, ListsReads DEF WorkspaceInv, Readers
  <2>2. QED BY <1>0, <2>1 DEF WorkspaceInv, ReadsInv, L!Kinds
<1>7. CASE pane.kind = "feed" /\ S!FeedScrollNext
  <2>1. Alike(pane')
    BY <1>0, <1>7, FeedAlike
  <2>2. ScrollInv'
    BY <1>7, ScrollKept DEF WorkspaceInv
  <2>3. QED BY <1>0, <1>7, <2>1, <2>2 DEF Alike, WorkspaceInv
<1>8. CASE UNCHANGED vars
  <2>1. UNCHANGED <<past, heard, pane, calls, acts, faults>>
    BY <1>8 DEF vars
  <2>2. RolesInv => RolesInv'
    BY <2>1 DEF RolesInv, Common, PastOK, CallsShape, RolesShape, RolesPast, RolesCalls
  <2>3. InspectorInv => InspectorInv'
    BY <2>1 DEF InspectorInv, PastOK, InspectorShape, InspectorCalls, InspectorData, InspectorBusy, Answered, Data,
                I!Versioned, SavesProfile, SavesConfig, SavesRole, Arms, ReadsProfile, ReadsUsage, Sec
  <2>4. ComposerInv => ComposerInv'
    BY <2>1 DEF ComposerInv, ComposerShape, CallsShape, OneOnItsWay, Kept, OnItsWay
  <2>5. FilesInv => FilesInv'
    BY <2>1 DEF FilesInv, FilesShape, AskedOf, ShownOf, None
  <2>6. ReadsInv => ReadsInv'
    BY <2>1 DEF ReadsInv, PastOK, ListCallsOK, Reached, Serves, Concerns
  <2>7. ScrollInv => ScrollInv'
    BY <2>1 DEF ScrollInv
  <2>8. ExternalInv => ExternalInv'
    BY <2>1 DEF ExternalInv, ExternalBusy, Reads, Works, CallOf
  <2>9. QED BY <2>1, <2>2, <2>3, <2>4, <2>5, <2>6, <2>7, <2>8 DEF WorkspaceInv
<1>9. QED BY <1>1, <1>2, <1>3, <1>4, <1>5, <1>6, <1>7, <1>8 DEF Next

LEMMA WorkspaceInvariant == Spec => []WorkspaceInv
<1>1. QED BY WorkspaceBegins, WorkspaceStep, PTL DEF Spec

(* A pane that has heard of everything, and whose calls have been answered,    *)
(* has read each of its lists since the last change the list is about, or the  *)
(* last call for it failed: no answer, and no change announced while a call is *)
(* on its way, in whatever order, is missed.  The one exception is a list that *)
(* is read for the first time: what is announced before that call is answered  *)
(* may be missed, and what is announced later is not.                          *)
THEOREM ListsAreRead == Spec => []SettledIsRead
<1>1. WorkspaceInv => SettledIsRead
  <2> SUFFICES ASSUME WorkspaceInv, heard = Len(past), calls = {}, NEW l \in DOMAIN pane.seen,
                      ~(pane.seen[l].failed > pane.seen[l].newest),
                      NEW n \in pane.seen[l].newest + 1..Len(past), ~(n <= pane.seen[l].joined)
               PROVE  ~Concerns(past[n].what, l)
    BY DEF SettledIsRead
  <2>1. ReadsInv
    BY DEF WorkspaceInv
  <2>2. QED BY <2>1, ReadsSettled
<1>2. QED BY <1>1, WorkspaceInvariant, PTL

(* A profile or a role that was changed since its form was opened is not       *)
(* written over: what is saved carries the version its author had before him,  *)
(* and the Hub writes only what carries the version it has.                    *)
THEOREM NothingWrittenOver == Spec => []NoLostUpdate
<1>1. WorkspaceInv => NoLostUpdate
  BY DEF WorkspaceInv, InspectorInv, InspectorData, NoLostUpdate
<1>2. QED BY <1>1, WorkspaceInvariant, PTL

(* The inspector, and external identities, show nothing as being read or saved *)
(* once nobody is going to answer: whatever ends a call ends what waits for    *)
(* it, and a section of the inspector that is left takes with it what only its *)
(* own calls would have ended.                                                 *)
THEOREM BusyIsAnswered == Spec => []BusyIsAsked
<1>1. WorkspaceInv => BusyIsAsked
  <2> SUFFICES ASSUME WorkspaceInv PROVE BusyIsAsked
    OBVIOUS
  <2> DEFINE asks(whats) == InFlight(whats) # {}
  <2>1. ASSUME pane.kind = "inspector"
        PROVE  /\ pane.open /\ pane.loading => asks({"profile"})
               /\ I!In("usage") /\ pane.loadingUsage => asks({"usage", "refresh"})
               /\ pane.savingProfile => asks({"save-profile"})
               /\ pane.savingConfig => asks({"provider", "config"})
               /\ pane.savingRole => asks({"save", "toggle", "connections"})
               /\ pane.arming => asks({"trigger", "refresh"})
    <3>1. InspectorBusy
      BY <2>1 DEF WorkspaceInv, InspectorInv
    <3>2. I!In("usage") => Sec(pane) = "usage"
      BY DEF I!In, Sec
    <3>3. QED BY <3>1, <3>2 DEF InspectorBusy, Answered, SavesProfile, SavesConfig, SavesRole, Arms, ReadsProfile,
                  ReadsUsage, InFlight, I!Configures
  <2>2. ASSUME pane.kind = "external"
        PROVE  /\ pane.loading => asks({"discover", "discover-run", "credentials"})
               /\ pane.working => \/ asks(E!Commands \cup {"discover-run"})
                                  \/ \E c \in InFlight({"refresh"}) : c.item # None
    BY <2>2 DEF WorkspaceInv, ExternalInv, ExternalBusy, Reads, Works, InFlight, E!None, None
  <2>3. QED BY <2>1, <2>2 DEF BusyIsAsked
<1>2. QED BY <1>1, WorkspaceInvariant, PTL

(* What the owner wrote to an Agent is in the composer, or on its way, until   *)
(* the Hub has it or he put it aside himself.                                  *)
THEOREM DraftStays == Spec => []DraftIsKept
<1>1. WorkspaceInv => DraftIsKept
  BY DEF WorkspaceInv, ComposerInv, Kept, OnItsWay, DraftIsKept, C!InFlight
<1>2. QED BY <1>1, WorkspaceInvariant, PTL

(* The directory and the text that are shown are those that are selected now.  *)
THEOREM OnlyTheSelectedIsShown == Spec => []ShownIsAskedFor
<1>1. WorkspaceInv => ShownIsAskedFor
  BY DEF WorkspaceInv, FilesInv, ShownOf, ShownIsAskedFor
<1>2. QED BY <1>1, WorkspaceInvariant, PTL

(* What the owner did with a form for a role stays in it while it is open,     *)
(* whatever the page hears and reads meanwhile.                                *)
THEOREM TypedStays == Spec => TypedIsKept
<1>1. ASSUME WorkspaceInv, [Next]_vars
      PROVE  [pane.kind = "roles" /\ pane'.kind = "roles" /\ acts' = acts =>
                \A x \in pane.open \cap pane'.open : pane'.draft[x] = pane.draft[x]]_vars
  <2> SUFFICES ASSUME Next, pane.kind = "roles", acts' = acts, NEW x \in pane.open \cap pane'.open
               PROVE  pane'.draft[x] = pane.draft[x]
    BY <1>1
  <2>1. R!ConversationRolesNext
    BY DEF Next, L!Kinds
  <2>2. FormsKept(pane, pane')
    BY <1>1, <2>1, RolesKept DEF WorkspaceInv
  <2>3. QED BY <2>2 DEF FormsKept
<1>2. QED BY <1>1, WorkspaceInvariant, PTL DEF Spec, TypedIsKept

(* A reader who went up in a thread by himself, and whom the page heard, is    *)
(* not brought to the bottom, by no row, measure or timer.                     *)
THEOREM ReaderStays == Spec => HeardReaderStays
<1>1. ASSUME WorkspaceInv, WorkspaceInv', [Next]_vars
      PROVE  [pane.kind = "feed" /\ pane.reader = "up" /\ pane'.reader = "up" /\ pane.active /\ S!AtBottom(pane')
                => S!AtBottom(pane)]_vars
  <2> SUFFICES ASSUME Next, pane.kind = "feed", pane'.reader = "up", S!AtBottom(pane')
               PROVE  FALSE
    BY <1>1
  <2>1. {"kind", "seen"} \subseteq DOMAIN pane /\ S!FeedScrollNext
    BY <1>1 DEF WorkspaceInv, Next, L!Kinds
  <2>2. pane'.kind = "feed"
    BY <2>1, FeedAlike DEF Alike
  <2>3. Away(pane')
    BY <1>1, <2>2 DEF WorkspaceInv, ScrollInv
  <2>4. ScrollOK(pane') /\ S!Bottom(pane') \in Nat
    BY <1>1, <2>2, BottomFacts DEF WorkspaceInv, ScrollInv, ScrollOK
  <2>5. pane'.top < S!Bottom(pane') /\ pane'.top = S!Bottom(pane')
    BY <2>3 DEF Away, S!AtBottom
  <2>6. QED BY <2>4, <2>5
<1>2. QED BY <1>1, WorkspaceInvariant, PTL DEF Spec, HeardReaderStays
=============================================================================
