-------------------------------- MODULE Pane --------------------------------
(***************************************************************************)
(* What the panes of the web console have in common: a pane shows lists it *)
(* asks the Hub for, hears of changes over the event stream, and sends     *)
(* commands.  A call may be read by the Hub before a change and answered   *)
(* after it, and answers may come in any order.                            *)
(*                                                                         *)
(* The Hub's data is a function from things to what there is to know of    *)
(* them; "past" keeps all that it was, so that an answer is an index into  *)
(* it.  Each pane gives its own meaning to things and to what is known.    *)
(***************************************************************************)
EXTENDS Integers, Sequences, FiniteSets

CONSTANTS
  Things,       \* requests, Topics, messages, ...
  MaxChanges,   \* changes of the Hub's data, for each pane
  MaxActs,      \* what the owner does, for each pane
  MaxUnanswered, \* calls still unanswered when he does it, for each pane
  MaxFaults     \* calls that fail, and connections lost

ASSUME PaneBounds == /\ \A kind \in DOMAIN MaxChanges : {MaxChanges[kind], MaxActs[kind], MaxUnanswered[kind]} \subseteq Nat
                     /\ MaxFaults \in Nat

\* Of some panes the Hub keeps other data beside the things; a thing is none of it.
Names == {"none", "profile", "config", "turn", "name", "held", "goal", "policy", "arm"}
ASSUME PaneNames == Things \cap Names = {}

VARIABLES
  past,     \* the Hub's data, oldest first: [what, data], "what" is what changed
  heard,    \* how much of it the event stream has told the page
  pane,     \* what the pane keeps; .kind tells which pane it is
  calls,    \* in flight: [what, item, asked, base, made, done]; "made" is what came of it, or what it carries
  acts,     \* how much of MaxActs was done
  faults

vars == <<past, heard, pane, calls, acts, faults>>

None == "none"
Data == past[Len(past)].data
DataAt(n) == past[n].data

Acts == Cardinality(calls) <= MaxUnanswered[pane.kind] /\ acts < MaxActs[pane.kind] /\ acts' = acts + 1
CanFail == faults < MaxFaults
Failing == CanFail /\ faults' = faults + 1
CanChange == Len(past) <= MaxChanges[pane.kind]
Changed(what, thing, known) ==
  /\ CanChange
  /\ past' = Append(past, [what |-> what, data |-> [Data EXCEPT ![thing] = known]])

Call(what, item) == [what |-> what, item |-> item, asked |-> Len(past), base |-> 0, made |-> <<>>, done |-> FALSE]
InFlight(whats) == {c \in calls : c.what \in whats}

\* A refresh of the pane's own is asked beside the ones in flight.
Asked(C, lists) == C \cup {Call(l, None) : l \in lists}

(* Of every list the pane keeps which of the Hub's states it shows, the newest *)
(* it has read, when the last call that failed was asked, and how much of the  *)
(* stream had been heard when its first call was last joined.                  *)
NothingSeen(lists) == [l \in lists |-> [at |-> 0, newest |-> 0, failed |-> 0, joined |-> 0]]
Shown(list) == DataAt(pane.seen[list].at)
Fetched(list) == pane.seen[list].at > 0

(* invalidateQueries: of a list that was read before, a query in flight is     *)
(* dropped and asked again.  A query that has no data yet is joined instead,   *)
(* and its answer counts as fresh whatever was announced meanwhile.            *)
Joined(C, lists) == {l \in lists : ~Fetched(l) /\ \E c \in C : c.what = l}
Anew(C, lists) == lists \ Joined(C, lists)
Invalidated(C, lists) ==
  {c \in C : c.what \notin Anew(C, lists)} \cup {Call(l, None) : l \in Anew(C, lists)}
\* An event has the lists asked for again.
HeardOf(C, lists) ==
  /\ calls' = Invalidated(C, lists)
  /\ pane' = [pane EXCEPT !.seen = [l \in DOMAIN pane.seen |->
                 [pane.seen[l] EXCEPT !.joined = IF l \in Joined(C, lists) THEN heard' ELSE @]]]

Later(m, n) == IF m > n THEN m ELSE n
Read(p, c, n) == [p EXCEPT !.seen[c.what].at = n, !.seen[c.what].newest = Later(@, n)]

ListAnswered(c) ==
  /\ c.what \in DOMAIN pane.seen
  /\ \E n \in c.asked..Len(past) : pane' = Read(pane, c, n)
  /\ calls' = calls \ {c}
  /\ UNCHANGED <<past, heard, acts, faults>>

ListFailed(c) ==
  /\ c.what \in DOMAIN pane.seen /\ Failing
  /\ pane' = [pane EXCEPT !.seen[c.what].failed = Later(@, c.asked)]
  /\ calls' = calls \ {c}
  /\ UNCHANGED <<past, heard, acts>>

\* What the Hub's own work, or another client, changes.
HubChanges(what, thing, known) ==
  Changed(what, thing, known) /\ UNCHANGED <<heard, pane, calls, acts, faults>>

Idle == UNCHANGED <<past, heard, faults>>
=============================================================================
