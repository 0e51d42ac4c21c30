------------------------------- MODULE Topics -------------------------------
(***************************************************************************)
(* The Topics workspace (web/src/TopicsPane.tsx).  Of a Topic its status   *)
(* is kept, and whether its result is ready for the owner to read; its     *)
(* brief, its links and its artifacts are asked for together.  What the    *)
(* owner types is left out.                                                *)
(***************************************************************************)
EXTENDS Pane

Details == {"topic"}
Statuses == {"active", "resolved", "archived"}
NoTopic == [status |-> None, ready |-> FALSE]

TopicsInit ==
  /\ \E data \in [Things -> {NoTopic, [status |-> "active", ready |-> TRUE]}] :
       past = <<[what |-> "start", data |-> data]>>
  /\ pane = [kind |-> "topics", seen |-> NothingSeen({"topics"}), detail |-> [x \in Things |-> 0],
             filter |-> "attention", selected |-> None, followed |-> None, dialog |-> None,
             working |-> "no", reading |-> {}]
  /\ calls = {Call("topics", None)}

Listed(x) == IF x # None /\ Fetched("topics") THEN Shown("topics")[x] ELSE NoTopic
Known == {x \in Things : Listed(x) # NoTopic}
topicMatchesFilter(topic, filter) ==
  CASE filter = "attention" -> topic.ready
    [] filter = "all" -> topic.status # "archived"
    [] OTHER -> topic.status = filter
Visible == {x \in Known : topicMatchesFilter(Listed(x), pane.filter)}
Selected == pane.selected # None /\ pane.detail[pane.selected] > 0

DetailCalls(x) == IF x = None THEN {} ELSE {Call(w, x) : w \in Details}
OfTopic(C, x) == {c \in C : c.what \in Details /\ c.item = x}
FetchesTopic(x) ==
  \/ /\ calls' = calls \cup {Call(w, x) : w \in {d \in Details : ~\E c \in OfTopic(calls, x) : c.what = d}}
  \/ pane.detail[x] > 0 /\ UNCHANGED calls

selectTopic ==
  /\ \E x \in Visible : pane' = [pane EXCEPT !.selected = x] /\ FetchesTopic(x)
  /\ Idle /\ Acts
syncHash ==
  /\ \E x \in Things : pane' = [pane EXCEPT !.selected = x] /\ FetchesTopic(x)
  /\ Idle /\ Acts
setFilter ==
  /\ \E f \in {"attention", "active", "resolved", "all"} : f # pane.filter /\ pane' = [pane EXCEPT !.filter = f]
  /\ UNCHANGED calls /\ Idle /\ Acts

DropMissing ==
  /\ pane.selected # None /\ (Fetched("topics") \/ pane.seen["topics"].failed > 0)
  /\ pane.selected \notin Known
  /\ pane' = [pane EXCEPT !.selected = None]
  /\ UNCHANGED calls /\ Idle /\ UNCHANGED acts
\* Once, when the selected Topic is found in the list, the filter makes room for it.
FollowSelection ==
  LET found == IF pane.selected \in Known THEN pane.selected ELSE None
      topic == Listed(found)
  IN /\ found # pane.followed
     /\ pane' = [pane EXCEPT !.followed = found,
                   !.filter = IF found = None \/ topicMatchesFilter(topic, @) THEN @
                              ELSE IF topic.status = "archived" THEN "all" ELSE topic.status]
     /\ UNCHANGED calls /\ Idle /\ UNCHANGED acts

\* A result that is ready is marked as read once its Topic is in front and the page visible.
markRead ==
  /\ pane.selected \in Known /\ Listed(pane.selected).ready /\ pane.selected \notin pane.reading
  /\ pane' = [pane EXCEPT !.reading = @ \cup {pane.selected}]
  /\ calls' = calls \cup {Call("read", pane.selected)}
  /\ Idle /\ UNCHANGED acts
\* The mark may be asked for again once the Topic is not ready, or not selected.
ForgetReading ==
  /\ \E x \in pane.reading : /\ pane.selected # x \/ ~Listed(x).ready
                             /\ pane' = [pane EXCEPT !.reading = @ \ {x}]
  /\ UNCHANGED calls /\ Idle /\ UNCHANGED acts

Dialogs == {"create", "evidence", "intervene"}
\* A Topic's detail offers to link evidence and to step in on a Turn.
Offered == {"create"} \cup (IF Selected THEN {"evidence", "intervene"} ELSE {})
OpenDialog ==
  /\ pane.dialog = None
  /\ \E d \in Offered : pane' = [pane EXCEPT !.dialog = d]
  /\ UNCHANGED calls /\ Idle /\ Acts
CloseDialog ==
  /\ pane.dialog # None
  /\ pane' = [pane EXCEPT !.dialog = None]
  /\ UNCHANGED calls /\ Idle /\ Acts
run(what) ==
  /\ pane.working = "no"
  /\ calls' = calls \cup {Call(what, pane.selected)}
  /\ Idle /\ Acts
createTopic == pane.dialog = "create" /\ run("create") /\ pane' = [pane EXCEPT !.working = "task"]
linkEvidence == pane.dialog = "evidence" /\ Selected /\ run("evidence") /\ pane' = [pane EXCEPT !.working = "task"]
intervene == pane.dialog = "intervene" /\ Selected /\ run("intervene") /\ pane' = [pane EXCEPT !.working = "task"]
sendInput == Selected /\ run("send") /\ pane' = [pane EXCEPT !.working = "task"]

Commands == Dialogs \cup {"send", "read"}
HubServes(c) ==
  /\ c.what \in Commands /\ ~c.done
  /\ \/ /\ c.what = "create"
        /\ \E x \in Things : /\ Data[x] = NoTopic /\ Changed("topic", x, [status |-> "active", ready |-> FALSE])
                             /\ calls' = (calls \ {c}) \cup {[c EXCEPT !.done = TRUE, !.made = x]}
     \/ /\ c.what # "create"
        /\ Changed("topic", c.item, IF c.what = "read" THEN [Data[c.item] EXCEPT !.ready = FALSE] ELSE Data[c.item])
        /\ calls' = (calls \ {c}) \cup {[c EXCEPT !.done = TRUE]}
  /\ UNCHANGED <<heard, pane, acts, faults>>

\* refresh, for the Topic that was selected when the command was given.
\* Only the Topic selected now is fetched again, and its first call is joined.
Refreshed(C, x) ==
  LET D == Invalidated(C, {"topics"})
  IN IF x = None \/ pane.selected # x \/ (pane.detail[x] = 0 /\ OfTopic(C, x) # {}) THEN D
     ELSE (D \ OfTopic(C, x)) \cup DetailCalls(x)
Goes(c) ==
  /\ c.done
  /\ calls' = Refreshed(calls \ {c}, c.item) \cup (IF c.what = "create" THEN DetailCalls(c.made) ELSE {})
  /\ pane' = IF c.what = "read" THEN pane
             ELSE [pane EXCEPT !.working = "refresh",
                     !.dialog = IF c.what \in Dialogs THEN None ELSE @,
                     !.selected = IF c.what = "create" THEN c.made ELSE @]
  /\ Idle /\ UNCHANGED acts
Ends ==
  /\ pane.working = "refresh" /\ InFlight(Details \cup {"topics"}) = {}
  /\ pane' = [pane EXCEPT !.working = "no"]
  /\ UNCHANGED calls /\ Idle /\ UNCHANGED acts
Refused(c) ==
  /\ c.what \in Commands /\ Failing
  /\ calls' = calls \ {c}
  /\ pane' = IF c.what = "read" THEN [pane EXCEPT !.reading = @ \ {c.item}]
             ELSE [pane EXCEPT !.working = "no"]
  /\ UNCHANGED <<past, heard, acts>>

DetailAnswered(c) ==
  /\ c.what \in Details
  /\ \/ /\ \E n \in c.asked..Len(past) : pane' = [pane EXCEPT !.detail[c.item] = n]
        /\ UNCHANGED faults
     \/ Failing /\ UNCHANGED pane
  /\ calls' = calls \ {c}
  /\ UNCHANGED <<past, heard, acts>>

Hear ==
  /\ heard < Len(past)
  /\ \/ heard' = heard + 1 /\ UNCHANGED faults
     \/ heard' = Len(past) /\ heard + 1 < Len(past) /\ Failing
  /\ HeardOf(calls, {"topics"})
  /\ UNCHANGED <<past, acts>>
Poll ==
  /\ InFlight({"topics"}) = {} /\ calls' = Asked(calls, {"topics"})
  /\ UNCHANGED pane /\ Idle /\ Acts

HubMoves ==
  \E x \in Things, status \in Statuses, ready \in BOOLEAN :
    /\ Data[x] # NoTopic /\ ready = (status = "resolved")
    /\ HubChanges("topic", x, [status |-> status, ready |-> ready])

TopicsNext ==
  \/ HubMoves \/ Hear \/ Poll \/ \E c \in calls : ListAnswered(c) \/ ListFailed(c) \/ DetailAnswered(c)
  \/ \E c \in calls : HubServes(c) \/ Goes(c) \/ Refused(c)
  \/ selectTopic \/ syncHash \/ setFilter \/ DropMissing \/ FollowSelection
  \/ markRead \/ ForgetReading \/ OpenDialog \/ CloseDialog
  \/ createTopic \/ linkEvidence \/ intervene \/ sendInput \/ Ends
=============================================================================
