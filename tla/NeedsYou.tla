------------------------------ MODULE NeedsYou ------------------------------
(***************************************************************************)
(* The requests Agents have for the owner (web/src/NeedsYouPane.tsx).  A   *)
(* request is none (not made yet), open, cancelled, or answered and then   *)
(* queued, delivered or failed.  What the owner types is left out.         *)
(***************************************************************************)
EXTENDS Pane

Answered == {"queued", "delivered", "failed"}
RequestLists == {"open", "summary"}

\* Once it is selected, a request is fetched for itself ("detail").
NeedsYouInit ==
  /\ \E data \in [Things -> {None, "open", "failed"}] : past = <<[what |-> "start", data |-> data]>>
  /\ pane = [kind |-> "needs-you", seen |-> NothingSeen(RequestLists), detail |-> [x \in Things |-> 0],
             filter |-> "open", selected |-> None, working |-> "no"]
  /\ calls = {Call(l, None) : l \in RequestLists}

\* The request as the pane has it: the list of open requests is laid over the summary.
Listed(x) == IF Fetched("open") /\ Shown("open")[x] = "open" THEN "open"
             ELSE IF Fetched("summary") THEN Shown("summary")[x] ELSE None
Known == {x \in Things : Listed(x) # None}
Visible == {x \in Known : \/ pane.filter = "all"
                          \/ pane.filter = "open" /\ Listed(x) = "open"
                          \/ pane.filter = "answered" /\ Listed(x) \in Answered}
Detail(x) == IF x = None THEN None
             ELSE IF pane.detail[x] > 0 THEN DataAt(pane.detail[x])[x]
             ELSE IF Listed(x) = "open" THEN "open" ELSE None

\* A request is fetched when it is selected, unless its call is under way or what
\* the page has is fresh.
Fetches(x) ==
  \/ calls' = calls \cup (IF \E c \in InFlight({"detail"}) : c.item = x THEN {} ELSE {Call("detail", x)})
  \/ pane.detail[x] > 0 /\ UNCHANGED calls

selectRequest ==
  /\ \E x \in Visible : pane' = [pane EXCEPT !.selected = x] /\ Fetches(x)
  /\ Idle /\ Acts
\* The address changes.
syncFromHash ==
  /\ \E x \in Things : pane' = [pane EXCEPT !.selected = x] /\ Fetches(x)
  /\ Idle /\ Acts
setFilter ==
  /\ \E f \in {"open", "answered", "all"} \ {pane.filter} : pane' = [pane EXCEPT !.filter = f]
  /\ UNCHANGED calls /\ Idle /\ Acts
\* Answered or not, the summary was fetched.
DropMissing ==
  /\ pane.selected # None /\ (Fetched("summary") \/ pane.seen["summary"].failed > 0)
  /\ pane.selected \notin Known
  /\ pane' = [pane EXCEPT !.selected = None]
  /\ UNCHANGED calls /\ Idle /\ UNCHANGED acts

\* What the open request can be done with.
Offered == CASE Detail(pane.selected) = "open" -> {"answer", "cancel"} [] Detail(pane.selected) = "failed" -> {"retry"} [] OTHER -> {}
run(what) ==
  /\ pane.working = "no" /\ what \in Offered
  /\ pane' = [pane EXCEPT !.working = "task"]
  /\ calls' = calls \cup {Call(what, pane.selected)}
  /\ Idle /\ Acts
submitAnswer == run("answer")
cancel == run("cancel")
retry == run("retry")

Allowed(what) == IF what = "retry" THEN "failed" ELSE "open"
Outcome(what) == IF what = "cancel" THEN "cancelled" ELSE "queued"
HubServes(c) ==
  /\ c.what \in {"answer", "cancel", "retry"} /\ ~c.done /\ Data[c.item] = Allowed(c.what)
  /\ Changed("request", c.item, Outcome(c.what))
  /\ calls' = (calls \ {c}) \cup {[c EXCEPT !.done = TRUE]}
  /\ UNCHANGED <<heard, pane, acts, faults>>

\* Only the request that is selected is fetched again, and its first call is joined.
DetailAgain(C, x) ==
  LET own == {c \in C : c.what = "detail" /\ c.item = x}
  IN IF pane.selected # x \/ (pane.detail[x] = 0 /\ own # {}) THEN C ELSE (C \ own) \cup {Call("detail", x)}

\* run goes on: the lists are asked for again by the App, then here with the
\* request that was selected when it began.
Goes(c) ==
  /\ c.done
  /\ calls' = Invalidated(calls \ {c}, RequestLists)
  /\ pane' = [pane EXCEPT !.working = c.item]
  /\ Idle /\ UNCHANGED acts
Again ==
  /\ pane.working \in Things /\ InFlight(RequestLists) = {}
  /\ calls' = DetailAgain(Invalidated(calls, RequestLists), pane.working)
  /\ pane' = [pane EXCEPT !.working = "refresh"]
  /\ Idle /\ UNCHANGED acts
Ends ==
  /\ pane.working = "refresh" /\ InFlight(RequestLists \cup {"detail"}) = {}
  /\ pane' = [pane EXCEPT !.working = "no"]
  /\ UNCHANGED calls /\ Idle /\ UNCHANGED acts
\* The Hub refuses, or is not reached.
Refused(c) ==
  /\ c.what \in {"answer", "cancel", "retry"} /\ Failing
  /\ calls' = calls \ {c}
  /\ pane' = [pane EXCEPT !.working = "no"]
  /\ UNCHANGED <<past, heard, acts>>

DetailAnswered(c) ==
  /\ c.what = "detail"
  /\ \/ /\ \E n \in c.asked..Len(past) : pane' = [pane EXCEPT !.detail[c.item] = n]
        /\ UNCHANGED faults
     \/ Failing /\ UNCHANGED pane
  /\ calls' = calls \ {c}
  /\ UNCHANGED <<past, heard, acts>>

\* An event, or the end of a gap in the stream, has the App ask for both lists again.
Hear ==
  /\ heard < Len(past)
  /\ \/ heard' = heard + 1 /\ UNCHANGED faults
     \/ heard' = Len(past) /\ heard + 1 < Len(past) /\ Failing
  /\ HeardOf(calls, RequestLists)
  /\ UNCHANGED <<past, acts>>
\* Every half minute each list is asked for, unless it already is.
Poll ==
  /\ \E l \in RequestLists : InFlight({l}) = {} /\ calls' = Asked(calls, {l})
  /\ UNCHANGED pane /\ Idle /\ Acts

HubMoves ==
  \E x \in Things, to \in {"open", "cancelled"} \cup Answered :
    /\ \/ Data[x] = None /\ to = "open"
       \/ Data[x] = "open" /\ to \in {"cancelled", "queued"}
       \/ Data[x] = "queued" /\ to \in {"delivered", "failed"}
    /\ HubChanges("request", x, to)

NeedsYouNext ==
  \/ HubMoves \/ Hear \/ Poll \/ \E c \in calls : ListAnswered(c) \/ ListFailed(c) \/ DetailAnswered(c)
  \/ \E c \in calls : HubServes(c) \/ Goes(c) \/ Refused(c)
  \/ selectRequest \/ syncFromHash \/ setFilter \/ DropMissing
  \/ submitAnswer \/ cancel \/ retry \/ Again \/ Ends
=============================================================================
