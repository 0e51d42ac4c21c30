------------------------------ MODULE Composer ------------------------------
(***************************************************************************)
(* What the owner does beside an Agent's thread (web/src/AgentPane.tsx):   *)
(* he writes tasks, with files, and answers to requests; stops a Turn;     *)
(* continues or dismisses an interrupted one; continues or closes a held   *)
(* message; sets the Goal.  Things are the Agent's requests; the Hub also  *)
(* has its "turn", its "held" message and its "goal".                      *)
(***************************************************************************)
EXTENDS Pane

CONSTANTS
  Attachments,       \* files the owner has
  MaxAttachments     \* of them with one Turn

ComposerLists == {"requests", "pending"}
Sends == {"upload", "turn", "compact", "answer"}
OnTurn == {"continue", "dismiss"}
OnHeld == {"retry", "no-reply"}
OnGoal == {"start", "pause", "resume", "clear"}

\* "owed" says that there is a text the owner wrote that the Hub has not accepted
\* and that he has not put aside himself.
ComposerInit ==
  /\ \E turn \in {"idle", "interrupted"}, held \in {None, "held"} :
       past = <<[what |-> "start",
                 data |-> [k \in Things \cup {"turn", "held", "goal"} |->
                             CASE k = "turn" -> turn [] k = "held" -> held [] k = "goal" -> None [] OTHER -> "open"]]>>
  /\ pane = [kind |-> "composer", seen |-> [l \in ComposerLists |-> [at |-> 1, newest |-> 1, failed |-> 0, joined |-> 0]],
             turn |-> Data["turn"], goal |-> None, input |-> None, files |-> {}, answering |-> None,
             sending |-> "no", turnAction |-> FALSE, heldAction |-> "no", goalSaving |-> FALSE, owed |-> FALSE]
  /\ calls = {}

Open == {x \in Things : Shown("requests")[x] = "open"}
PutAside(p) == [p EXCEPT !.owed = @ /\ pane.input # "typed"]

Does(p) == pane' = p /\ UNCHANGED calls /\ Idle /\ Acts
Begins(p, c) == pane' = p /\ calls' = calls \cup {c} /\ Idle /\ Acts
Ends(c, p, C) == pane' = p /\ calls' = C \ {c} /\ UNCHANGED <<past, heard, acts, faults>>

-----------------------------------------------------------------------------
(* The text and the files.                                                 *)

onChange ==
  /\ pane.sending = "no"
  /\ \E text \in {"typed", "compact"} \ {pane.input} : Does([pane EXCEPT !.input = text, !.owed = text = "typed"])
\* Files may be dropped on the pane while a text is on its way.
addAttachmentFiles ==
  /\ pane.answering = None /\ Cardinality(pane.files) < MaxAttachments
  /\ \E f \in Attachments \ pane.files : Does([pane EXCEPT !.files = @ \cup {f}])
removeAttachment ==
  /\ pane.sending = "no"
  /\ \E f \in pane.files : Does([pane EXCEPT !.files = @ \ {f}])

\* An answer is begun from the bar of requests, empty or with one of the options.
onAnswer ==
  \E x \in Open, text \in {None, "option"} :
    Does([PutAside(pane) EXCEPT !.input = text, !.files = {}, !.answering = x])
cancelAnswering ==
  pane.answering # None /\ Does([PutAside(pane) EXCEPT !.input = None, !.answering = None])
\* A request that is no longer open is not answered; what was written stays.
DropAnswering ==
  /\ pane.answering \in Things \ Open
  /\ pane' = [pane EXCEPT !.answering = None]
  /\ UNCHANGED <<past, heard, calls, acts, faults>>

\* Mutant: one more is sent while one is on its way.
SendAnyTime == TRUE
SendFree == pane.sending = "no"
send ==
  /\ pane.input # None \/ pane.files # {}
  /\ SendFree
  /\ pane.files = {} \/ (pane.answering = None /\ pane.input # "compact")
  /\ LET what == IF pane.answering # None THEN "answer"
                 ELSE IF pane.input = "compact" THEN "compact"
                 ELSE IF pane.files = {} THEN "turn" ELSE "upload"
     IN Begins([pane EXCEPT !.sending = "sending", !.input = None, !.files = {}],
               [Call(what, pane.answering) EXCEPT !.base = Cardinality(pane.files),
                                                  !.made = [text |-> pane.input, files |-> pane.files]])

\* The files go one by one, and then the task.
uploadThreadArtifact(c) ==
  /\ c.what = "upload"
  /\ calls' = (calls \ {c}) \cup {IF c.base = 1 THEN [c EXCEPT !.what = "turn", !.base = 0] ELSE [c EXCEPT !.base = @ - 1]}
  /\ UNCHANGED <<past, heard, pane, acts, faults>>

Served(c) == calls' = (calls \ {c}) \cup {[c EXCEPT !.done = TRUE]}
HubTakes(c) ==
  /\ c.what \in {"turn", "compact", "answer"} /\ ~c.done
  /\ IF c.what = "answer" THEN Data[c.item] = "open" /\ Changed("request", c.item, "closed")
     ELSE (Data["turn"] = "running" /\ UNCHANGED past) \/ (Data["turn"] # "running" /\ Changed("turn", "turn", "running"))
  /\ Served(c)
  /\ pane' = [pane EXCEPT !.owed = @ /\ c.made.text # "typed"]
  /\ UNCHANGED <<heard, acts, faults>>

\* After an answer the requests are asked for again before anything else is sent.
Sent(c) ==
  /\ c.what \in Sends /\ c.done
  /\ IF c.what = "answer"
     THEN Ends(c, [pane EXCEPT !.sending = "refresh", !.answering = None], Invalidated(calls, {"requests"}))
     ELSE Ends(c, [pane EXCEPT !.sending = "no"], calls)
Refreshed ==
  /\ pane.sending = "refresh" /\ InFlight({"requests"}) = {}
  /\ pane' = [pane EXCEPT !.sending = "no"]
  /\ UNCHANGED <<past, heard, calls, acts, faults>>
\* What was sent is in the composer again, and nothing that came there meanwhile.
NotSent(c) ==
  /\ c.what \in Sends
  /\ (c.what = "answer" /\ ~c.done /\ Data[c.item] # "open" /\ UNCHANGED faults) \/ Failing
  /\ pane' = [pane EXCEPT !.input = c.made.text, !.files = c.made.files, !.sending = "no"]
  /\ calls' = calls \ {c}
  /\ UNCHANGED <<past, heard, acts>>

-----------------------------------------------------------------------------
(* The bars above the composer.                                            *)

interrupt ==
  /\ pane.turn = "running" /\ pane.answering = None /\ InFlight({"interrupt"}) = {}
  /\ Begins(pane, Call("interrupt", None))
TurnIsInterrupted == pane.turn = "interrupted" /\ ~pane.turnAction
continueInterruptedTurn == TurnIsInterrupted /\ Begins([pane EXCEPT !.turnAction = TRUE], Call("continue", None))
dismissInterruptedTurn == TurnIsInterrupted /\ Begins([pane EXCEPT !.turnAction = TRUE], Call("dismiss", None))
HeldIsShown == Shown("pending")["held"] = "held"
continueHeldMessage == HeldIsShown /\ pane.heldAction = "no" /\ Begins([pane EXCEPT !.heldAction = "asked"], Call("retry", None))
closeHeldMessage == HeldIsShown /\ pane.heldAction = "no" /\ Begins([pane EXCEPT !.heldAction = "asked"], Call("no-reply", None))

\* A Goal that is complete can only be cleared.
GoalAllows(what) ==
  CASE what = "start" -> pane.goal # "complete"
    [] what = "pause" -> pane.goal = "active"
    [] what = "resume" -> pane.goal = "paused"
    [] what = "clear" -> pane.goal # None
\* The page will take the Agent to be as it was when this was asked.
GoalBar ==
  /\ ~pane.goalSaving
  /\ \E what \in OnGoal : GoalAllows(what) /\ Begins([pane EXCEPT !.goalSaving = TRUE], [Call(what, None) EXCEPT !.made = [turn |-> pane.turn, goal |-> None]])

\* What the Hub makes of each, and of which thing.
Acted(what) ==
  CASE what = "interrupt" -> [thing |-> "turn", from |-> {"running"}, to |-> "idle"]
    [] what = "continue" -> [thing |-> "turn", from |-> {"interrupted"}, to |-> "running"]
    [] what = "dismiss" -> [thing |-> "turn", from |-> {"interrupted"}, to |-> "idle"]
    [] what = "retry" -> [thing |-> "held", from |-> {"held"}, to |-> "open"]
    [] what = "no-reply" -> [thing |-> "held", from |-> {"held"}, to |-> "closed"]
    [] what = "start" -> [thing |-> "goal", from |-> {None, "paused", "active"}, to |-> "active"]
    [] what = "pause" -> [thing |-> "goal", from |-> {"active"}, to |-> "paused"]
    [] what = "resume" -> [thing |-> "goal", from |-> {"paused"}, to |-> "active"]
    [] what = "clear" -> [thing |-> "goal", from |-> {"active", "paused", "complete"}, to |-> None]
Orders == {"interrupt"} \cup OnTurn \cup OnHeld \cup OnGoal
HubActs(c) ==
  /\ c.what \in Orders /\ ~c.done
  /\ LET a == Acted(c.what)
     IN /\ Data[a.thing] \in a.from
        /\ Changed(a.thing, a.thing, a.to)
        /\ calls' = (calls \ {c}) \cup
             {[c EXCEPT !.done = TRUE, !.made = [turn |-> IF c.what \in OnGoal THEN c.made.turn ELSE Data'["turn"], goal |-> Data'["goal"]]]}
  /\ UNCHANGED <<heard, pane, acts, faults>>

\* The answers: the Agent is taken from the answer, and lists are asked for again.
Acknowledged(p, c) ==
  CASE c.what \in OnTurn -> [p EXCEPT !.turnAction = FALSE, !.turn = c.made.turn, !.goal = c.made.goal]
    [] c.what \in OnHeld -> [p EXCEPT !.heldAction = "refresh"]
    [] c.what \in OnGoal -> [p EXCEPT !.goalSaving = FALSE, !.turn = c.made.turn, !.goal = c.made.goal]
    [] OTHER -> p
OrderDone(c) ==
  /\ c.what \in Orders /\ c.done
  /\ Ends(c, Acknowledged(pane, c), IF c.what \in OnHeld \cup {"continue"} THEN Invalidated(calls, {"pending"}) ELSE calls)
OrderFails(c) ==
  /\ c.what \in Orders
  /\ (~c.done /\ Data[Acted(c.what).thing] \notin Acted(c.what).from /\ UNCHANGED faults) \/ Failing
  /\ pane' = CASE c.what \in OnTurn -> [pane EXCEPT !.turnAction = FALSE]
               [] c.what \in OnHeld -> [pane EXCEPT !.heldAction = "no"]
               [] c.what \in OnGoal -> [pane EXCEPT !.goalSaving = FALSE]
               [] OTHER -> pane
  /\ calls' = calls \ {c}
  /\ UNCHANGED <<past, heard, acts>>
HeldEnds ==
  /\ pane.heldAction = "refresh" /\ InFlight({"pending"}) = {}
  /\ pane' = [pane EXCEPT !.heldAction = "no"]
  /\ UNCHANGED <<past, heard, calls, acts, faults>>

-----------------------------------------------------------------------------
(* Events: the Agent comes with them, the lists are asked for again.       *)

Hear ==
  /\ heard < Len(past) /\ heard' = heard + 1
  /\ LET event == past[heard + 1]
     IN IF event.what \in {"turn", "goal"}
        THEN pane' = [pane EXCEPT !.turn = event.data["turn"], !.goal = event.data["goal"]] /\ UNCHANGED calls
        ELSE HeardOf(calls, {IF event.what = "request" THEN "requests" ELSE "pending"})
  /\ UNCHANGED <<past, acts, faults>>

HubMoves ==
  \/ \E x \in Things : Data[x] = "open" /\ HubChanges("request", x, "closed")
  \/ Data["turn"] = "running" /\ HubChanges("turn", "turn", "idle")
  \/ Data["goal"] = "active" /\ HubChanges("goal", "goal", "complete")

ComposerNext ==
  \/ HubMoves \/ Hear \/ \E c \in calls : ListAnswered(c) \/ ListFailed(c)
  \/ onChange \/ addAttachmentFiles \/ removeAttachment \/ onAnswer \/ cancelAnswering \/ DropAnswering
  \/ send \/ Refreshed \/ \E c \in calls : uploadThreadArtifact(c) \/ HubTakes(c) \/ Sent(c) \/ NotSent(c)
  \/ interrupt \/ continueInterruptedTurn \/ dismissInterruptedTurn \/ continueHeldMessage \/ closeHeldMessage \/ GoalBar
  \/ HeldEnds \/ \E c \in calls : HubActs(c) \/ OrderDone(c) \/ OrderFails(c)
=============================================================================
