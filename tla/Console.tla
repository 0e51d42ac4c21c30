------------------------------- MODULE Console ------------------------------
(***************************************************************************)
(* The web console (web/src/App.tsx): the Agent list it keeps, the event   *)
(* stream that changes it, what the owner opens, closes *)
(* and drags meanwhile, and the calls it waits for.  A call may be read by *)
(* the Hub before an event and answered after it.                          *)
(*                                                                         *)
(* Of an Agent the list keeps its id only; how copies of one are merged is *)
(* in AgentThread.                                                         *)
(***************************************************************************)
EXTENDS ConsoleTabs

CONSTANTS
  Initial,      \* the Agents there are at first
  Spare,        \* the Agents that may be created
  Views,        \* the workspaces visited
  Sessions,     \* what the browser remembers when the page is opened: [tabs, current, hash]
  HubKinds,     \* what happens in the Hub by itself
  MaxEvents,    \* events of the Hub
  MaxActs,      \* what the owner does
  MaxFaults     \* connections lost and calls failed

ASSUME ConsoleBounds ==
  /\ None \notin Initial \cup Spare /\ Views \subseteq Workspaces
  /\ MaxEvents \in Nat /\ MaxActs \in Nat /\ MaxFaults \in Nat

\* The session was written by the page that was open before.
ASSUME SessionsAssumption ==
  \A s \in Sessions : /\ s.tabs \in Seq(Range(s.tabs))
                      /\ s.current \in Initial \cup Spare => Contains(s.tabs, s.current)

VARIABLES
  log,       \* what happened in the Hub: [kind, agent]
  source,    \* the event stream: [state, openedOnce, cursor, list]
  agents,    \* the Agents in the page's list
  nav,       \* ConsoleTabs
  calls,     \* in flight: [kind, agent, asked, held]
  pointer,   \* the tab under the pointer: [id, target]
  acts,      \* how much of MaxActs was done
  faults

vars == <<log, source, agents, nav, calls, pointer, acts, faults>>

Acts == acts < MaxActs /\ acts' = acts + 1

NoList == -1
NoPointer == [id |-> None, target |-> None]
Call(kind) == [kind |-> kind, agent |-> None, asked |-> Len(log), held |-> None]
InFlight(kinds) == {c \in calls : c.kind \in kinds}

\* The Agents there are after n events.
Alive(n) ==
  (Initial \cup {log[i].agent : i \in {j \in 1..n : log[j].kind = "created"}})
    \ {log[i].agent : i \in {j \in 1..n : log[j].kind = "killed"}}
Now == Alive(Len(log))

Event(kind, id) == log' = Append(log, [kind |-> kind, agent |-> id])

\* Turns end.
HubEvent ==
  /\ Len(log) < MaxEvents
  /\ \E kind \in HubKinds, id \in Now : Event(kind, id)
  /\ UNCHANGED <<source, agents, nav, calls, pointer, acts, faults>>

-----------------------------------------------------------------------------

\* invalidateQueries: a call in flight is dropped and asked again; the first one is
\* joined instead, which it can be only as long as the list is empty.
Dropped == (calls \ InFlight({"agents"})) \cup {Call("agents")}
Invalidated == {Dropped} \cup (IF agents = {} /\ InFlight({"agents"}) # {} THEN {calls} ELSE {})

\* The page becomes visible again.
Visible ==
  /\ InFlight({"reconcile"}) = {}
  /\ calls' = calls \cup {Call("reconcile")}
  /\ UNCHANGED <<log, source, agents, nav, pointer, faults>> /\ Acts

-----------------------------------------------------------------------------
(* The event stream.                                                       *)

Opened ==
  /\ source.state \in {"connecting", "reconnecting"}
  /\ \E from \in (IF source.openedOnce THEN {source.cursor, Len(log)} ELSE {Len(log)}) :
       source' = [state |-> "live", openedOnce |-> TRUE, cursor |-> from, list |-> Len(log)]
  /\ calls' = calls \cup {Call("reconcile")}
  /\ UNCHANGED <<log, agents, nav, pointer, acts, faults>>

Drop ==
  /\ source.state = "live" /\ faults < MaxFaults
  /\ source' = [source EXCEPT !.state = "reconnecting", !.list = NoList]
  /\ faults' = faults + 1
  /\ UNCHANGED <<log, agents, nav, calls, pointer, acts>>

\* The handler of the App, one event at a time.
Deliver ==
  /\ source.state = "live" /\ source.cursor < Len(log) /\ source.list # source.cursor
  /\ LET e == log[source.cursor + 1]
     IN \/ /\ e.kind \in {"result", "background"}
           /\ nav' = LET marked == IF e.kind = "result" THEN Marked(nav, e.agent) ELSE nav
                     IN IF e.agent \in agents THEN Followed(marked, agents) ELSE marked
           /\ UNCHANGED <<agents, calls>>
        \/ /\ e.kind = "killed"
           /\ agents' = agents \ {e.agent}
           /\ nav' = Followed(Killed(nav, e.agent), agents')
           /\ UNCHANGED calls
        \/ /\ e.kind = "created"
           /\ calls' \in IF e.agent \in agents THEN {calls} ELSE Invalidated
           /\ UNCHANGED <<agents, nav>>
  /\ source' = [source EXCEPT !.cursor = @ + 1]
  /\ UNCHANGED <<log, pointer, acts, faults>>

\* The Agent list the stream carries when it opens.
DeliverList ==
  /\ source.state = "live" /\ source.list = source.cursor
  /\ source' = [source EXCEPT !.list = NoList]
  /\ agents' = Alive(source.list)
  /\ nav' = Followed(nav, agents')
  /\ UNCHANGED <<log, calls, pointer, acts, faults>>

-----------------------------------------------------------------------------
(* Answers.  One was read after n events.                                  *)

\* refresh and reconcileAgents: the list is replaced.
ListAnswered(c, n) ==
  /\ c.kind \in {"agents", "reconcile"} /\ n \in c.asked..Len(log)
  /\ agents' = Alive(n)
  /\ nav' = Followed(nav, agents')

\* The Agent is archived: its tab is closed, with the current tab of the moment
\* the owner asked for it.
ArchiveAnswered(c) ==
  /\ c.kind = "archived"
  /\ nav' = closeAgent(nav, c.agent, c.held)
  /\ UNCHANGED agents

Answer ==
  /\ \E c \in calls :
       /\ \/ \E n \in 0..Len(log) : ListAnswered(c, n)
          \/ ArchiveAnswered(c)
       /\ calls' = calls \ {c}
  /\ UNCHANGED <<log, source, pointer, acts, faults>>

\* A call that fails leaves everything as it was.
Fail ==
  /\ faults < MaxFaults
  /\ \E c \in calls :
       /\ c.kind # "opening"
       /\ calls' = calls \ {c}
  /\ faults' = faults + 1
  /\ UNCHANGED <<log, source, agents, nav, pointer, acts>>

-----------------------------------------------------------------------------
(* The owner.                                                              *)

Elsewhere == UNCHANGED <<log, source, agents, faults>>

Select == (\E id \in agents : nav' = selectAgent(nav, id)) /\ UNCHANGED <<calls, pointer>> /\ Elsewhere /\ Acts
SelectView == (\E v \in Views : nav' = selectView(nav, v)) /\ UNCHANGED <<calls, pointer>> /\ Elsewhere /\ Acts
Shown == {id \in Range(nav.tabs) : id \in agents}
Close ==
  /\ \E id \in Shown : nav' = closeAgent(nav, id, nav.current)
  /\ UNCHANGED <<calls, pointer>> /\ Elsewhere /\ Acts
MoveTab ==
  /\ \E id \in Shown, offset \in {-1, 1} : nav' = [nav EXCEPT !.tabs = moveItem(@, id, offset)]
  /\ UNCHANGED <<calls, pointer>> /\ Elsewhere /\ Acts

\* A pointer goes down on a tab; a mouse that moves, or a finger that waits,
\* takes the tab along; a finger that moves first scrolls instead.
BeginPointer ==
  /\ pointer = NoPointer
  /\ \E id \in Shown : pointer' = [NoPointer EXCEPT !.id = id]
  /\ UNCHANGED <<nav, calls>> /\ Elsewhere /\ Acts
MovePointer ==
  /\ pointer # NoPointer
  /\ \E id \in Shown \ {pointer.id} : pointer' = [pointer EXCEPT !.target = id]
  /\ UNCHANGED <<nav, calls>> /\ Elsewhere /\ UNCHANGED acts
ClearPointer ==
  /\ pointer # NoPointer
  /\ pointer' = NoPointer
  /\ UNCHANGED <<nav, calls>> /\ Elsewhere /\ UNCHANGED acts
\* A tab that was dragged is put down on one side of the last target, and the
\* click that follows is swallowed; one that was not is selected.
EndPointer ==
  /\ pointer # NoPointer
  /\ \/ /\ pointer.target # None
        /\ \E edge \in {"before", "after"} :
             nav' = [nav EXCEPT !.tabs = reorderItem(@, pointer.id, pointer.target, edge)]
     \/ /\ pointer.target = None
        /\ nav' = IF pointer.id \in Shown THEN selectAgent(nav, pointer.id) ELSE nav
  /\ pointer' = NoPointer
  /\ UNCHANGED calls /\ Elsewhere /\ UNCHANGED acts

Coming == Cardinality(InFlight({"archive", "create"}))

\* archiveAgent: once at a time for an Agent.
Archive ==
  /\ Len(log) + Coming < MaxEvents
  /\ \E id \in agents :
       /\ ~\E c \in InFlight({"archive", "archived"}) : c.agent = id
       /\ calls' = calls \cup {[Call("archive") EXCEPT !.agent = id, !.held = nav.current]}
  /\ UNCHANGED <<nav, pointer>> /\ Elsewhere /\ Acts

CreateSteps == {"create", "created", "profile", "opening"}
\* create: once at a time.
Create ==
  /\ Len(log) + Coming < MaxEvents
  /\ InFlight(CreateSteps) = {}
  /\ calls' = calls \cup {Call("create")}
  /\ UNCHANGED <<nav, pointer>> /\ Elsewhere /\ Acts

\* The Hub archives or creates, and answers.
Serve ==
  /\ \E c \in calls :
       \/ /\ c.kind = "archive" /\ c.agent \in Now
          /\ Event("killed", c.agent)
          /\ calls' = (calls \ {c}) \cup {[c EXCEPT !.kind = "archived"]}
       \/ /\ c.kind = "archive" /\ c.agent \notin Now
          /\ calls' = calls \ {c}
          /\ UNCHANGED log
       \/ /\ c.kind = "create"
          /\ \E id \in Spare \ {log[i].agent : i \in DOMAIN log} :
               /\ Event("created", id)
               /\ calls' = (calls \ {c}) \cup {[c EXCEPT !.kind = "created", !.agent = id]}
  /\ UNCHANGED <<source, agents, nav, pointer, acts, faults>>

\* A domain is saved by a second call; then the list is asked for.
Created ==
  /\ \E c \in InFlight({"created", "profile"}) :
       \/ c.kind = "created" /\ calls' = (calls \ {c}) \cup {[c EXCEPT !.kind = "profile"]}
       \/ \E C \in Invalidated : calls' = (C \ {c}) \cup {[c EXCEPT !.kind = "opening"]}
  /\ UNCHANGED <<nav, pointer>> /\ Elsewhere /\ UNCHANGED acts

\* Once the list has come, or failed to, the new Agent is opened.
OpenCreated ==
  /\ InFlight({"agents"}) = {}
  /\ \E c \in InFlight({"opening"}) :
       /\ nav' = [selectAgent(nav, c.agent) EXCEPT !.hash = IF c.agent \in agents THEN c.agent ELSE nav.hash]
       /\ calls' = calls \ {c}
  /\ UNCHANGED pointer /\ Elsewhere /\ UNCHANGED acts

-----------------------------------------------------------------------------

Fresh == {Call("agents")}
Connecting == [state |-> "connecting", openedOnce |-> FALSE, cursor |-> 0, list |-> NoList]

\* The page is loaded again: the session keeps the tabs and the one in front.
Reload ==
  /\ faults < MaxFaults
  /\ faults' = faults + 1
  /\ source' = Connecting
  /\ agents' = {}
  /\ nav' = Loaded(nav.tabs, nav.current, nav.hash)
  /\ calls' = Fresh
  /\ pointer' = NoPointer
  /\ UNCHANGED <<log, acts>>

Init ==
  /\ log = <<>>
  /\ source = Connecting
  /\ agents = {}
  /\ \E s \in Sessions : nav = Loaded(s.tabs, s.current, s.hash)
  /\ calls = Fresh
  /\ pointer = NoPointer
  /\ acts = 0 /\ faults = 0

Next ==
  \/ HubEvent \/ Serve
  \/ Opened \/ Drop \/ Deliver \/ DeliverList
  \/ Visible \/ Answer \/ Fail
  \/ Select \/ SelectView \/ Close \/ MoveTab
  \/ BeginPointer \/ MovePointer \/ ClearPointer \/ EndPointer
  \/ Archive \/ Create \/ Created \/ OpenCreated
  \/ Reload

Spec == Init /\ [][Next]_vars

-----------------------------------------------------------------------------
(* Properties.                                                             *)

\* The Agent in front has a tab as long as it lives, whichever answer or event
\* came last and whatever the owner looked at when he asked for an archive.
CurrentIsOpen == nav.current \in Now => Contains(nav.tabs, nav.current)

\* A tab appears only in front, where the owner asked for it: not behind, by a
\* late answer or by dropping one that was closed while it was dragged.
TabAppearsInFront ==
  [][\A id \in Range(nav'.tabs) \ Range(nav.tabs) : nav'.current = id]_nav

\* The mark of a result the owner has not seen stays until its tab is in front
\* or closed, or the page is loaded again.
MarkStaysUntilSeen ==
  [][faults' = faults =>
       \A id \in nav.unseen \ nav'.unseen : Viewed(nav', id) \/ ~Contains(nav'.tabs, id)]_vars
=============================================================================
