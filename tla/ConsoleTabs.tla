---------------------------- MODULE ConsoleTabs ----------------------------
(***************************************************************************)
(* Where the owner is in the web console (web/src/App.tsx, tab-order.ts):  *)
(* the open Agent tabs, the one in front, the workspace shown, the marks   *)
(* of results not yet seen and the address.  Operators only: each takes    *)
(* and returns such a "nav" record.  Console moves it.                     *)
(***************************************************************************)
EXTENDS Integers, Sequences, FiniteSets, SequencesExt

None == "none"
Workspaces == {"team", "needs-you", "topics", "inbox", "integrations", "messages", "schedules",
               "status", "usage", "capacity", "settings", "files"}

Open(tabs, id) == IF Contains(tabs, id) THEN tabs ELSE Append(tabs, id)
\* Of the tabs those in ids, in their order.
Among(tabs, ids) ==
  LET upto[i \in 0..Len(tabs)] ==
        IF i = 0 THEN <<>> ELSE IF tabs[i] \in ids THEN Append(upto[i - 1], tabs[i]) ELSE upto[i - 1]
  IN upto[Len(tabs)]
Without(tabs, id) == Among(tabs, Range(tabs) \ {id})
PlaceOf(tabs, id) == CHOOSE i \in DOMAIN tabs : tabs[i] = id

-----------------------------------------------------------------------------
(* tab-order.ts                                                            *)

\* Mutant: the moved tab is not looked for.
reorderItemUnchecked(tabs, moving, target, edge) ==
  IF moving = target \/ ~Contains(tabs, target) THEN tabs
  ELSE LET rest == Without(tabs, moving)
       IN InsertAt(rest, PlaceOf(rest, target) + (IF edge = "after" THEN 1 ELSE 0), moving)
reorderItem(tabs, moving, target, edge) ==
  IF moving = target \/ ~Contains(tabs, moving) \/ ~Contains(tabs, target) THEN tabs
  ELSE LET rest == Without(tabs, moving)
       IN InsertAt(rest, PlaceOf(rest, target) + (IF edge = "after" THEN 1 ELSE 0), moving)

moveItem(tabs, moving, offset) ==
  IF ~Contains(tabs, moving) THEN tabs
  ELSE LET from == PlaceOf(tabs, moving)
           to == from + offset
       IN IF to \in DOMAIN tabs THEN [tabs EXCEPT ![from] = tabs[to], ![to] = moving] ELSE tabs

-----------------------------------------------------------------------------
(* Moving about.                                                           *)

selectAgent(nav, id) ==
  [nav EXCEPT !.tabs = Open(@, id), !.unseen = @ \ {id}, !.current = id, !.view = "agents", !.hash = id]

\* selectTeam, selectInbox, ...: a workspace takes the place of the tabs.
selectView(nav, view) == [nav EXCEPT !.view = view, !.current = None, !.hash = view]

\* Mutant: the next tab is looked up among the tabs that include the closed one.
closeAgentInPlace(nav, id, held) ==
  LET rest == Without(nav.tabs, id)
      next == IF rest = <<>> THEN None ELSE nav.tabs[PlaceOf(nav.tabs, id)]
      seen == [nav EXCEPT !.unseen = @ \ {id}, !.tabs = rest]
  IN IF ~Contains(nav.tabs, id) THEN [nav EXCEPT !.unseen = @ \ {id}]
     ELSE IF held # id THEN seen
     ELSE [seen EXCEPT !.current = next, !.hash = next]

\* "held" is the current tab as the handler that calls this was given it.
closeAgent(nav, id, held) ==
  LET rest == Without(nav.tabs, id)
      place == PlaceOf(nav.tabs, id)
      next == IF rest = <<>> THEN None ELSE rest[IF place <= Len(rest) THEN place ELSE Len(rest)]
      seen == [nav EXCEPT !.unseen = @ \ {id}, !.tabs = rest]
  IN IF ~Contains(nav.tabs, id) THEN [nav EXCEPT !.unseen = @ \ {id}]
     ELSE IF held # id THEN seen
     ELSE IF next = None THEN [seen EXCEPT !.current = None, !.hash = None]
     ELSE [seen EXCEPT !.current = next, !.view = "agents", !.hash = next]

Killed(nav, id) ==
  [nav EXCEPT !.tabs = Without(@, id), !.unseen = @ \ {id}, !.current = IF @ = id THEN None ELSE @]

Viewed(nav, id) == nav.view = "agents" /\ nav.current = id

\* The owner's own Turn has ended in an open tab that is not looked at.
Marked(nav, id) ==
  IF Contains(nav.tabs, id) /\ ~Viewed(nav, id) THEN [nav EXCEPT !.unseen = @ \cup {id}] ELSE nav

-----------------------------------------------------------------------------
(* The effects that follow a change of the Agent list.                     *)

\* Mutant: every list clears the marks.
FilteredBare(nav, ids) ==
  [nav EXCEPT !.tabs = Among(@, ids), !.unseen = {},
              !.current = IF @ \in ids THEN @ ELSE None]
Filtered(nav, ids) ==
  [nav EXCEPT !.tabs = Among(@, ids), !.unseen = @ \cap ids,
              !.current = IF @ \in ids THEN @ ELSE None]

\* The address the page was opened with, honoured once.
HashRoute(nav, ids) ==
  IF nav.applied THEN nav
  ELSE IF nav.hash \in Workspaces THEN [nav EXCEPT !.view = nav.hash, !.applied = TRUE]
  ELSE IF ids = {} THEN nav
  ELSE IF nav.hash \in ids
    THEN [nav EXCEPT !.tabs = Open(@, nav.hash), !.current = nav.hash, !.applied = TRUE]
  ELSE [nav EXCEPT !.applied = TRUE]

\* The address follows the Agent shown.
Addressed(nav, ids) ==
  IF nav.view = "agents" /\ nav.current \in ids THEN [nav EXCEPT !.hash = nav.current] ELSE nav

Followed(nav, ids) == Addressed(HashRoute(Filtered(nav, ids), ids), ids)

\* A page load: tabs and current come from the browser's session.
Loaded(tabs, current, hash) ==
  HashRoute([tabs |-> tabs, current |-> current, view |-> "agents", unseen |-> {}, hash |-> hash, applied |-> FALSE], {})
=============================================================================
