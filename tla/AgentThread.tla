---------------------------- MODULE AgentThread ----------------------------
(***************************************************************************)
(* One open Agent tab and what fills it: the browser's single event stream *)
(* (web/src/global-events.ts), the Thread's history and the Agent list the *)
(* pane asks the Hub for (AgentPane.tsx), and the feed they are reduced    *)
(* into (ThreadFeed).  Answers travel beside the stream: an answer may be  *)
(* read before an event and arrive after it.                               *)
(*                                                                         *)
(* The Hub's side is a script: the events the Thread emits, each with the  *)
(* item the rollout then holds, as many of them "emitted" as happened.     *)
(***************************************************************************)
EXTENDS ThreadFeed

CONSTANTS
  Scripts,       \* the Threads explored: sequences of [ev, turn, item]
  PastTurns,     \* the Turns in the rollout before the pane opens
  PAGE,          \* Turns in a page of history
  MountsLate,    \* whether the tab may be opened while the Thread is under way
  MaxRequests,   \* requests in flight when the stream opens or older Turns are asked for
  MaxFaults      \* connections lost and requests failed

ASSUME ThreadBounds ==
  MountsLate \in BOOLEAN /\ PAGE \in Nat \ {0} /\ MaxRequests \in Nat /\ MaxFaults \in Nat

\* What the rollout holds of one Turn.
ItemsListed(items) ==
  /\ items \in Seq(Range(items))
  /\ \A i \in DOMAIN items : items[i].kind \in DOMAIN HistoryKind /\ items[i].ts \in Nat

\* The Hub counts the events of a Thread (emitLocked); within a Thread Codex
\* asks for no approval under an id it has already had resolved.
ASSUME ScriptAssumption ==
  \A s \in Scripts :
    /\ s \in Seq(Range(s))
    /\ \A i \in DOMAIN s : s[i].ev.seq = i /\ s[i].ev.ts \in Nat /\ ItemsListed(s[i].item)
    /\ \A i, j \in DOMAIN s :
         (s[i].ev.type = "loom/approval-resolved" /\ s[j].ev.type = "loom/approval-requested"
           /\ s[i].ev.id = s[j].ev.id) => j < i

ASSUME HistoryAssumption ==
  /\ PastTurns \in Seq(Range(PastTurns))
  /\ \A i \in DOMAIN PastTurns : PastTurns[i].ts \in Nat /\ ItemsListed(PastTurns[i].items)

VARIABLES
  script, emitted,   \* the Thread and how far it got
  source,            \* the event stream: [state, openedOnce, cursor, list, gap]
  agent,             \* the App's copy of the Agent: [at, updatedAt]
  mounted,           \* whether its tab is open
  feed,              \* the pane's reducer
  page,              \* loadedRef, totalRef, loadingRef
  requests,          \* what the pane waits for: [kind, asked, offset]
  resolved,          \* approvals the pane has seen resolved
  faults

vars == <<script, emitted, source, agent, mounted, feed, page, requests, resolved, faults>>

NoList == -1
\* The Hub reads the answer some time after it was asked for: see ReadAt.
Request(kind, offset) == [kind |-> kind, asked |-> emitted, offset |-> offset]

-----------------------------------------------------------------------------
(* The Hub: what it would answer after n events.                           *)

ItemsOf(n, turn) == FlattenSeq([i \in 1..n |-> IF script[i].turn = turn THEN script[i].item ELSE <<>>])
TurnsOf(n) == {script[i].turn : i \in 1..n}
LiveTurn(n, turn) ==
  [id |-> turn, items |-> ItemsOf(n, turn), ts |-> n,
   usage |-> \E i \in 1..n : script[i].turn = turn /\ script[i].ev.type = "loom/turn-completed"]
Rollout(n) == PastTurns \o [t \in 1..Cardinality(TurnsOf(n)) |-> LiveTurn(n, t)]

Window(turns, count, offset) ==
  LET newest == Len(turns) - offset
  IN SubSeq(turns, IF newest > count THEN newest - count + 1 ELSE 1, newest)

PendingApprovals(n) ==
  {script[i].ev.id : i \in {j \in 1..n : script[j].ev.type = "loom/approval-requested"}}
    \ {script[i].ev.id : i \in {j \in 1..n : script[j].ev.type = "loom/approval-resolved"}}
Published(n) ==
  LET at == InOrder(n, {i \in 1..n : script[i].ev.type = "loom/artifact-published"})
  IN [i \in DOMAIN at |-> [id |-> script[at[i]].ev.id, ts |-> script[at[i]].ev.ts]]

HubStep ==
  /\ emitted < Len(script)
  /\ emitted' = emitted + 1
  /\ UNCHANGED <<script, source, agent, mounted, feed, page, requests, resolved, faults>>

-----------------------------------------------------------------------------
(* The event stream.                                                       *)

\* The page subscribes: the stream is opened, and reopened by the browser.
ensureSource == [state |-> "connecting", openedOnce |-> FALSE, cursor |-> 0, list |-> NoList, gap |-> FALSE]

Reconcile == {Request("agents", 0)} \cup (IF mounted THEN {Request("reconcile", 0)} ELSE {})

\* onopen tells the page to reconcile; the Hub starts after the last event the
\* browser saw (at its own end for a new page), then sends the Agent list.
Open ==
  /\ source.state \in {"connecting", "reconnecting"} /\ Cardinality(requests) < MaxRequests
  /\ \E from \in (IF source.openedOnce THEN {source.cursor, emitted} ELSE {emitted}) :
       source' = [source EXCEPT !.state = "live", !.openedOnce = TRUE, !.cursor = from, !.list = emitted,
                                !.gap = @ \/ (source.openedOnce /\ from # source.cursor)]
  /\ requests' = requests \cup Reconcile
  /\ UNCHANGED <<script, emitted, agent, mounted, feed, page, resolved, faults>>

Drop ==
  /\ source.state = "live" /\ faults < MaxFaults
  /\ source' = [source EXCEPT !.state = "reconnecting", !.list = NoList]
  /\ faults' = faults + 1
  /\ UNCHANGED <<script, emitted, agent, mounted, feed, page, requests, resolved>>

\* The Hub stamps the Agent when a Turn ends.
StampedAt(n) ==
  LET ends == {i \in 1..n : script[i].ev.type \in TurnEnds}
  IN IF ends = {} THEN 0 ELSE Max(ends)

\* applyThreadStatus, with the status that follows it: the stamp is taken over,
\* the approvals of the copy stay what they were.
applyThreadStatus(ev, n) == [agent EXCEPT !.updatedAt = IF ev.type \in TurnEnds THEN n ELSE @]

\* mergeAgentSnapshot: a list read after n events is kept out by a later stamp;
\* a new copy gives the open tab its approvals.
mergeAgentSnapshot(n) ==
  IF agent.updatedAt > StampedAt(n) THEN UNCHANGED <<agent, feed>>
  ELSE /\ agent' = [at |-> n, updatedAt |-> StampedAt(n)]
       /\ feed' = IF mounted THEN ApprovalsSnapshot(feed, n, PendingApprovals(n)) ELSE feed

Seen(ev) == IF ev.type = "loom/approval-resolved" THEN resolved \cup {ev.id} ELSE resolved

\* One event reaches the App and, through publishThreadEvent, the open tab, in
\* order.  The end of a Turn asks for its usage.
Deliver ==
  /\ source.state = "live" /\ source.cursor < emitted /\ source.list # source.cursor
  /\ LET ev == script[source.cursor + 1].ev
     IN /\ agent' = applyThreadStatus(ev, source.cursor + 1)
        /\ feed' = IF mounted THEN reduceFeed(feed, ev) ELSE feed
        /\ resolved' = IF mounted THEN Seen(ev) ELSE resolved
        /\ requests' = IF mounted /\ ev.type = "loom/turn-completed"
                         THEN requests \cup {Request("usage", 0)} ELSE requests
  /\ source' = [source EXCEPT !.cursor = @ + 1]
  /\ UNCHANGED <<script, emitted, mounted, page, faults>>

\* The Agent list the stream carries when it opens.
DeliverList ==
  /\ source.state = "live" /\ source.list = source.cursor
  /\ mergeAgentSnapshot(source.list)
  /\ source' = [source EXCEPT !.list = NoList]
  /\ UNCHANGED <<script, emitted, mounted, page, requests, resolved, faults>>

-----------------------------------------------------------------------------
(* The pane.                                                               *)

\* The tab is opened: it takes the App's copy of the Agent and asks for history.
Mount ==
  /\ ~mounted
  /\ mounted' = TRUE
  /\ feed' = ApprovalsSnapshot(feed, agent.at, PendingApprovals(agent.at))
  /\ requests' = requests \cup {Request("seed", 0)}
  /\ UNCHANGED <<script, emitted, source, agent, page, resolved, faults>>

\* Scrolled near the top: the next older page, one at a time.
LoadOlder ==
  /\ ~page.loading /\ page.loaded < page.total /\ Cardinality(requests) < MaxRequests
  /\ page' = [page EXCEPT !.loading = TRUE]
  /\ requests' = requests \cup {Request("older", page.loaded)}
  /\ UNCHANGED <<script, emitted, source, agent, mounted, feed, resolved, faults>>

\* The answer to r was read after n events.
ReadAt(r, kind, n) == r.kind = kind /\ n \in r.asked..emitted
Newest(n) == Window(Rollout(n), PAGE, 0)

\* The first page; the artifacts are asked for whether it came or not.
SeedAnswered(r, n) ==
  /\ ReadAt(r, "seed", n)
  /\ feed' = SeedHistory(feed, Newest(n))
  /\ page' = [page EXCEPT !.loaded = Len(Newest(n)), !.total = Len(Rollout(n))]
  /\ requests' = (requests \ {r}) \cup {Request("artifacts", 0)}

ArtifactsAnswered(r, n) ==
  /\ ReadAt(r, "artifacts", n)
  /\ feed' = PublishedArtifacts(feed, Published(n))
  /\ requests' = requests \ {r}
  /\ UNCHANGED page

ReconcileAnswered(r, n) ==
  /\ ReadAt(r, "reconcile", n)
  /\ feed' = ReconcileHistory(feed, Newest(n))
  /\ page' = [page EXCEPT !.loaded = Len(Newest(n)), !.total = Len(Rollout(n))]
  /\ requests' = requests \ {r}

OlderAnswered(r, n) ==
  /\ ReadAt(r, "older", n)
  /\ LET older == Window(Rollout(n), PAGE, r.offset)
     IN /\ feed' = PrependHistory(feed, older)
        /\ page' = [loaded |-> page.loaded + Len(older), total |-> Len(Rollout(n)), loading |-> FALSE]
  /\ requests' = requests \ {r}

UsageAnswered(r, n) ==
  /\ ReadAt(r, "usage", n)
  /\ LET latest == Window(Rollout(n), 1, 0)
     IN feed' = IF latest = <<>> THEN feed ELSE TurnUsage(feed, latest[1])
  /\ requests' = requests \ {r}
  /\ UNCHANGED page

Answer ==
  /\ \E r \in requests, n \in 0..emitted :
       \/ SeedAnswered(r, n) \/ ArtifactsAnswered(r, n) \/ ReconcileAnswered(r, n)
       \/ OlderAnswered(r, n) \/ UsageAnswered(r, n)
  /\ UNCHANGED <<script, emitted, source, agent, mounted, resolved, faults>>

\* reconcileAgents.
AgentsAnswered ==
  \E r \in requests, n \in 0..emitted :
    /\ ReadAt(r, "agents", n)
    /\ mergeAgentSnapshot(n)
    /\ requests' = requests \ {r}
    /\ UNCHANGED <<script, emitted, source, mounted, page, resolved, faults>>

\* A request that fails is forgotten.
Fail ==
  /\ faults < MaxFaults
  /\ \E r \in requests :
       /\ requests' = (requests \ {r}) \cup (IF r.kind = "seed" THEN {Request("artifacts", 0)} ELSE {})
       /\ page' = IF r.kind = "older" THEN [page EXCEPT !.loading = FALSE] ELSE page
  /\ faults' = faults + 1
  /\ UNCHANGED <<script, emitted, source, agent, mounted, feed, resolved>>

-----------------------------------------------------------------------------

\* The tabs of the last visit open with the first Agent list.
Init ==
  /\ script \in Scripts
  /\ emitted = 0
  /\ source = ensureSource
  /\ agent = [at |-> 0, updatedAt |-> 0]
  /\ mounted = ~MountsLate
  /\ feed = IF mounted THEN ApprovalsSnapshot(emptyFeed, 0, {}) ELSE emptyFeed
  /\ page = [loaded |-> 0, total |-> 0, loading |-> FALSE]
  /\ requests = IF mounted THEN {Request("seed", 0)} ELSE {}
  /\ resolved = {}
  /\ faults = 0

Next ==
  \/ HubStep \/ Open \/ Drop \/ Deliver \/ DeliverList
  \/ Mount \/ LoadOlder \/ Answer \/ AgentsAnswered \/ Fail

Spec == Init /\ [][Next]_vars

-----------------------------------------------------------------------------
(* Properties.                                                             *)

\* Every key finds the block of its own item, whatever was put before it since
\* it was indexed: a piece of one answer never lands in another (feed.ts, update
\* and reorderBlocks).
IndexIsExact ==
  \A key \in DOMAIN feed.index :
    /\ feed.index[key] \in DOMAIN feed.blocks
    /\ feed.blocks[feed.index[key]].kind = key[1]
    /\ feed.blocks[feed.index[key]].id = key[2]

\* An approval the pane saw resolved is never asked for again, however old the
\* Agent list that arrives next (the guard on approvalsSeq).
ResolvedStaysResolved == feed.approvals \cap resolved = {}

\* An artifact is shown once, whether the event, the list of published ones or
\* both brought it, and in whatever order.
ArtifactOnce ==
  \A i, j \in DOMAIN feed.blocks :
    (feed.blocks[i].kind = "artifact" /\ feed.blocks[j].kind = "artifact" /\ feed.blocks[i].id = feed.blocks[j].id)
      => i = j

\* Once the end of the last Turn has reached the pane, no answer is shown as
\* still being written, unless the Hub could not replay what was missed.
StreamEndsWithTurn ==
  (source.cursor > 0 /\ ~source.gap /\ script[source.cursor].ev.type \in TurnEnds)
    => \A i \in DOMAIN feed.blocks : feed.blocks[i].kind = "agent" => ~feed.blocks[i].open

\* What the pane shows once nothing is on its way: the approvals that wait for
\* the owner, those included that were asked for before it was opened:
\* "AgentView snapshots carry approvals that may have been requested before this
\* pane mounted" (AgentPane.tsx:635).
ApprovalIsShown ==
  (mounted /\ source.state = "live" /\ source.cursor = emitted /\ source.list = NoList /\ requests = {})
    => PendingApprovals(emitted) \subseteq feed.approvals
=============================================================================
