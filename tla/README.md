# CodexLoom: a verification project

CodexLoom (the repository, `src/`) is a Go server that governs a set of Codex Agents: it starts Turns on their Codex
Threads, carries messages between them, wakes them at set times or when an external fact holds, and connects them to
Slack, Feishu and other platforms; Node.js gateways stand at the platforms, and a React console (`web/src`) is where
the owner works. This directory holds TLA+ models of its core, of the gateways and of the console, the TLC
configurations that check them on small instances, and TLAPS proofs of what holds for every instance. `PROJECT.json` maps each definition to the
lines it models and lists runs, mutants, hazards, findings and theorems.

Contents: [1 System](#1-the-system) · [2 Plan](#2-plan) · [3 Delivery](#3-delivery-of-agent-messages) ·
[4 Timed work](#4-timed-work-schedules-and-triggers) · [5 External work](#5-external-work) ·
[6 Gateways](#6-gateways) · [7 Agent thread](#7-an-agents-thread-in-the-browser) · [8 Console](#8-the-console) ·
[9 Panes](#9-the-panes) · [10 Proofs](#10-what-is-proved) ·
[11 Disagreements](#11-where-the-code-disagrees-with-its-documents) · [12 Not modelled](#12-what-is-not-modelled)

## 1 The system

`internal/hub` is the domain core: one `Hub` value whose mutex `h.mu` guards maps of durable records. Every API
command is one or more critical sections of that mutex. A record is written to disk before memory is changed (or
memory is rolled back when the write fails), so after each critical section memory and disk agree. The mutex is
released around every RPC to Codex, every read of a provider and every wait, and this is where the difficulty lies:
worker goroutines claim a record, unlock, call out, lock again and settle the record, while commands, notifications
and other workers run in between. Background loops offer work again (delivery 5 s, scheduler 1 s, inbox 2 s, triggers
30 s); `launchd` or the reloader starts the next process after a stop or a crash.

| Component (`internal/hub` unless said) | State | Operations | Hard behaviour | What makes it correct |
|---|---|---|---|---|
| Agent messages (`communication.go`, `hub.go`) | `comms`, `commOrder` | send, reply, cancel, resolve, no-reply, retry | claimed by workers while commands change the record | answered only by a reply that arrived; a claim is always settled; no automatic redelivery |
| Turn lifecycle (`agent.go`, `hub.go`) | `rt.activeTurn`, `turnState`, the Agent's record | reserve, start, rebind, adopt, supersede, end, interrupt | notifications before, after or instead of the answer of `turn/start` | the end of a Turn reaches the message it handles |
| Startup, drain, shutdown (`hub.go`, `drain.go`, `shutdown.go`) | `stopping`, `draining`; all records | open, begin and cancel drain, close | a crash anywhere between two writes | nothing is stranded, nothing handled is queued again |
| Scheduler (`scheduler.go`) | `schedules` | create, enable, delete, run, tick | message and schedule are two files | each occurrence once, in order, none for ever due |
| Triggers (`trigger.go`) | `triggers`, observations in flight | create, pause, resume, cancel, poll, observe, apply | the provider is read without the lock | one message per trigger, from a waiting trigger only |
| Inbox (`inbox.go`, `integration.go`) | `inbox` | ingest, reply, no-reply, defer, retry, deliver, finish | item and reply are two files; a claim does not reserve its Turn | closed as answered only if the platform took the reply |
| Outbox, connector stream (`outbox.go`, `connector_delivery.go`, `internal/httpapi`) | `outbox`, leases | create, claim, complete, retry, stream | a claim takes five critical sections; late results | one unexpired claim per Connection; results end their own attempt |
| Provider operations (`provider_operation.go`) | `providerOperations` | create, claim, complete | as above, over the same stream | as above |
| Gateways (`gateway/*.mjs`) | one state file each: events that wait, marks, parts sent, results | take in events, mark, monitor, receive command, post, journal, report | concurrent tasks share one state object; answers, reports and processes are lost | what is shown and sent agrees with the state file |
| Agent thread (`web/src/AgentPane.tsx`, `feed.ts`, `global-events.ts`) | the feed of one tab, the page's copy of the Agent | seed, page, reconcile, reduce an event | answers travel beside the stream and overtake it | a piece of an answer lands in its own block |
| Console (`web/src/App.tsx`, `tab-order.ts`) | Agent list, open tabs, focus, marks, address | open, close, drag, create, archive, hear, reload | late answers meet what the owner did meanwhile | focus, tabs and marks fit each other |
| Panes (`web/src/*Pane.tsx`) | lists read from the Hub, what is selected, what is typed | refresh, hear, select, edit, send, save | refreshes overtake each other, forms are open while their subject changes | what is shown, typed and saved stays with what it belongs to |
| Human requests (`human_request.go`) | `humanRequests` | ask, answer, cancel, deliver answer | answer claimed for a Turn, then a crash | one answer, delivered once |
| Topics (`topic.go`) | topics, cursors | create, join, set context | cursor advanced before or after a Turn begins | a participant misses no update |
| Goals and graceful restart (`goal.go`, `internal/httpapi/restart_goal.go`) | goal of each Thread, restart file | set, pause for restart, resume | some Goals are paused, then a failure or a crash | every paused Goal is resumed, no other |
| Approvals (`hub.go:1543-1650`) | pending approvals | request, answer, cancel | the answer races the end of the Turn | at most one answer to Codex |
| Integration registry (`integration.go`, `conversation.go`, `address_lifecycle.go`) | connections, addresses, memberships, routes | create, move, archive | several files change together | no item is routed to an address that is gone |
| Gateway processes (`gateway_process_*.go`, `gateway_state.go`) | durable launch phases | launch, stop, recover | a crash between a phase and its effect | one process per Connection |
| CodexHost (`codex_host.go`) | host process, generations, fences | start, exit, fence, resume | a timed-out call may still take effect | no use of a Thread whose last call is undecided |
| Turn context (`context.go`) | epochs, revisions | build, record | a Turn fails after its context was recorded | context is not lost, not repeated |
| Agents, profiles, teams, groups, working directories, providers | registries | create, rename, move, switch | mostly one locked update each | references stay valid |
| Store (`internal/store`) | NDJSON and JSON files | append, replace, load | torn tails, two names of one file | a record once written is read again |
| Codex client, rollouts (`internal/codex`, `internal/rollout`) | pending calls, index | call, notify, scan | timeouts, process exit | a call is answered once |
| HTTP API, commands, backups, credentials, platform clients | none of their own, or files | decode, call, encode | — | — |

How they interact. A schedule, a trigger, an Agent or the owner creates an *agent message*; the delivery loop starts a
Turn with it (or steers a reply into the Turn that asked); the Turn's end is written back to the message; a reply is a
message of its own whose delivery answers the request. External messages become Inbox items, which the inbox loop
offers to the same Turn machinery; their replies and the proactive messages become Outbox items, and reads become
provider operations; both are claimed one at a time by the event stream of their Connection, carried out by a gateway
and completed by its report. The console asks the Hub for lists and hears of changes over one event stream; the two are
not ordered with each other, and every pane has its own way of putting them together.

The hazards list in `PROJECT.json` holds the places where tests hardly reach, each at its line with the properties
that watch it.

## 2 Plan

The order is by what the system promises its users: messages first, then the sources of messages, then the outside.

| # | Modules | Composes | Abstract specification | State |
|---|---|---|---|---|
| 1 | `AgentMessage`, `AgentDelivery`, `MCAgentDelivery` | messages, Turns, workers, Codex, crash | `RequestLedger` | done |
| 2 | `AgentDelivery_proofs`: the message table, types, `DeliveringIsOwned`, `AnsweredByReply` | 1 | | done |
| 3 | `Budget`, `HubProcess`, `Schedules`, `Triggers`, `Occurrences` | schedules, triggers, one process | | done |
| 4 | `ExternalRecords`, `InboxHandling`, `ConnectorDelivery`, `ExternalWork`, `MCExternalWork` | inbox, Turns, outbox, stream, gateway, platform | | done |
| 5 | `Occurrences_proofs`: `OccurrencesInOrder`, `RecordedRunWasSent`, `OneMessagePerTrigger`, `OnlyWaitingTriggersResume` | | | done |
| 6 | `ExternalWork_proofs`: `OneCommandInFlight`, `FinishedByItsAttempt`, `HandledReplyWasSent`, `AwaitingHasReply` | | | done |
| 7 | `GatewayRuntime`, `SlackGateway`, `LarkGateway`, `ParallGateway`, `Gateways`, `MCGateways` | one gateway with its tasks, its state file, the platform and the Hub | | done |
| 8 | `ThreadFeed`, `AgentThread`, `MCAgentThread` | the feed's reducer, one tab, the event stream, the Hub's answers | | done |
| 9 | `ConsoleTabs`, `Console`, `MCConsole` | tabs and focus, the Agent list, the owner | | done |
| 10 | `Pane`; `NeedsYou`, `Topics`, `Lists`, `HostFiles`, `FeedScroll`, `Composer`, `ConversationRoles`, `Inspector`, `External`; `Workspace`, `MCWorkspace` | one pane at a time with the Hub, other clients and the owner | | done |
| 11 | `TeamPane`, `UsagePane`: the two large panes left (`web/src`) | as `Pane` | | next |
| 12 | `RecordFile`: append, torn tail, load, replacement (`internal/store`) | used under 1, 3 and 4 in place of "a write is done or failed" | a log: what was acknowledged is loaded | planned |
| 13 | `HumanRequests`, `Approvals` on the Hub's side | with the Turn lifecycle | a question with at most one answer | planned |
| 14 | `GracefulRestart`: drain, pause of Goals, reloader, resume | process and CodexHost | | planned |
| 15 | `CodexHost`: generations, undecided calls, fences | | | planned |
| 16 | `GatewayProcess`: durable launch phases and recovery | | | planned |
| 17 | `CronExpression`: `parseCronField`, `matches`, `nextCronAfter` against the least matching minute | pure operators | the least match | planned |
| 18 | `Gateways_proofs`: `MarkIsRecorded`, `SentIsWhole`, `RecordedPartIsKept` | 7 | | done |
| 19 | `DeliveryTurns_proofs`: `SteerIsCausal`, `NoAutomaticRedelivery`, `ImplementsLedger` | 2 | `RequestLedger` | done |
| 20 | `Workspace_proofs`: what the panes read, show, keep and save | 10 | | done |
| 21 | `Console_proofs`: tabs, focus and marks | 9 | | done |
| 22 | `AgentThread_proofs`: the feed, its index, artifacts, approvals and streams | 8 | | done |

Bounds follow one rule: every counter that a behaviour can run up (faults, stops, retries, commands, Turn ids, time)
has a named constant, and `MaxTogether` bounds the sum, so that all *combinations* of a few troubles are explored
rather than many troubles of one kind. Modules that are to be proved about contain no `RECURSIVE` operator; their
operators map a table to a table, so that a lemma can be stated of each.

## 3 Delivery of Agent messages

`AgentMessage` has no variables: it defines the record of one message (`Message`), a Turn as the Hub sees it (`Turn`)
and what each step of the code makes of a record or of the whole table. `AgentDelivery` has the variables and actions.

| Variable | Code |
|---|---|
| `comms`, `commOrder` | `h.comms`, `h.commOrder`; the file and the map, which agree after every critical section |
| `meta` | the Agent's durable record: status, current Turn, last (interrupted) Turn |
| `active`, `turns` | `rt.activeTurn` and the `turnState` objects. A worker's own object lives in the worker's slot, one adopted from a notification in the Agent's slot |
| `workers` | goroutines inside `deliverNextQueuedForTarget`/`sendTask` or `tryDeliverReplyToActiveTurn`; the phase is the place where they released the lock |
| `codex`, `notes`, `carried` | external: the newest Turn of each Thread, notifications not read yet, which message each Turn was started with |
| `stopping`, `draining` | the flags of `h` |
| `spent` | budget of the bounded environment |

| Actions | Code |
|---|---|
| `CreateMessage`, `ReplyMessage`, `CancelMessage`, `ResolveMessage`, `NoReplyMessage`, `RetryMessage` | the commands of `communication.go` |
| `ClaimNext`, `FailQueued`, `SendRefused`, `SendFailed`, `ReserveTurn`, `StartAnswered`, `StartFailed`, `Settle` | one worker: claim, `sendTaskWithContext` up to the reservation, `turn/start`, its tail, the tail of the delivery |
| `OwnerTask` | `SendTask` by the owner: the same path without a message |
| `ClaimSteer`, `SteerAccepted`, `SteerSettled`, `SteerDeferred` | a causal reply steered into the live Turn that asked |
| `CodexAccepts`, `RemoteStart`, `CodexEnds` | Codex |
| `Notify` | `onNotification` for `turn/started` and `turn/completed`: confirm, rebind, adopt, supersede, finish |
| `Interrupt`, `ForceFinish`, `ArchiveAgent` | owner or watchdog interrupt, its three-second fallback, archival |
| `HostExit`, `BeginDrain`, `CancelDrain`, `Shutdown`, `Crash`, `Restart` | loss of the CodexHost, drain, graceful stop, crash; the last two reopen the store (`Open`: queue again what was being delivered, reconcile answered requests, end interrupted Turns) |
| `ContinueInterrupted`, `DismissInterrupted` | the operator's decision about an interrupted Agent |

`RequestLedger` is the promise: a request is open until a reply has *reached* the Agent that asked or one side closes
it; answered is final. `ImplementsLedger` says that the detailed tables, under the mapping at the end of
`AgentDelivery`, behave so.

| Run | Instance | What it shows |
|---|---|---|
| `delivery_workers` | 2 Agents, 2 messages, 2 workers, one command, an active Goal | `DeliveringIsOwned` (no interleaving strands a claimed message), `SteerIsCausal` (a steered reply entered exactly the Turn that sent the request) |
| `delivery_recovery` | 1 worker; a fault, a graceful stop, a retry, any two of them | `AnsweredByReply`, `ImplementsLedger`, `NoAutomaticRedelivery` (only an operator sends again what a Turn has taken) |
| `delivery_live` | 1 worker, one fault, fairness | `QueueDrains` (every queued message leaves the queue), `HandlingEnds` (every handling comes to an outcome: the end of a Turn finds its message whatever came between) |

Why the bounds are enough. Two messages are a request and its reply, or two messages that compete for one recipient;
two workers are what it takes to overtake; two Turn ids give an old and a new Turn on a Thread, so a late notification
of the first can meet the second. A third message or Turn repeats one of these pairs, because every step of the code
looks at one message, the request it replies to, and one Turn. What the runs do not reach: two workers that send one
message again (`delivery_recovery` has one worker; the theorem `NothingResent` has any number), and `QueueDrains` beside
commands, Goals, a stop or a recipient that is archived (`delivery_live` has none of these).

Fairness. The delivery loop's tick and the end of each Turn offer the queue (`Claim`); calls to Codex time out, so a
worker does not stay in a call (`Work`); the reader goroutine reads notifications; the watchdog interrupts a Turn that
does not end (`CodexEnds`, `ForceFinish`); `launchd` or the reloader starts the next process (`Restart`); a drain that
is not followed by a stop is cancelled by the API's deferred call (`CancelDrain`). All weak: the code never relies on a
step that is enabled again and again without staying so. A message to an Agent whose own Goal reserves the Thread is
exempt from `QueueDrains`; the code holds it back for as long as the Goal is active.

Abstractions.

- A delivered reply and its answered request are two appends in one critical section and one step here; the crash
  between them is what `Reconciled` repairs, and a crash before both is `Crash` before the step. An append that fails
  is not modelled in this module: `Settle`, `SteerSettled`, `SteerDeferred` and `FinishTurn` always write
  (`communication.go:666`, `:690`, `:787`, `:803`, `hub.go:1744`, `:1824` log a failure or return it). Where it decides
  what becomes of a record, sections 4 and 5 have it.
- A `turn/start` that is answered without a Turn id (`agent.go:804`) is not modelled.
- No run sends a message to its own author, which the code allows (`communication.go:509`); the theorems cover it.
- A failed Turn is recorded as completed in the rollout, as startup sees it; a rollout that cannot be read is not
  modelled.
- A provider switch and a change of working directory answer 409 like a drain and are not modelled separately. Creation
  and restoration of Agents, membership of archives, the refusal of new messages by the HTTP layer during a restart
  and `forcedFailure` are left out.
- `Continue`'s two critical sections, `validateCommEndpoints` and the creation that follows, and the RPC of an
  interrupt with its effect are merged, each with nothing in between that reads what the first part wrote.
- `HostExit` ends every live Turn of the host at once; the code does it Agent by Agent under one lock.
- `GetAgent`'s look into the rollout can postpone a claim: a stutter.
- Goals are constant (`GoalAgents`).

## 4 Timed work: schedules and triggers

`HubProcess` is the process as timed components see it: a clock that also runs while the process is down, death and
start, and whether the target Agent is registered. `Schedules` and `Triggers` extend it, `Occurrences` composes them.

| Variable | Code |
|---|---|
| `schedules`, `sent` | `h.schedules`; the `scheduledAt` of the messages each schedule has committed, in order |
| `triggers`, `resumed` | `h.triggers`; the event keys of the messages each trigger has committed |
| `observing`, `fact` | `h.triggerObservations` with the read in flight; external: what the provider would answer |

A message is committed first, its schedule or trigger second; the two are separate files. A tick is one critical
section over all due schedules, each of which ends `recorded` (both writes), `unrecorded` (message only) or `unsent`.
A failed save rolls memory back, so the record in memory is the one on disk. `Observe`, `ProviderAnswers` and
`ApplyObservation` are the three parts of an observation; commands, the deadline, a change of the fact and a crash come
in between. `Startup` is `recomputeMissingScheduleRuns` and `reconcileTriggersLocked`.

| Run | What it shows |
|---|---|
| `occurrences` | with a schedule (cron or one-shot) and a trigger, two faults and three commands, four of both: every occurrence becomes a message once and in order (`OccurrencesInOrder`), what a schedule shows as its last run is in the ledger (`RecordedRunWasSent`), nothing stays due for ever (`NoneDueForever`); a trigger has at most one message and exactly one when it says `triggered` (`OneMessagePerTrigger`), an observation under way resumes nobody once the trigger is paused, cancelled or expired (`OnlyWaitingTriggersResume`), and a fact that stays true is noticed (`FactIsNoticed`) |

Bounds: three instants are a time before, at and after an occurrence, and with cron times 2 and 3 there are two
occurrences in a row, so that one may be missed and coalesce into the next. Two event keys tell a second observation
from the first. Two faults give a failed save followed by a crash.

Fairness: the two loops tick, the provider answers or the read times out, a dead process is started again. `NoneDueForever`
and `FactIsNoticed` also rest on the budget: a save does not fail for ever.

Abstractions. A cron expression is the set of times it matches; its parsing, time zones and DST are left out (plan, 17).
Missed times coalesce, as in the code. The connection a trigger reads through, the kinds of GitHub resources and the
transient `LastError` are left out. Archival and restoration of the Agent are the toggle `Register`.

## 5 External work

`ExternalRecords` holds what both halves share: Inbox items, commands (Outbox items and provider operations) and the
Agent's address. `InboxHandling` is the way in, `ConnectorDelivery` the way out, `ExternalWork` composes them with the
crash of the Hub. The reply of an Inbox item has the item's id.

| Variable | Code |
|---|---|
| `inbox` | `h.inbox`; `closed` is the outcome of the last terminal record in the item's file, which the loader believes over later ones |
| `commands` | `h.outbox`, `h.providerOperations`; the lease token is the number of the attempt, `lapsed` says the lease has run out |
| `address` | enabled or not, and its reply policy (explicit, final answer, none) |
| `workers`, `turn` | goroutines in `deliverNextInboxForAgent`; the Agent's active Turn, `other` when it carries no item |
| `unsaved` | items whose attempt came to an end that could not be written: the code logs it and goes on (`inbox.go:402`, `:490`, `:506`, `:525`, `:555`), and the item stays `handling` in memory and on disk with nobody left to end it |
| `stream`, `queue` | the event stream of the Connection and how far its claim has come; events written and not yet read |
| `hand`, `journal`, `platform` | the gateway: the command in hand, what it knows it has sent (in memory, on disk); what the platform has accepted |

| Actions | Code |
|---|---|
| `Ingest`, `ReplyInboxItem`, `ReplyUnsaved`, `NoReplyInboxItem`, `DeferInboxItem`, `RetryInboxItem`, `Activate` | ingestion and the Inbox commands; the `Unsaved` variant has written the reply and not the item |
| `ClaimInbox`, `RefuseInbox`, `SendRefused`, `ReserveTurn`, `StartAnswered`, `StartFailed`, `Repair` | a worker |
| `EndTurn`, `OtherTurn`, `EndOther` | `finishInboxAttemptLocked`, by policy and final answer; Turns of other origin |
| `CreateCommand`, `RetryOutbox`, `Lapse` | commands and their leases |
| `Connect`, `Disconnect`, `CheckInFlight`, `ClaimNextOutbox`, `ClaimNextProviderOperation` | `connectorCommands` and the critical sections of one claim |
| `Receive`, `Post`, `PostFails`, `Journal`, `JournalFails`, `Report`, `ReportUnanswered`, `GatewayDies` | the gateway's command loop and the Hub's side of a report |
| `Crash` | the Hub dies and `loadInboxState` makes the records of the next process |

| Run | Instance | What it shows |
|---|---|---|
| `external_work` | 1 item, 1 operation, 2 workers, two faults, two commands, three of both | `OneCommandInFlight`, `HandledReplyWasSent` (closed as answered only after the platform took the reply), `AwaitingHasReply`, `FinishedByItsAttempt` (what the Hub takes for the end of a command is the end of its last attempt) |
| `external_live` | 1 worker, one fault, one command, fairness | `HandlingEnds` (a claimed item is decided, fails or is queued again, unless the end of its attempt could not be written), `QueueMoves`, `CommandsEnd` |

Bounds: one item with its reply and one operation are two commands that compete for the Connection. Two workers are the
pair that claims around one idle Agent. A lapse and a lost report, or a crash and a failed append, are two faults.
`external_live` has one item and one worker, which meets Turns of other origin. With `Items = {1, 2}`, `Workers = {w1, w2}`,
`Reads = {}`, `MaxCommands = 0`, `MaxTogether = 1` its properties hold too (167,674 states, some minutes).

Fairness: the inbox loop, the end of calls and Turns, the stream's look for work at each event and ping, the gateway's
reconnection, leases that run out. Commands of users, faults and the change of an address are not fair.

Abstractions.

- The attempts of an item are reduced to the policy that its worker and Turn carry. Membership and the expected
  response are folded into `address.policy`, the enabling of Connection and address into `address.enabled`. A drain
  appears only as a busy refusal. One Agent, one Connection.
- An end that cannot be written costs a fault, in each place where the code only logs it (`FinishAttempt`, `Repair`). A
  reply that was made before it stays. Such an item is `handling` until an owner or the Agent decides it, or the Hub
  starts again and makes it `interrupted`; that it does not end by itself is why `HandlingEnds` excepts it.
- An active Goal that reserves the Agent (`inbox.go:257`) is not modelled; another Turn that keeps the Agent busy
  (`OtherTurn`) is.
- A duplicate of an ingested message is a stutter; the append of a message and of its item is one step. The Inbox state
  `cancelled` is never set by the code and is absent.
- An Outbox item is one part of text. Among eligible commands the choice is free; the code takes the oldest.
- The return of lapsed claims and the check for a command in flight are one step (`CheckInFlight`).
- The lease of a command nobody works on runs out freely; that of a slow gateway costs a fault.
- The network loses a suffix of what was written to a stream. The Hub's crash and the start of the next process are one
  step; the gateway lives on.
- The gateways differ (one gives up after a lost report, another reports a failure of what it has sent; Feishu forgets
  its journal after a success): the model lets either happen, and `ProviderDedupes` tells apart the two that matter.

## 6 Gateways

Section 5 has the Hub's half of a delivery; this one has the gateway's. `GatewayRuntime` is the process: its state
object in memory, the state file, the writes that are queued one behind the other (`persistState`), the tasks, a crash
and the next start. `SlackGateway`, `LarkGateway` and `ParallGateway` each have the tasks of one program;
`Gateways` puts one of them, chosen by the initial state, between a platform and a Hub that are modelled from the
calls the gateway makes.

| State | Code |
|---|---|
| `state`, `disk` | the state object and the file: pending events, seen ids, a monitor per message, parts sent, results |
| `source`, `mark`, `posted` | the platform: events it has for the gateway, reactions it shows, parts of replies it took |
| `inbox`, `reply`, `refuses` | the Hub: what became of a message, whether a reply is pending, sent or failed, and which messages it answers with an error each time they come (`integration.go:1521-1552`) |
| `catchUp` | Parall's loop: the listing is due, running with what it has listed, or over and the socket connected |

| Actions | Code |
|---|---|
| `SocketFrame`, `FrameSaved`, `TakePending`, `SlackPost`, `SlackRecorded`, `SlackSettle`, `SlackSettled` | an envelope of Socket Mode: saved, acknowledged, ingested, recorded, put away |
| `SlackMark`, `SlackLift`, `LarkMark`, `LarkLift` | the reaction that shows a message is read, and its monitor |
| `SlackPostPart`, `SlackPartSaved`, `SlackReport`, `LarkPostReply`, `LarkReport`, `ParallPostReply`, `ParallReport` | a reply: parts or the whole, with or without a key, the result to the Hub |
| `DispatchMade`, `ListDispatches`, `CatchUp`, `ConnectWebSocket`, `DispatchFrame`, `SocketCloses` | Parall's loop: the dispatches that wait are listed and handled one after the other, then a socket brings the new ones; an error of the catch-up begins it anew, an error of a frame is only logged |
| `ParallPost`, `ParallRecorded`, `ParallMark`, `ParallAck` | the handling of a dispatch, from the catch-up or from a frame, and its monitor |
| `HubRefuses`, `HubAccepts` | the Hub has no enabled Connection, address or Agent for a message, and has again |
| `BeginWrite`, `Crash`, `Start`, `ReportFailed`, `MarkUnanswered` | the queue of writes, the end of the process and the next one, lost answers |

`gateways` checks an event offered in two envelopes, one that is noise, a reply of two parts, two faults:
`MarkIsRecorded` (a mark on the platform always has a record that a later process will lift it by), `SentIsWhole` (what
the Hub counts as sent is on the platform as a whole), `RecordedPartIsKept` (a part the file knows of is not posted
again, by any later attempt or process; these three are proved for any numbers, section 10), and under fairness
`WaitingIsTakenIn` (an envelope in Slack's file, or a dispatch that Parall's next or present catch-up lists, is taken in
by the Hub unless the Hub refuses it or one that goes before it) and `MarkIsLifted`.

Two envelopes of one message and two handlers are the pair that meets; two parts tell "some" from "all"; two faults
are a crash after a failed write, or two crashes. Fairness: the process manager starts the gateway again, its loops
and writes go on, and Parall's loop lists the dispatches again after a catch-up that failed or a socket that closed. It is
not assumed that a socket ever closes, that a frame comes or succeeds, or that the Hub stops refusing. So nothing is
promised of a dispatch made after the listing whose frame is lost or fails: it waits for the next connection
(`parall.mjs:133`, `:74`). Nor of an event behind one that the Hub refuses: Slack tries the head of its queue again for
ever (`slack.mjs:135-153`), and an error ends Parall's catch-up before the dispatches listed after it (`Blocked`). A
frame that Parall pushes is handled beside the catch-up of a later connection, if it takes that long. Left out: attachments and uploads, heartbeats,
the directory of conversations, and the size limits of the lists of seen ids.

## 7 An Agent's thread in the browser

`ThreadFeed` is the reducer of `feed.ts` as operators: a feed is a sequence of blocks with an index from keys to
places, and each event, history page, artifact list or Agent list makes a new feed of it. `AgentThread` is one tab with
the page's only event stream (`global-events.ts`: it opens, drops, is opened again and brings an Agent list each time)
and the requests the pane sends beside it. The Hub is a script of what happens on the Thread and what the rollout then
holds; a request is answered with what was true at any moment since it was asked.

| Actions | Code |
|---|---|
| `HubStep` | the next event happens |
| `Open`, `Drop`, `Deliver`, `DeliverList` | the stream: `ensureSource`, its errors, `publishThreadEvent`, the Agent list on opening |
| `Mount`, `LoadOlder` | the tab is opened, an older page is asked for |
| `Answer`, `AgentsAnswered`, `Fail` | seed, reconciliation, older page, artifacts, usage; the Agent list; a request that failed |

`agent_thread` checks three Threads (a Turn to its end, one that asks for an approval, one that is interrupted and
followed by another Agent's request), the tab opened at any moment, two requests in flight, one fault: `IndexIsExact` (a
piece of one answer never lands in another, whatever was put in front of it), `ResolvedStaysResolved` (an old Agent
list does not bring a resolved approval back), `ArtifactOnce`, `StreamEndsWithTurn`. `agent_approval` is a violation
(section 11). The text of an item is the number of its pieces; Markdown, images and the rendering of commands are left
out. An artifact has one id: what `feed.ts:889` and `:935` fall back to when the id is missing is left out.
`applyThreadStatus` keeps of the App's copy of the Agent what the tab reads (`App.tsx:243-258` also copies the task and
times).

## 8 The console

`ConsoleTabs` has the operators on "where the owner is": the open tabs, the one in front, the workspace shown, the marks of
results not seen, the address. `Console` moves it: events, Agent lists and answers arrive while the owner opens,
closes and drags tabs, creates and archives Agents, goes to a workspace or loads the page again.

`console` checks two Agents and one that may be created, a page with one of them in a tab, opened at the address of the
other, two events, two acts of the owner, one fault: `CurrentIsOpen` (the living Agent in front has a tab, whatever
answer came last), `TabAppearsInFront` (no tab appears behind the owner's back, by a late answer or by dropping one that
was closed while it was dragged), `MarkStaysUntilSeen`. Left out: themes, the command palette, notifications, the
merging of two copies of one Agent (it is in `AgentThread`).

## 9 The panes

`Pane` is what the panes have in common. `past` keeps all that the Hub's data was, so that an answer is an index into
it; `heard` is how much the event stream has told the page; `calls` are the requests in flight, each answered with any
state since it was asked and in any order; `pane` is what the pane keeps. A change that is announced has its lists asked
for again as react-query does it (`Invalidated`): a call for a list that was read before is dropped and made anew, the
first call for a list is joined, and its answer counts as fresh (`Joined`). Other clients and the Hub's workers change
the data (`HubMoves`), calls fail, the stream is lost and found (`Hear` with a gap is the `loom/reconcile` event).
`Workspace` chooses one pane in the initial state.

| Module | Pane | What is modelled |
|---|---|---|
| `NeedsYou` | `NeedsYouPane.tsx` | requests of Agents for the owner: lists, filter, selection, detail, answer, cancel, retry |
| `Topics` | `TopicsPane.tsx` | Topics: filters, selection and its detail, being read, dialogs, creation, evidence, input |
| `Lists` | `InboxPane.tsx`, `MessagesPane.tsx`, `SchedulesPane.tsx` | panes that read their lists as a whole: refreshes that overtake each other, commands on an entry |
| `HostFiles` | `HostFilesPane.tsx`, `host-files.ts` | the path, the address of the page, folders, previews, late answers of each |
| `FeedScroll` | `AgentPane.tsx` | where the reader of a feed is: rows come and are measured, timers pin, restore and jump |
| `Composer` | `AgentPane.tsx` | tasks with files, answers, goals, interrupts, held and interrupted work |
| `ConversationRoles` | `IntegrationsPane.tsx` | roles in conversations, contacts and candidates: forms with versions, policy, test message |
| `Inspector` | `AgentPane.tsx` | profile, configuration, roles, triggers and usage of one Agent; what each section reads and saves |
| `External` | `IntegrationsPane.tsx` | connections, discovery of a platform, the setup and binding forms |

`workspace` checks them all in one run:

| Property | What it says |
|---|---|
| `SettledIsRead` | when nothing is on its way, every list was read since the last change it is about: a change announced while a request is in flight is not missed, unless that request is the first for its list |
| `ShownIsAskedFor` | the folder and the text shown are those of the path and the file selected now |
| `HeardReaderStays` | a reader who went up stays where he is, whichever rows come and timers fire |
| `DraftIsKept` | what the owner wrote is in the composer or on its way until the Hub took it or he put it aside |
| `TypedIsKept` | what is typed into the form of a role stays while the form is open |
| `NoLostUpdate` | what is saved in the inspector was written with the last version in view |
| `BusyIsAsked` | nothing in the inspector or the external pane is shown as being read, saved or set up once no answer is to come |

`roles_overwritten` is a violation (section 11).

Bounds. Two things are the one selected and another; `MaxChanges`, `MaxActs` and `MaxUnanswered` give each pane the
changes of the Hub, the acts of the owner, and how many calls may still be unanswered when he acts (inspector and
External: one, so that two are in flight at once; more repeats a pair). Four acts are needed where a story has as many
steps (open, type, send, type on); two where a pane is a list with commands. One call fails or one connection is lost.
No fairness is assumed: none of the properties is about what must happen.

A change announced while a list is read for the very first time is missed until the next event about the list or the next
poll (30 s for requests and Topics, `App.tsx:546-555`), since the first call is joined. `SettledIsRead` says so by its
exception, which ends with the first event that is heard after that call was answered.

Abstractions. Texts are "typed", "edited" or a version; two edits of one form are one. The polls that only repeat a
request (30 s of requests and Topics while composing, 10 s and 5–15 s of the inspector's sections) are left out, and so
are the contents of those sections. The loop that waits for a test message is one outcome. Saving a role always changes
something, and an edited configuration renames the Agent. In `External` Slack is as Lark; of Parall, an identity that
exists already and the automation object are left out. The composer opens with its lists read, the page having read them
for its badges. In `FeedScroll` a row only grows when it is measured, and its shrinking is left out.

## 10 What is proved

| Theorem | Module | Statement |
|---|---|---|
| `TypeCorrect` | `AgentDelivery_proofs` | `Spec => []TypeOK` |
| `ClaimsAreHeld` | `AgentDelivery_proofs` | `Spec => []DeliveringIsOwned` |
| `AnswersArrived` | `AgentDelivery_proofs` | `Spec => []AnsweredByReply` |
| `TurnOrderInvariant` | `DeliveryTurns_proofs` | `Spec => []OrderedState` |
| `SteersAreCausal` | `DeliveryTurns_proofs` | `Spec => []SteerIsCausal` |
| `NothingResent` | `DeliveryTurns_proofs` | `Spec => NoAutomaticRedelivery` |
| `LedgerImplemented` | `DeliveryTurns_proofs` | `Spec => ImplementsLedger` |
| `TypesKept` | `Occurrences_proofs` | `Spec => []TypeOK` |
| `OccurrencesOrdered` | `Occurrences_proofs` | `Spec => []OccurrencesInOrder` |
| `RunsWereSent` | `Occurrences_proofs` | `Spec => []RecordedRunWasSent` |
| `TriggersResumeOnce` | `Occurrences_proofs` | `Spec => []OneMessagePerTrigger` |
| `WaitingTriggersResume` | `Occurrences_proofs` | `Spec => OnlyWaitingTriggersResume` |
| `TypesKept` | `ExternalWork_proofs` | `Spec => []TypeOK` |
| `OneInFlight` | `ExternalWork_proofs` | `Spec => []OneCommandInFlight` |
| `ResultsEndTheirAttempt` | `ExternalWork_proofs` | `Spec => []FinishedByItsAttempt` |
| `HandledAfterSending` | `ExternalWork_proofs` | `Spec => []HandledReplyWasSent` |
| `AwaitingItemsHaveReplies` | `ExternalWork_proofs` | `Spec => []AwaitingHasReply` |
| `IndexStaysExact` | `AgentThread_proofs` | `Spec => []IndexIsExact` |
| `ArtifactsShownOnce` | `AgentThread_proofs` | `Spec => []ArtifactOnce` |
| `ResolvedForGood` | `AgentThread_proofs` | `Spec => []ResolvedStaysResolved` |
| `StreamsEnd` | `AgentThread_proofs` | `Spec => []StreamEndsWithTurn` |
| `TypesKept` | `Gateways_proofs` | `Spec => []TypeOK` |
| `MarksAreRecorded` | `Gateways_proofs` | `Spec => []MarkIsRecorded` |
| `SentRepliesAreWhole` | `Gateways_proofs` | `Spec => []SentIsWhole` |
| `RecordedPartsAreKept` | `Gateways_proofs` | `Spec => RecordedPartIsKept` |
| `ListsAreRead` | `Workspace_proofs` | `Spec => []SettledIsRead` |
| `NothingWrittenOver` | `Workspace_proofs` | `Spec => []NoLostUpdate` |
| `BusyIsAnswered` | `Workspace_proofs` | `Spec => []BusyIsAsked` |
| `DraftStays` | `Workspace_proofs` | `Spec => []DraftIsKept` |
| `OnlyTheSelectedIsShown` | `Workspace_proofs` | `Spec => []ShownIsAskedFor` |
| `TypedStays` | `Workspace_proofs` | `Spec => TypedIsKept` |
| `ReaderStays` | `Workspace_proofs` | `Spec => HeardReaderStays` |
| `CurrentStaysOpen` | `Console_proofs` | `Spec => []CurrentIsOpen` |
| `TabsAppearInFront` | `Console_proofs` | `Spec => TabAppearsInFront` |
| `MarksStayUntilSeen` | `Console_proofs` | `Spec => MarkStaysUntilSeen` |

Every safety property that a passing run checks is stated by one of them. The four type theorems are what their modules'
other theorems stand on; no run checks a type invariant by itself. The theorems hold for
every value of the constants that meets the named assumptions, all of which TLC evaluates:
`MessageAssumption` and `DeliveryAssumption` (bounds are naturals, `None` is neither a message nor an Agent nor a
worker, the Scheduler is no Agent, workers are not Agents), `BudgetAssumption`, `ProcessAssumption` (there is a first
instant), `ScheduleAssumption` (a cron expression matches at instants of the clock), `TriggerAssumption`, `ItemsAssumption` (items
are positive, since zero stands for none), `ProviderAssumption`, `GatewayAssumption` (an event is about a message,
a reply has a part, there is a handler), `PaneBounds` (bounds are naturals) and `PaneNames` (a message, a role or a
schedule is none of the words the panes use for themselves: "profile" is no role), `ConsoleBounds` (no Agent is called
`None`) and `SessionsAssumption` (what the browser remembers was written by the page that was open before, so an Agent
it has in front has a tab: this is what `ConsoleInv` keeps through a page load), `ViewAssumption` (the rows seen at once
are counted), `ThreadBounds` (bounds are naturals, a page has a Turn), `HistoryAssumption` (a Turn in the rollout is a
sequence of items of the kinds `buildHistoryBlocks` knows, with their times) and `ScriptAssumption`. That one says of a
Thread what the Hub and Codex see to: its events are counted from one (`emitLocked`, `hub.go:915`), and no approval is
asked for under an id that was already resolved. The ids are those of Codex's requests (`hub.go:1546`), unique within
one Codex process; a new CodexHost counts them anew, so a Thread of the model is what happens within one.

### Delivery

Types go bottom up: the first part of `AgentDelivery_proofs` shows of each operator of `AgentMessage` that it maps a
table to a table, the second has one lemma per group of actions, and each lemma one step per conjunct the action
disturbs.

Neither safety property is inductive. `DeliveringIsOwned` says that *some* worker holds a claimed message; to keep it
one has to know what a worker that lets go has done to the message. `AnsweredByReply` says that an answered request
has a reply that arrived; to keep it no step may make an arrived reply one that did not. The danger is a reply that a
worker still holds although its Turn has begun: the worker's tail writes `queued` or `failed` over whatever the record
has become. The inductive invariant `Sound` of table and workers therefore has five parts:

- `Owned`: a claimed message is held by a worker.
- `ClosedReplies`: a reply asks for nothing, so no command closes, reopens or requeues it.
- `HeldReplies`: a held reply has one holder, is not offered to another meanwhile, and if it is no longer claimed then
  its delivery failed or a Turn has taken it and left an attempt behind. The attempt is what makes it *reached* whatever
  the tail writes into `delivery`.
- `Unused`: an id not used yet answers nothing and nobody holds it.
- `AnswerArrived`: the property itself.

Starts, renamings and ends of Turns, a CodexHost exit and startup change many records at once. The lemmas on the table
put what they have in common into one relation, `Progress`, which is reflexive and transitive, so that a step made of
several operators is a chain of progress; `ProgressSound` then carries `Sound` over the whole chain.

`DeliveryTurns_proofs` adds the Turns. `OrderedState` is types, `Sound` and `TurnOrder`, which has three parts:

- `TurnsInv` says where a Turn is. A Turn *stands* while it is not finished and its Agent is registered; a Turn that
  stands is the current one of its Agent (`Placed`), it and the workers carry messages of that Agent (`Carrying`), and a
  worker whose send began no Turn has none (`Serving`).
- `OrderInv` says who may still write to a message. Before the first Retry or Continue a message has one holder, and
  the Turn that carries it is the one its record names (`Once`). After it two workers may hold the message, but only one
  of them with a send that may yet be refused, and no Turn has the message meanwhile (`Calm`).
- `SteerInv` follows a reply that is steered: the worker aims at the Turn its request names, and once the record says
  `turn_steer` nobody holds the reply, so no late tail changes the Turn it names.

`NoAutomaticRedelivery` follows from `Calm`: a refusal that is written late is written over a message no Turn has. `Calm`
is not kept for a message that was sent again twice, so the property has that exception, and the exception is real:
section 11 has the behaviour. In the bounds of `delivery_recovery`, one retry, the exception never applies.

For `ImplementsLedger` each step is shown to be one that the Agents could have heard of: `Heard` relates two tables in
which no reply loses its arrival and no request changes but from open to closed, with a reply that arrived. Beside
`OrderedState` the refinement needs `ArrivedAnswers`: a reply that arrived has closed its request. The ledger answers
whatever request is open when a reply to it arrives, so none may be left open by one that arrived before.

### Timed work

The times a schedule has sent say nothing of the time it will send next. `Orderly` ties the queue to the record and the
clock: what was sent by plan has passed; a one-shot schedule has sent nothing but its own time; a recurring one nothing
beyond its next run. A due run that is not found in the queue is then later than all that is, and the next run, searched
strictly after now (`NextCronIsLater`), is later still; a manual run that moves the schedule on keeps this because what
was sent has passed. `TickOfOne` shows it of one due schedule for each thing that may be saved of it, and
`CollectKeeps` of the whole tick. For triggers the invariant is the property with the types: one message, written by
`ApplyObservation` only, and a trigger that startup finds waiting with its message becomes `triggered`. No other step
resumes (`ResumedByApplying`), and that one reads the trigger again under the lock (`AppliedToWaiting`), which gives
`OnlyWaitingTriggersResume`.

### External work

`WorkInv` has three parts beside the types, each needed by the next.

- `AttemptInv` follows the attempts of a command. A token that was handed out is in one place at most, the stream or
  the gateway's hand (`AttemptsDistinct`), and none is newer than its command's (`AttemptsOK`). So when a result is
  accepted because its token is the current one, no other copy of that attempt is under way: this is what
  `FinishedByItsAttempt` needs. `SingleFlight` adds to `OneCommandInFlight` that no command is in flight while the
  stream is between its check and its claim. The check and the claim are separate critical sections: what runs between
  them may requeue or end a command but never claims one, because a Connection has one stream.
- `TakenInv` follows what counts as sent from the platform to the gateway, its journal (in memory and on disk) and the
  Hub, so that an attempt answered from the journal has been on the platform.
- `ItemInv` ties an item to its reply. `HandledReplyWasSent` alone is not inductive: an item that was closed as
  answered in its *file* comes back as handled after a crash whatever was written behind, so the invariant speaks of
  `closed` too.

Most steps do not touch an attempt. `Moves` and `Quiet` say so of a change of commands, `QueueLess` and `HandOn` of
stream and gateway, `ItemsAdvance` of the items; `AttemptsGoOn`, `StillFinished` and `ItemsKept` carry the invariant
over any such step, and only a claim, a receipt and a result are argued on their own.

### Gateways

The state file is written by a queue, and a write holds what memory holds when it *begins*, not when it was asked for.
So neither property can be told from memory and file alone.

- `RecordInv` follows the records of messages. A message that is shown, or whose monitor is about to show it, has its
  record in memory, in the image of a write under way and on disk (`MarkHeld`). A monitor starts when the write its
  handler asked for has ended, by which time another monitor of the same message (the second envelope of a mention, the
  other handler of a dispatch) may have forgotten the record. `Waiting` says why that is harmless: a record that waits
  for its write is in memory, or there is a monitor, and the write that forgets the record stands behind
  (`ClearFollows`), so a handler that finds no monitor has its record in the image too (`Imaged`). `Owned` and `Once` say
  who waits for each write of the queue, and that nobody waits for two.
- `PartInv` orders what file, image and memory know of a reply's parts (`Behind`), and says that all of it is posted
  (`Whole`). The next part is chosen from memory, hence beyond all that the file has.

Most steps of the three gateways are one of ten: `QuietStep`, `OtherWritten`, `MonitorAsks`, `MonitorAnswered`,
`RecordAsked`, `RecordWritten`, `RecordImaged`, `RecordsSurvive` for the records, `PartsStay` and `PartIsPosted` for the
replies; each action is then shown to be an instance.

### Panes

`WorkspaceInv` gives each kind of pane its own invariant; a step of one pane keeps the kind, so that the others say
nothing of it.

- `ReadsInv`, for every pane that shows lists: whatever change the page has heard of and a list is
  about was *reached*: the list was read since, or the last call for it failed since, or a call that was made since is on
  its way. The property is the case in which no call is on its way. A call that is already under way when a change is
  announced does not reach it; the proof has to show that each pane then asks again or marks the call as outdated, and
  that an answer that is dropped leaves another call behind. Only a change that was announced while the first call of a
  list was under way need not be reached (`joined`). Answers of the Hub carry the place in its history they were read at,
  which is never before the place the call was made at. `ReadsAnswered`, `ReadsOn`, `ReadsQuiet` and `ReadsAgain`
  cover the four things a step can do: take an answer, hear, do nothing to the lists, ask.
- `InspectorInv` and `NoLostUpdate`: a save in flight carries the version its author had, and the Hub writes only over
  that version (`InspectorData`); what shows as busy has a call that will end it (`InspectorBusy`). That part is relative
  to the open section, since leaving a section drops its calls and what they would have ended.
- `ComposerInv`: of what is owed to the Hub, either the text field or the one send on its way has the text
  (`OneOnItsWay`, `Kept`). `RolesInv`: the form of a role is written only by what its owner does, or while it is closed.
- `FilesInv`: what is asked for is what is selected (`AskedOf`), for the folder and for the preview; an answer for
  anything else finds no call and is not shown (`ShownOf`). `ExternalInv`: what the external pane shows as loading or
  working has its call under way.
- `ScrollInv`: while the reader is up, the page is `Away` from the bottom: neither where it is nor any place it may be
  brought back to (what it saw last, the anchor, the place kept under older rows) is the bottom, and no timer that goes
  there is set. The anchor needs an exception: it may be one of old, taken at what is still the bottom, but then the timer
  that replaces it is set and nothing that uses it is. New rows end the exception, since they lower the bottom. All of the
  page's own steps are `Scrolls`, which is transitive, so each is shown by what it calls.

### Console

The tabs are a sequence that is filtered, reordered and inserted into. `Among`, which filters, is a recursive function;
that it has a value and keeps exactly what it should is shown for the *least* length at which it would not (`Least`, from
the well-foundedness of the naturals): the library's induction theorems take an operator, this form takes none. With it
each operation of `ConsoleTabs` gets a lemma on which tabs it leaves (`OpenTabs`, `ReorderedTabs`, `MovedTabs`, ...).

`Follows` says what every step but a page load makes of tabs, focus and marks, and all three theorems are read off it:
a new tab is in front, a mark that went was seen or its tab closed, and an Agent in front keeps its tab *unless it is
gone*. The exception is needed: the answer to an archive closes the tab with the focus of the moment it was asked for,
so the owner may be left in front of a tab that is no more. It does no harm because who is gone was archived, is in the
Hub's log for good (`Gone`), and an answer to an archive is only on its way for such an Agent. That is the invariant,
`ConsoleInv`.

### An Agent's thread

The feed is built of what TLA+ has no induction for here: a history is flattened, artifacts are sorted in among the
trajectory, and events change a block found through an index of places. Each recursive function is shown to have a value
by `Recursion`, and what it computes by `Induct`; both are lemmas on sets of numbers that rest on `Least` alone, as in
the console.

- *Order.* `InOrder` lists the members of a set of places once each (`InOrderFacts`), putting an artifact in keeps what is
  listed once listed once (`PutInOnce`), and so `interleaveArtifacts` is an order of all the trajectory in which no block
  is twice (`InterleaveCovers`). Nothing is said of where an artifact comes to stand; that is not needed.
- *The feed.* `FeedOK` says that an artifact is shown once (`OnceShown`) and that every key finds its block, which is of
  the trajectory (`Finds`). The last part is what carries the index through a reordering: all of the trajectory is in the
  order, and once, so the place of a keyed block in it is defined and is that of the block (`Reordered`). It holds of a
  history that is put before the blocks because `Finds` counts from the first of the old ones.
- *Closed.* No answer is open. History never leaves one open (`HistoryIs`), the end of a Turn closes all
  (`TurnEndedCloses`), and everything that is no event keeps a closed feed closed (`Filled`), so that what arrives
  between the end of a Turn and the next event reopens nothing.
- *Approvals.* Whatever the pane saw resolved was resolved by an event that is not after `approvalsSeq` (`ApprovalsOK`).
  A list that is taken over was read at or after that (`Snapped`), and the approvals that wait then are without it; an
  event that asks again under the same id would come before the one that resolved it, by `ScriptAssumption`.

`ThreadInv` joins these with what the stream has delivered, that a tab not yet opened has an empty feed and no request
of its own (`BeforeMount`: an answer can only reach an open tab), and that before the stream was first opened nothing is
being written. `EventReduces` says of any event what it makes of a feed, `FilledHolds` of any answer.

### Not proved

Only model-checked: the liveness properties of the runs `delivery_live`, `occurrences`, `external_live` and `gateways`,
since fairness and `ENABLED` are out of the prover's reach. The two properties of the violation runs do not hold.

## 11 Where the code disagrees with its documents

Two runs expect a violation; `PROJECT.json` quotes the text each of them contradicts.

| Run | What happens |
|---|---|
| `agent_approval` | a tab opened while an approval waits takes the approvals from a copy of the Agent that approval events do not change, and shows none |
| `roles_overwritten` | the form of a role keeps the text of the version it was opened with and is saved with the version heard of by then: another client's change is overwritten, although the version is there to prevent it |

Others are stated by a formula of the models that no run checks, since it does not hold. Each is violated under the
configuration named here with the formula in place of its properties:

| Formula | Configuration | What happens |
|---|---|---|
| `CancelledStaysOut` (`AgentDelivery`) | `Delivery_workers.cfg`, one worker, all bounds 0 | a message cancelled while a worker delivers it is written over by the worker's tail and delivered after all (`loom-cli.md:861` says it stops) |
| `NoReplyExcludesReply` (`AgentDelivery`) | the same | a request can be closed as no-reply after its reply was written and before it was delivered (`communication.go:264`) |
| `CompletedByCarrier` (`AgentDelivery`) | the same, `MaxFaults = 1`, `MaxTogether = 1` | after a `turn/start` that timed out although Codex accepted it, the next message is completed by the Turn of the previous one (`loom-cli.md:819`) |
| `DueIsNotSkipped` (`Schedules`) | `Occurrences.cfg`, no faults, two commands | a manual run of a recurring schedule moves it past an occurrence that was due |
| `TerminalStays` (`Triggers`) | `Occurrences.cfg`, no faults, three commands | a late resume turns a triggered or cancelled trigger into an expired one |
| `OneReplyPerItem` (`ExternalWork`) | `External_work.cfg`, `ProviderDedupes = FALSE` | an answer of Slack that is lost puts the same reply on the channel twice (`agent-platform-integration.md:265`) |
| `AckedIsWritten` (`Gateways`) | `Gateways.cfg` | an envelope that Slack offers again while it is being written is acknowledged before it is on disk (`agent-platform-integration.md:214`) |

Others were met while modelling, are behaviours of the models, and are stated by no formula:

- A failed or interrupted Turn leaves its message `delivered` (as `hub.go:1731` intends; `loom-cli.md:821` reads
  otherwise). A message queued while the process stops fails instead of waiting (`handbook.md:671`).
- A worker that claimed a message between two retries may be refused late, and its tail then queues the message over the
  record of the Turn that has it (`communication.go:657`), so that it is sent once more; `loom-cli.md:891` allows automatic
  retries only before Codex accepts the Turn. One message, three workers, two retries and no fault show it, if
  `NoAutomaticRedelivery` is stated without its exception.
- Archiving an Agent with a live Turn leaves the handling of its message `running`. With two workers and a retry, the worker that still holds the outcome of the old Turn can write it
  to the new delivery; `delivery_live` has one worker.
- `StartFailed` finishes whatever Turn the Agent has at that moment.
- A one-shot schedule that was run by hand cannot be enabled again although it never fired. `RunSchedule` reports an
  error after a failed save although the message is committed. Renaming the target breaks a schedule, which stores a name.
- A trigger whose save failed can be paused or cancelled while its message exists.
- Two workers claim two items of one idle Agent (`agent-platform-integration.md:131`); the second goes back to the queue.
- After a restart an item in handling is `interrupted` and a command keeps its lease; the same document says `queued`
  and `pending`. A failed provider operation cannot be retried (`integrations.md`, around 293).
- Deferring an item whose reply is on its way clears its outcome, so the sent reply is not reconciled until a restart.
  Retrying a failed reply sets an item that was closed otherwise back to `awaiting_delivery` until a restart. An item
  whose reply failed cannot be closed by no-reply (`integrations.md:199`).

In the gateways and the console:

- An event of Lark whose ingestion fails is only logged (`lark.mjs:93`); Slack's report of a failure may follow a
  message that was sent (`slack.mjs:312`).
- The answer to a change of configuration replaces the page's copy of the Agent whatever was heard meanwhile
  (`App.tsx:1333`), closes the inspector over what is typed in another section, and a provider answer resets the drafts
  before the rest is saved. The answer to a saved profile replaces what was typed during the save.
- An answer being typed becomes a task when its request closes meanwhile (`AgentPane.tsx:515`). A send that fails puts
  back the files it had and drops those added meanwhile (`AgentPane.tsx:931`).
- A list read before an Agent was archived brings it back until the next list (`App.tsx:660`). The answer to an archive
  moves the focus by where the owner was when he asked (`App.tsx:1048`).
- Inbox, Messages, Schedules and Integrations do not put their refreshes in order: an older answer may replace a newer
  one, and deselect a connection just created. The success of a reply clears another reply begun meanwhile; the save of
  one contact closes the form of another.
- A late discovery replaces what an open setup form shows by another account's (`IntegrationsPane.tsx:86`). In "add" mode
  the form then submits a conversation of that account to that account; in "connect" mode a chosen chat of another account is sent, and the Hub
  refuses it after it has connected the account (`lark_onboarding.go:225`).

## 12 What is not modelled

The components marked `not_modelled` or `partly` in `PROJECT.json`, each with its reason. In short: the store (a write
is done or failed as a whole), the Hub's side of human requests, Topics and approvals (the panes see their lists
change), the pause of Goals around a restart, the process management of gateways and of the CodexHost, and the
transactions of the integration registry are planned. Of the console, the organization and usage panes come next;
rendering, themes and charts stay out. Context rendering, artifacts, usage reports, model catalogues and platform clients
are text, data or I/O without interactions of their own.

To run a check: `tlc -workers 2 -config External_work.cfg MCExternalWork`; to check the proofs of a module:
`tlapm AgentDelivery_proofs.tla`.
