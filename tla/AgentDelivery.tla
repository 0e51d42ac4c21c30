---------------------------- MODULE AgentDelivery ----------------------------
(***************************************************************************)
(* Delivery and handling of messages between Agents: the Hub's message     *)
(* commands, the delivery workers that claim one queued message and start  *)
(* or steer a Codex Turn with it, the Turn lifecycle driven by app-server  *)
(* notifications, Agent archival, CodexHost exit, graceful shutdown and    *)
(* process crash with startup recovery.                                    *)
(*                                                                         *)
(* Hub.mu makes each critical section atomic: an action is the code        *)
(* between one Lock and the next Unlock, and a worker's phase is the place *)
(* where it released the lock.  The message table is written to disk       *)
(* before memory, so comms is both.                                        *)
(***************************************************************************)
EXTENDS AgentMessage

CONSTANTS Workers,     \* concurrent sendTask/steer calls
          GoalAgents,  \* Agents whose active Goal reserves the Thread
          Routes,      \* the requests that are sent: [from, to, response]
          MaxFaults,   \* bound on crashes, lost answers, refused sends, ...
          MaxStops,    \* bound on graceful shutdowns
          MaxRetries,  \* bound on Retry and Continue
          MaxCommands, \* bound on Owner tasks, remote Turns, interrupts, ...
          MaxTogether  \* bound on all of these in one behaviour

ASSUME DeliveryAssumption ==
  /\ GoalAgents \subseteq Agents
  /\ Workers \cap Agents = {}
  /\ None \notin Workers \cup Agents
  /\ Routes \subseteq [from: Sender, to: Agents, response: {"required", "none"}]
  /\ {MaxFaults, MaxStops, MaxRetries, MaxCommands, MaxTogether} \subseteq Nat

VARIABLES
  comms,      \* h.comms: the message table
  commOrder,  \* h.commOrder: ids in creation order
  meta,       \* h.agents: the durable Agent registry
  active,     \* rt.activeTurn: the slot of an Agent's current Turn, or None
  turns,      \* the turnState objects; local ones by worker, adopted ones by Agent
  workers,    \* the asynchronous sends in flight
  codex,      \* external: the latest Turn of each Codex Thread (its rollout)
  notes,      \* external: notifications the app-server sent and Loom has not read
  carried,    \* external: the message each Codex Turn id was started with
  stopping,   \* h.stopping
  draining,   \* h.draining
  spent       \* fault and command budget used

vars == <<comms, commOrder, meta, active, turns, workers, codex, notes, carried,
          stopping, draining, spent>>

Slots == Workers \cup Agents
AgentStatus == {"idle", "running", "interrupted", "archived"}
Phases == {"idle", "sending", "starting", "accepted", "lost", "returning",
           "steering", "steered"}
Results == {"none", "ok", "busy", "error"}
Idle == [phase |-> "idle", agent |-> None, msg |-> None, result |-> "none", turn |-> 0]
Agent == [status: AgentStatus, turn: TurnId, last: TurnId]
Worker == [phase: Phases, agent: Agents \cup {None}, msg: Msgs \cup {None},
           result: Results, turn: TurnId]
CodexTurn == [id: TurnId, status: {"none", "running", "orphan"} \cup Outcome]
Event == [kind: {"started"}, id: TurnId, status: {"none"}]
         \cup [kind: {"ended"}, id: TurnId, status: Outcome]

LastId == Len(carried)
Known(m) == comms[m].delivery # "absent"
Live(a) == active[a] # None /\ ~turns[active[a]].finished
TurnOf(a) == turns[active[a]]
SourceTurn(a) == IF a \in Agents /\ Live(a) THEN TurnOf(a).id ELSE 0
Registered(a) == meta[a].status # "archived"

Spend(kind, bound) ==
  /\ spent[kind] < bound
  /\ spent.faults + spent.stops + spent.retries + spent.commands < MaxTogether
  /\ spent' = [spent EXCEPT ![kind] = @ + 1]

Fault   == Spend("faults", MaxFaults)
Stop    == Spend("stops", MaxStops)
Again   == Spend("retries", MaxRetries)
Command == Spend("commands", MaxCommands)

Init ==
  /\ comms = [m \in Msgs |-> NoMessage]
  /\ commOrder = <<>>
  /\ meta = [a \in Agents |-> [status |-> "idle", turn |-> 0, last |-> 0]]
  /\ active = [a \in Agents |-> None]
  /\ turns = [s \in Slots |-> NoTurn]
  /\ workers = [w \in Workers |-> Idle]
  /\ codex = [a \in Agents |-> [id |-> 0, status |-> "none"]]
  /\ notes = [a \in Agents |-> <<>>]
  /\ carried = <<>>
  /\ stopping = FALSE
  /\ draining = FALSE
  /\ spent = [faults |-> 0, stops |-> 0, retries |-> 0, commands |-> 0]

runtime == <<meta, active, turns, workers>>
external == <<codex, notes, carried>>
control == <<stopping, draining>>

----------------------------------------------------------------------------
(* Message commands.  Each one runs in a single critical section.            *)

CreateMessage(m, from, to, response) ==
  /\ ~Known(m)
  /\ from \in Agents => Registered(from)
  /\ Registered(to)
  /\ comms' = [comms EXCEPT ![m] = NewRequest(from, to, response, SourceTurn(from))]
  /\ commOrder' = Append(commOrder, m)
  /\ UNCHANGED <<runtime, external, control, spent>>

Repliable(m) ==
  /\ Known(m) /\ comms[m].response = "required"
  /\ comms[m].status = "open"
  /\ Registered(comms[m].to)
  /\ comms[m].from \in Agents => Registered(comms[m].from)
  /\ \A r \in Msgs : ~(comms[r].replyTo = m /\ comms[r].from = comms[m].to)

ReplyMessage(r, m) ==
  /\ ~Known(r) /\ Repliable(m)
  /\ LET source == IF comms[m].from = Scheduler THEN 0 ELSE SourceTurn(comms[m].to)
         next   == [comms EXCEPT ![r] = NewReply(m, comms[m], source)]
     IN  comms' = Answered(next, r)
  /\ commOrder' = Append(commOrder, r)
  /\ UNCHANGED <<runtime, external, control, spent>>

CancelMessage(m) ==
  /\ Known(m)
  /\ comms[m].resolution \notin {"cancelled", "reply"} /\ comms[m].status # "answered"
  /\ Unsent(comms[m]) \/ (comms[m].status = "open" /\ comms[m].response = "required")
  /\ comms' = [comms EXCEPT ![m] = Withdrawn(@, "cancelled")]
  /\ UNCHANGED <<commOrder, runtime, external, control, spent>>

(* By the sender: completed elsewhere, or superseded. *)
ResolveMessage(m) ==
  /\ Known(m) /\ comms[m].from \in Agents /\ Registered(comms[m].from)
  /\ comms[m].replyTo = None /\ comms[m].response = "required"
  /\ comms[m].status = "open"
  /\ comms' = [comms EXCEPT ![m] = Withdrawn(@, "superseded")]
  /\ UNCHANGED <<commOrder, runtime, external, control, spent>>

(* By the recipient.  Neither the status nor a reply on its way is looked at. *)
NoReplyMessage(m) ==
  /\ Known(m) /\ comms[m].response = "required" /\ Registered(comms[m].to)
  /\ comms[m].status # "answered"
  /\ comms[m].resolution \notin {"no_reply", "reply"}
  /\ comms' = [comms EXCEPT ![m] = Closed(@, "no_reply")]
  /\ UNCHANGED <<commOrder, runtime, external, control, spent>>

RetryMessage(m) ==
  /\ Known(m) /\ Again
  /\ comms[m].response = "required" /\ comms[m].status = "open" /\ comms[m].replyTo = None
  /\ comms[m].delivery \in {"delivered", "failed"}
  /\ ~(/\ Live(comms[m].to)
       /\ TurnOf(comms[m].to).id = comms[m].turn)
  /\ comms' = [comms EXCEPT ![m] = Requeued(@)]
  /\ UNCHANGED <<commOrder, runtime, external, control>>

----------------------------------------------------------------------------
(* Delivery workers. *)

Start(w, a, m, phase) ==
  workers' = [workers EXCEPT ![w] = [Idle EXCEPT !.phase = phase, !.agent = a, !.msg = m]]

Free(w) == workers[w].phase = "idle" /\ turns[w].finished

Before(m, n) == \E i, j \in DOMAIN commOrder : i < j /\ commOrder[i] = m /\ commOrder[j] = n
First(m, S) == m \in S /\ \A n \in S \ {m} : ~Before(n, m)

(* The reply to a request that the Agent's Turn sent. *)
CausalReply(m, a) ==
  /\ comms[m].replyTo # None
  /\ comms[comms[m].replyTo].from = a
  /\ comms[comms[m].replyTo].source # 0

Queued(a) == {m \in Msgs : comms[m].delivery = "queued" /\ comms[m].to = a}

Startable(a) == {m \in Queued(a) : a \in GoalAgents => CausalReply(m, a)}

(* Mutant: any Turn of the asking Agent takes the reply. *)
SteerableAny(a) ==
  {m \in Queued(a) : comms[m].replyTo # None /\ comms[comms[m].replyTo].from = a /\ Live(a)}

Steerable(a) ==
  {m \in Queued(a) : /\ CausalReply(m, a)
                     /\ Live(a)
                     /\ comms[comms[m].replyTo].source = TurnOf(a).id}

(* deliverNextQueuedForTarget up to sendTask: claim the first message the     *)
(* Agent may start.                                                           *)
ClaimNext(w, a, m) ==
  /\ Free(w) /\ ~Live(a) /\ ~draining
  /\ meta[a].status \notin {"running", "archived"}
  /\ First(m, Startable(a))
  /\ comms' = [comms EXCEPT ![m].delivery = "delivering"]
  /\ Start(w, a, m, "sending")
  /\ UNCHANGED <<commOrder, meta, active, turns, external, control, spent>>

FailQueued(a) ==
  /\ ~Registered(a) /\ Queued(a) # {}
  /\ comms' = [m \in Msgs |-> IF m \in Queued(a) THEN [comms[m] EXCEPT !.delivery = "failed"]
                              ELSE comms[m]]
  /\ UNCHANGED <<commOrder, runtime, external, control, spent>>

(* An Owner task takes the same path without a message. *)
OwnerTask(w, a) ==
  /\ Free(w) /\ Command /\ Registered(a) /\ ~stopping /\ ~draining /\ ~Live(a)
  /\ Start(w, a, None, "sending")
  /\ UNCHANGED <<comms, commOrder, meta, active, turns, external, control>>

Return(w, result) ==
  workers' = [workers EXCEPT ![w].phase = "returning", ![w].result = result,
                             ![w].turn = turns[w].id]

(* sendTask refuses before it reserves the Turn: 503 while stopping, 409      *)
(* while draining or another Turn runs, 404 for a vanished Agent.             *)
SendRefused(w) ==
  /\ workers[w].phase = "sending"
  /\ LET a == workers[w].agent
     IN  \/ /\ stopping \/ ~Registered(a)
            /\ Return(w, "error")
         \/ /\ ~stopping /\ Registered(a) /\ (draining \/ Live(a))
            /\ Return(w, "busy")
  /\ UNCHANGED <<comms, commOrder, meta, active, turns, external, control, spent>>

(* Codex not ready, Thread not resumable, context not injectable. *)
SendFailed(w) ==
  /\ workers[w].phase = "sending" /\ Fault
  /\ Return(w, "error")
  /\ UNCHANGED <<comms, commOrder, meta, active, turns, external, control>>

ReserveTurn(w) ==
  LET a == workers[w].agent
  IN  /\ workers[w].phase = "sending"
      /\ ~stopping /\ ~draining /\ Registered(a) /\ ~Live(a)
      /\ turns' = [turns EXCEPT ![w] = [NoTurn EXCEPT !.agent = a, !.msg = workers[w].msg,
                                                      !.finished = FALSE]]
      /\ active' = [active EXCEPT ![a] = w]
      /\ meta' = [meta EXCEPT ![a] = [status |-> "running", turn |-> 0, last |-> 0]]
      /\ workers' = [workers EXCEPT ![w].phase = "starting"]
      /\ UNCHANGED <<comms, commOrder, external, control, spent>>

(* The tail of sendTask once turn/start was answered. *)
StartAnswered(w) ==
  LET o  == turns[w]
      a  == workers[w].agent
      o1 == [o EXCEPT !.id = IF @ = 0 THEN workers[w].turn ELSE @]
  IN  /\ workers[w].phase = "accepted"
      /\ IF o.finished
         THEN UNCHANGED <<comms, turns, meta>>
         ELSE /\ comms' = Running(comms, o1)
              /\ turns' = [turns EXCEPT ![w] = RunningTurn(comms, o1)]
              /\ meta' = IF Registered(a) /\ o.id = 0 THEN [meta EXCEPT ![a].turn = o1.id] ELSE meta
      /\ workers' = [workers EXCEPT ![w].phase = "returning", ![w].result = "ok",
                       ![w].turn = IF o.finished THEN o.id ELSE o1.id]
      /\ UNCHANGED <<commOrder, active, external, control, spent>>

(* finishTurnLocked: end Agent a's current Turn, here the record o, in table c. *)
Over(s, o) ==
  IF s \in Workers /\ workers[s].phase # "idle" THEN [o EXCEPT !.finished = TRUE] ELSE NoTurn

IdleAgent == [status |-> "idle", turn |-> 0, last |-> 0]

FinishTurn(a, o, status, c) ==
  /\ comms' = Ended(c, o, status)
  /\ turns' = [turns EXCEPT ![active[a]] = Over(active[a], o)]
  /\ active' = [active EXCEPT ![a] = None]
  /\ meta' = [meta EXCEPT ![a] = IdleAgent]

(* turn/start failed, or timed out although Codex started the Turn: whatever  *)
(* Turn the Agent has now is finished.  After a CodexHost exit the worker's   *)
(* runtime has none left.                                                     *)
StartFailed(w) ==
  LET a == workers[w].agent
  IN  /\ \/ workers[w].phase \in {"starting", "accepted"} /\ Fault
         \/ /\ \/ workers[w].phase = "lost"
               \/ /\ workers[w].phase = "starting"
                  /\ codex[a].status = "running" \/ LastId = MaxTurnId
            /\ UNCHANGED spent
      /\ IF workers[w].phase # "lost" /\ Registered(a) /\ Live(a)
         THEN FinishTurn(a, TurnOf(a), "failed", comms)
         ELSE UNCHANGED <<comms, turns, active, meta>>
      /\ workers' = [workers EXCEPT ![w].phase = "returning", ![w].result = "error"]
      /\ UNCHANGED <<commOrder, external, control>>

(* Mutant: a busy recipient leaves the message claimed. *)
SettledClaimed(msg, result, turn) ==
  IF result = "error" THEN [msg EXCEPT !.delivery = "failed"]
  ELSE IF result = "busy" \/ msg.delivery # "delivering" THEN msg
  ELSE Delivered(msg, "turn_start", turn)

(* The tail of deliverNextQueuedForTarget.  It looks at the current record    *)
(* only when the send succeeded.                                              *)
Settled(msg, result, turn) ==
  CASE result = "busy"  -> [msg EXCEPT !.delivery = "queued"]
    [] result = "error" -> [msg EXCEPT !.delivery = "failed"]
    [] OTHER -> IF msg.delivery \in {"queued", "failed", "delivered"} THEN msg
                ELSE Delivered(msg, "turn_start", turn)

Settle(w) ==
  LET m == workers[w].msg
      c == [comms EXCEPT ![m] = Settled(@, workers[w].result, workers[w].turn)]
  IN  /\ workers[w].phase = "returning"
      /\ comms' = IF m = None THEN comms
                  ELSE IF c[m] = comms[m] THEN comms ELSE Answered(c, m)
      /\ workers' = [workers EXCEPT ![w] = Idle]
      /\ turns' = [turns EXCEPT ![w] = IF active[workers[w].agent] = w THEN @ ELSE NoTurn]
      /\ UNCHANGED <<commOrder, meta, active, external, control, spent>>

(* tryDeliverReplyToActiveTurn: a causal reply enters the very Turn that      *)
(* sent its request; a refused or unanswered steer queues it again.           *)
ClaimSteer(w, a, m) ==
  /\ Free(w) /\ Live(a) /\ TurnOf(a).id # 0
  /\ First(m, Steerable(a))
  /\ comms' = [comms EXCEPT ![m].delivery = "delivering"]
  /\ workers' = [workers EXCEPT ![w] = [Idle EXCEPT !.phase = "steering", !.agent = a,
                                                    !.msg = m, !.turn = TurnOf(a).id]]
  /\ UNCHANGED <<commOrder, meta, active, turns, external, control, spent>>

Running_(a, id) == codex[a] = [id |-> id, status |-> "running"]

SteerAccepted(w) ==
  /\ workers[w].phase = "steering"
  /\ Running_(workers[w].agent, workers[w].turn)
  /\ workers' = [workers EXCEPT ![w].phase = "steered"]
  /\ UNCHANGED <<comms, commOrder, meta, active, turns, external, control, spent>>

SteerSettled(w) ==
  LET m == workers[w].msg
  IN  /\ workers[w].phase = "steered"
      /\ comms' = Answered([comms EXCEPT ![m] = Delivered(@, "turn_steer", workers[w].turn)], m)
      /\ workers' = [workers EXCEPT ![w] = Idle]
      /\ UNCHANGED <<commOrder, meta, active, turns, external, control, spent>>

SteerDeferred(w) ==
  /\ \/ workers[w].phase \in {"steering", "steered"} /\ Fault
     \/ /\ workers[w].phase = "steering"
        /\ ~Running_(workers[w].agent, workers[w].turn)
        /\ UNCHANGED spent
  /\ comms' = [comms EXCEPT ![workers[w].msg].delivery = "queued"]
  /\ workers' = [workers EXCEPT ![w] = Idle]
  /\ UNCHANGED <<commOrder, meta, active, turns, external, control>>

----------------------------------------------------------------------------
(* External: Codex.  One Turn runs on a Thread at a time.                     *)

Begin(a, m) ==
  /\ codex[a].status # "running" /\ LastId < MaxTurnId
  /\ codex' = [codex EXCEPT ![a] = [id |-> LastId + 1, status |-> "running"]]
  /\ notes' = [notes EXCEPT ![a] = Append(@, [kind |-> "started", id |-> LastId + 1,
                                              status |-> "none"])]
  /\ carried' = Append(carried, m)

CodexAccepts(w) ==
  /\ workers[w].phase = "starting"
  /\ Begin(workers[w].agent, workers[w].msg)
  /\ workers' = [workers EXCEPT ![w].phase = "accepted", ![w].turn = LastId + 1]
  /\ UNCHANGED <<comms, commOrder, meta, active, turns, control, spent>>

(* A Turn started from another client on the same Thread. *)
RemoteStart(a) ==
  /\ Registered(a) /\ Command
  /\ Begin(a, None)
  /\ UNCHANGED <<comms, commOrder, runtime, control>>

End(a, status) ==
  /\ codex[a].status = "running"
  /\ codex' = [codex EXCEPT ![a].status = status]
  /\ notes' = [notes EXCEPT ![a] = Append(@, [kind |-> "ended", id |-> codex[a].id,
                                              status |-> status])]

CodexEnds(a) ==
  /\ \E status \in {"completed", "failed"} : End(a, status)
  /\ UNCHANGED <<comms, commOrder, runtime, carried, control, spent>>

----------------------------------------------------------------------------
(* onNotification. *)

Adopted(a, id) ==
  [NoTurn EXCEPT !.agent = a, !.id = id, !.confirmed = TRUE, !.finished = FALSE]

RunningAgent(id) == [status |-> "running", turn |-> id, last |-> 0]

Rebind(a, o, id, interrupting) ==
  /\ comms' = Rebound(comms, o, id)
  /\ turns' = [turns EXCEPT ![active[a]] =
                 [ReboundTurn(comms, o, id) EXCEPT !.confirmed = TRUE,
                                                   !.interrupting = interrupting]]
  /\ meta' = [meta EXCEPT ![a] = RunningAgent(id)]
  /\ UNCHANGED active

(* The current Turn, if any, was superseded by id. *)
Succeed(a, id, interrupting) ==
  /\ comms' = IF Live(a) THEN Ended(comms, TurnOf(a), "interrupted") ELSE comms
  /\ turns' = [s \in Slots |->
                 IF s = a THEN [Adopted(a, id) EXCEPT !.interrupting = interrupting]
                 ELSE IF s = active[a] /\ Live(a) THEN Over(s, TurnOf(a))
                 ELSE turns[s]]
  /\ active' = [active EXCEPT ![a] = a]
  /\ meta' = [meta EXCEPT ![a] = RunningAgent(id)]

TurnStarted(a, id) ==
  IF ~Live(a) THEN Succeed(a, id, FALSE)
  ELSE IF TurnOf(a).id = id
  THEN /\ turns' = [turns EXCEPT ![active[a]].confirmed = TRUE]
       /\ UNCHANGED <<comms, active, meta>>
  ELSE IF TurnOf(a).id = 0 \/ ~TurnOf(a).confirmed
  THEN Rebind(a, TurnOf(a), id, TurnOf(a).interrupting)
  ELSE Succeed(a, id, FALSE)

TurnEnded(a, id, status) ==
  LET o == TurnOf(a)
  IN  IF ~Live(a) \/ (o.id # 0 /\ o.id # id)
      THEN UNCHANGED <<comms, turns, active, meta>>
      ELSE IF o.id = 0
      THEN FinishTurn(a, ReboundTurn(comms, o, id), status, Rebound(comms, o, id))
      ELSE FinishTurn(a, o, status, comms)

Notify(a) ==
  /\ notes[a] # <<>>
  /\ LET e == Head(notes[a])
     IN  IF ~Registered(a) THEN UNCHANGED <<comms, turns, active, meta>>
         ELSE IF e.kind = "started" THEN TurnStarted(a, e.id)
         ELSE TurnEnded(a, e.id, e.status)
  /\ notes' = [notes EXCEPT ![a] = Tail(@)]
  /\ UNCHANGED <<commOrder, workers, codex, carried, control, spent>>

(* Interrupt, by an operator or the watchdog.  When Codex names another       *)
(* running Turn, Loom follows it; without a Turn, a stale "running" is        *)
(* repaired.                                                                  *)
Interrupt(a) ==
  LET o == TurnOf(a)
  IN  /\ Command
      /\ IF ~Live(a)
         THEN /\ meta[a].status = "running"
              /\ meta' = [meta EXCEPT ![a] = IdleAgent]
              /\ UNCHANGED <<comms, active, turns, codex, notes>>
         ELSE /\ o.id # 0
              /\ End(a, "interrupted")
              /\ IF o.id = codex[a].id
                 THEN /\ turns' = [turns EXCEPT ![active[a]].interrupting = TRUE]
                      /\ UNCHANGED <<comms, active, meta>>
                 ELSE IF ~o.confirmed THEN Rebind(a, o, codex[a].id, TRUE)
                 ELSE Succeed(a, codex[a].id, TRUE)
      /\ UNCHANGED <<commOrder, workers, carried, control>>

(* Three seconds later, if the terminal notification did not come. *)
ForceFinish(a) ==
  /\ Live(a) /\ TurnOf(a).interrupting
  /\ FinishTurn(a, TurnOf(a), "interrupted", comms)
  /\ UNCHANGED <<commOrder, workers, external, control, spent>>

----------------------------------------------------------------------------
(* Archival, CodexHost exit, shutdown, crash and startup. *)

(* The Interrupt that precedes it is the action above; its failure is ignored. *)
ArchiveAgent(a) ==
  /\ Registered(a) /\ Command
  /\ meta' = [meta EXCEPT ![a] = [IdleAgent EXCEPT !.status = "archived"]]
  /\ active' = [active EXCEPT ![a] = None]
  /\ turns' = [s \in Slots |-> IF /\ s = active[a]
                                  /\ s \in Workers => workers[s].phase = "idle"
                               THEN NoTurn ELSE turns[s]]
  /\ UNCHANGED <<comms, commOrder, workers, external, control>>

Orphaned == [a \in Agents |-> IF codex[a].status = "running"
                              THEN [codex[a] EXCEPT !.status = "orphan"] ELSE codex[a]]

HostExit ==
  /\ Fault
  /\ comms' = [m \in Msgs |->
                 LET a == comms[m].to
                 IN  IF a \in Agents /\ Live(a) /\ TurnOf(a).msg = m
                     THEN Ended(comms, TurnOf(a), "interrupted")[m] ELSE comms[m]]
  /\ turns' = [s \in Slots |-> IF \E a \in Agents : Live(a) /\ active[a] = s
                               THEN Over(s, turns[s]) ELSE turns[s]]
  /\ meta' = [a \in Agents |-> IF Live(a) THEN IdleAgent ELSE meta[a]]
  /\ active' = [a \in Agents |-> None]
  /\ \E S \in SUBSET {w \in Workers : workers[w].phase \in {"sending", "accepted"}} :
       workers' = [w \in Workers |->
         CASE w \in S /\ workers[w].phase = "sending" ->
                [workers[w] EXCEPT !.phase = "returning", !.result = "busy"]
           [] \/ w \in S /\ workers[w].phase = "accepted"
              \/ workers[w].phase = "starting" -> [workers[w] EXCEPT !.phase = "lost"]
           [] OTHER -> workers[w]]
  /\ codex' = Orphaned
  /\ notes' = [a \in Agents |-> <<>>]
  /\ UNCHANGED <<commOrder, carried, control>>

BeginDrain == /\ ~draining /\ draining' = TRUE /\ Command
              /\ UNCHANGED <<comms, commOrder, runtime, external, stopping>>
CancelDrain == /\ draining /\ ~stopping /\ draining' = FALSE
               /\ UNCHANGED <<comms, commOrder, runtime, external, stopping, spent>>

(* Shutdown only marks the Turns finished: their messages are left to startup *)
(* recovery.                                                                  *)
Shutdown ==
  /\ ~stopping /\ stopping' = TRUE /\ Stop
  /\ turns' = [s \in Slots |-> IF \E a \in Agents : Live(a) /\ active[a] = s
                               THEN [turns[s] EXCEPT !.finished = TRUE] ELSE turns[s]]
  /\ UNCHANGED <<comms, commOrder, meta, active, workers, external, draining>>

(* reconcileInterruptedTurn: the id the registry holds, or the rollout's. *)
LostTurn(a) == IF meta[a].turn = 0 THEN codex[a].id ELSE meta[a].turn

TerminalFound(a) ==
  /\ codex[a].id # 0 /\ codex[a].id = LostTurn(a)
  /\ codex[a].status \in Outcome

LostStatus(a) == IF TerminalFound(a) /\ codex[a].status # "interrupted"
                 THEN "completed" ELSE "interrupted"

(* Mutant: startup forgets the messages of the lost Turns. *)
RecoveredCommsHeld == Reconciled([m \in Msgs |-> Loaded(comms[m])])

RecoveredComms ==
  LET c == Reconciled([m \in Msgs |-> Loaded(comms[m])])
  IN  [m \in Msgs |->
         LET a == c[m].to
         IN  IF /\ a \in Agents /\ meta[a].status = "running" /\ LostTurn(a) # 0
                /\ c[m].mode = "turn_start" /\ c[m].turn = LostTurn(a)
             THEN Ended(c, [NoTurn EXCEPT !.msg = m, !.id = LostTurn(a)], LostStatus(a))[m]
             ELSE c[m]]

RecoveredAgent(a) ==
  IF meta[a].status # "running" THEN meta[a]
  ELSE IF TerminalFound(a) THEN IdleAgent
  ELSE [status |-> "interrupted", turn |-> 0, last |-> LostTurn(a)]

(* A new process opens the store. *)
Reopen ==
  /\ comms' = RecoveredComms
  /\ meta' = [a \in Agents |-> RecoveredAgent(a)]
  /\ active' = [a \in Agents |-> None]
  /\ turns' = [s \in Slots |-> NoTurn]
  /\ workers' = [w \in Workers |-> Idle]
  /\ codex' = Orphaned
  /\ notes' = [a \in Agents |-> <<>>]
  /\ stopping' = FALSE
  /\ draining' = FALSE
  /\ UNCHANGED <<commOrder, carried>>

Crash == Fault /\ Reopen
Restart == /\ stopping /\ \A w \in Workers : workers[w].phase = "idle"
           /\ Reopen /\ UNCHANGED spent

(* The message whose Turn the restart interrupted: turnReferenceLocked. *)
HeldMessages(a) ==
  {m \in Msgs : /\ comms[m].to = a /\ Known(m)
                /\ \/ comms[m].mode = "turn_start" /\ comms[m].turn = meta[a].last
                   \/ \E k \in DOMAIN comms[m].attempts :
                        comms[m].attempts[k].turn = meta[a].last}

ContinueInterrupted(a, m) ==
  /\ meta[a].status = "interrupted" /\ Again
  /\ First(m, HeldMessages(a))
  /\ comms[m].handling \in {"interrupted", "failed"}
  /\ comms[m].resolution \in {"none", "no_reply"}
  /\ comms' = [comms EXCEPT ![m] = Requeued(@)]
  /\ meta' = [meta EXCEPT ![a] = IdleAgent]
  /\ UNCHANGED <<commOrder, active, turns, workers, external, control>>

DismissInterrupted(a) ==
  /\ meta[a].status = "interrupted"
  /\ meta' = [meta EXCEPT ![a] = IdleAgent]
  /\ UNCHANGED <<comms, commOrder, active, turns, workers, external, control, spent>>

----------------------------------------------------------------------------
Commands ==
  \/ \E m \in Msgs, route \in Routes : CreateMessage(m, route.from, route.to, route.response)
  \/ \E r, m \in Msgs : ReplyMessage(r, m)
  \/ \E m \in Msgs : \/ CancelMessage(m) \/ ResolveMessage(m)
                     \/ NoReplyMessage(m) \/ RetryMessage(m)
  \/ \E w \in Workers, a \in Agents : OwnerTask(w, a)
  \/ \E a \in Agents : Interrupt(a) \/ ArchiveAgent(a) \/ DismissInterrupted(a)
  \/ \E a \in Agents, m \in Msgs : ContinueInterrupted(a, m)
  \/ BeginDrain \/ CancelDrain \/ Shutdown

Delivering ==
  \/ \E w \in Workers, a \in Agents, m \in Msgs : ClaimNext(w, a, m) \/ ClaimSteer(w, a, m)
  \/ \E w \in Workers :
       \/ SendRefused(w) \/ SendFailed(w) \/ ReserveTurn(w)
       \/ StartAnswered(w) \/ StartFailed(w) \/ Settle(w)
       \/ SteerAccepted(w) \/ SteerSettled(w) \/ SteerDeferred(w) \/ CodexAccepts(w)
  \/ \E a \in Agents : FailQueued(a)

Environment ==
  \/ \E a \in Agents : Notify(a) \/ ForceFinish(a) \/ CodexEnds(a) \/ RemoteStart(a)
  \/ HostExit \/ Crash \/ Restart

Next == Commands \/ Delivering \/ Environment

Spec == Init /\ [][Next]_vars

(* The 5 s tick of deliveryLoop and the end of each Turn offer the queue to a  *)
(* worker; a worker's calls to Codex time out; the reader goroutine takes the  *)
(* notifications; every Codex Turn ends, if only by the watchdog's interrupt;  *)
(* launchd or the reloader starts the next process.                            *)
Claim(a) == \E w \in Workers, m \in Msgs : ClaimNext(w, a, m)

Work(w) ==
  \/ SendRefused(w) \/ ReserveTurn(w) \/ CodexAccepts(w)
  \/ StartAnswered(w) \/ StartFailed(w) \/ Settle(w)
  \/ SteerAccepted(w) \/ SteerSettled(w) \/ SteerDeferred(w)

Fairness ==
  /\ \A a \in Agents : /\ WF_vars(Claim(a)) /\ WF_vars(FailQueued(a))
                       /\ WF_vars(Notify(a)) /\ WF_vars(CodexEnds(a))
                       /\ WF_vars(ForceFinish(a))
  /\ \A w \in Workers : WF_vars(Work(w))
  /\ WF_vars(Restart) /\ WF_vars(CancelDrain)

FairSpec == Spec /\ Fairness

(* A message reached its recipient when a delivery succeeded or a Turn began   *)
(* to handle it, whatever became of that Turn.                                 *)
Reached(r) == comms[r].delivery = "delivered" \/ comms[r].attempts # <<>>

(* The ledger the Agents see, in the records of delivery. *)
Ledger == INSTANCE RequestLedger WITH
  state   <- [m \in Msgs |-> IF Known(m) THEN comms[m].status ELSE "unused"],
  replyTo <- [m \in Msgs |-> comms[m].replyTo],
  reached <- {r \in Msgs : comms[r].replyTo # None /\ Reached(r)}

----------------------------------------------------------------------------
(* Properties. *)

LedgerOK == comms \in [Msgs -> Message] /\ commOrder \in Seq(Msgs)

RuntimeOK ==
  /\ meta \in [Agents -> Agent]
  /\ active \in [Agents -> Slots \cup {None}]
  /\ turns \in [Slots -> Turn]
  /\ workers \in [Workers -> Worker]
  /\ \A w \in Workers :
       /\ workers[w].phase # "idle" => workers[w].agent \in Agents
       /\ workers[w].phase \in {"steering", "steered"} => workers[w].msg \in Msgs

ExternalOK ==
  /\ codex \in [Agents -> CodexTurn]
  /\ notes \in [Agents -> Seq(Event)]
  /\ carried \in Seq(Msgs \cup {None}) /\ Len(carried) <= MaxTurnId

ControlOK ==
  /\ stopping \in BOOLEAN /\ draining \in BOOLEAN
  /\ spent \in [faults: 0..MaxFaults, stops: 0..MaxStops,
                retries: 0..MaxRetries, commands: 0..MaxCommands]

(* The tables, the runtime of every Agent, what Codex knows and the control    *)
(* flags have their types, and a busy worker serves an Agent, a steering one   *)
(* a message.                                                                  *)
TypeOK == LedgerOK /\ RuntimeOK /\ ExternalOK /\ ControlOK

(* A request is marked answered only by a reply that did reach its sender's    *)
(* Thread (or the Scheduler): a lost or merely queued reply never closes it.   *)
AnsweredByReply ==
  \A m \in Msgs : comms[m].status = "answered" =>
    \E r \in Msgs : comms[r].replyTo = m /\ Reached(r)

(* A message in "delivering" is in the hands of a worker that will settle it:  *)
(* no interleaving of workers, commands and notifications strands one there.   *)
DeliveringIsOwned ==
  \A m \in Msgs : comms[m].delivery = "delivering" =>
    \E w \in Workers : workers[w].phase # "idle" /\ workers[w].msg = m

(* A steered reply entered exactly the Turn that sent the request.             *)
SteerIsCausal ==
  \A m \in Msgs : comms[m].mode = "turn_steer" =>
    /\ comms[m].replyTo # None
    /\ comms[m].turn = comms[comms[m].replyTo].source

(* Delivery implements the ledger.                                             *)
ImplementsLedger == Ledger!LedgerSpec

(* No message waits for ever: it is delivered, fails or is cancelled.          *)
QueueDrains ==
  \A m \in Msgs : Unsent(comms[m]) /\ comms[m].to \notin GoalAgents ~> ~Unsent(comms[m])

(* A message in handling always comes to an outcome.                           *)
HandlingEnds ==
  \A m \in Msgs : comms[m].handling = "running" ~> comms[m].handling # "running"

(* A message that a Turn has taken goes back to the queue only by an           *)
(* operator's Retry or Continue (loom-cli.md:891), never by a worker, a        *)
(* notification, a crash or a restart.  A reply never does.  The exception is  *)
(* a message that was sent again twice: a worker that claimed it in between    *)
(* may be refused late and queue it over the record of the Turn that has it.   *)
NoAutomaticRedelivery ==
  [][\A m \in Msgs :
       /\ comms[m].handling # "pending"
       /\ comms[m].delivery # "queued" /\ comms'[m].delivery = "queued"
       => \/ spent'.retries > spent.retries
          \/ comms[m].replyTo = None /\ spent.retries >= 2]_vars

----------------------------------------------------------------------------
(* What the documents say of delivery, and the code does not keep.            *)

(* loom-cli.md:861, of a cancelled request: "at once stops delivery and       *)
(* closes".                                                                   *)
CancelledStaysOut ==
  [][\A m \in Msgs : comms[m].delivery = "cancelled" => comms'[m].delivery = "cancelled"]_vars

(* communication.go:264: a no-reply is "mutually exclusive with a reply".     *)
NoReplyExcludesReply ==
  \A m \in Msgs : comms[m].resolution = "no_reply" =>
    \A r \in Msgs : comms[r].replyTo # m

(* loom-cli.md:819: "completed" means that the handling of this message came   *)
(* to its normal end: the Codex Turn that ended was started with it.           *)
CompletedByCarrier ==
  \A m \in Msgs : comms[m].handling = "completed" =>
    comms[m].turn \in DOMAIN carried /\ carried[comms[m].turn] = m
=============================================================================
