---------------------------- MODULE InboxHandling ----------------------------
(***************************************************************************)
(* The handling of external messages (internal/hub/inbox.go): an Inbox     *)
(* item is claimed by a worker, becomes the input of a Turn, and ends with *)
(* a reply, no reply or a failure.  A worker releases Hub.mu between the   *)
(* claim, the reservation of the Turn, the answer of turn/start and the    *)
(* repair of the item after a refused one; any command, and any other      *)
(* worker, runs in between.                                                *)
(***************************************************************************)
EXTENDS ExternalRecords

CONSTANT Workers  \* goroutines in deliverNextInboxForAgent

VARIABLES workers, \* what each worker holds
          turn,    \* the Agent's active Turn
          unsaved  \* items whose attempt has an end that could not be written

handling == <<workers, turn, unsaved>>

IdleWorker == [phase |-> "idle", item |-> NoItem, policy |-> "none"]
NoTurn     == [phase |-> "none", item |-> NoItem, policy |-> "none"]

Worker_ == [phase: {"idle", "sending", "starting", "busy", "error"},
            item: Items \cup {NoItem}, policy: Policies]
Turn_   == [phase: {"none", "other", "external"},
            item: Items \cup {NoItem}, policy: Policies]

HandlingInit ==
  /\ workers = [w \in Workers |-> IdleWorker]
  /\ turn = NoTurn
  /\ unsaved = {}

HandlingOK == workers \in [Workers -> Worker_] /\ turn \in Turn_ /\ unsaved \subseteq Items \cup {NoItem}

SetState(i, state) == inbox' = [inbox EXCEPT ![i].state = state]
SetPhase(w, phase) == workers' = [workers EXCEPT ![w].phase = phase]

----------------------------------------------------------------------------
(* Ingestion and the commands of Agent and operator.                          *)

(* IngestMessage: a direct message of an unknown sender waits for approval.   *)
Ingest(i) ==
  /\ inbox[i].state = "unused" /\ \A j \in Items : j < i => inbox[j].state # "unused"
  /\ address.enabled
  /\ \E state \in {"queued", "pending_access"} : SetState(i, state)
  /\ UNCHANGED <<commands, address, handling, spent>>

Open(i) == inbox[i].state \notin {"unused", "handled"}

AlreadyReplied(i) ==
  inbox[i].state = "awaiting_delivery" /\ inbox[i].outcome = "reply" /\ commands[i].state # "unused"

ReplyInboxItem(i) ==
  /\ Open(i) /\ ~AlreadyReplied(i) /\ CanReply(i)
  /\ commands' = WithReply(i)
  /\ inbox' = [inbox EXCEPT ![i] = Decided(@, "reply")]
  /\ UNCHANGED <<address, handling, spent>>

(* Mutant: the item is committed before its reply. *)
ReplyUnsavedItemFirst(i) ==
  /\ Open(i) /\ ~AlreadyReplied(i) /\ CanReply(i) /\ Fault
  /\ inbox' = [inbox EXCEPT ![i] = Decided(@, "reply")]
  /\ UNCHANGED <<commands, address, handling>>

(* The reply is written, the item is not: a failed append, or a crash before  *)
(* it when Crash follows.                                                     *)
ReplyUnsaved(i) ==
  /\ Open(i) /\ ~AlreadyReplied(i) /\ CanReply(i) /\ Fault
  /\ commands' = WithReply(i)
  /\ UNCHANGED <<inbox, address, handling>>

NoReplyInboxItem(i) ==
  /\ Open(i) /\ commands[i].state = "unused"
  /\ inbox' = [inbox EXCEPT ![i] = Decided(@, "no_reply")]
  /\ UNCHANGED <<commands, address, handling, spent>>

DeferInboxItem(i) ==
  /\ Command /\ Open(i) /\ address.enabled
  /\ inbox' = [inbox EXCEPT ![i].state = "deferred", ![i].outcome = ""]
  /\ UNCHANGED <<commands, address, handling>>

RetryInboxItem(i) ==
  /\ Command /\ address.enabled
  /\ inbox[i].state \in {"failed", "deferred", "pending_access", "interrupted"}
  /\ SetState(i, "queued")
  /\ UNCHANGED <<commands, address, handling>>

(* queuedInboxAgents: a deferred item's time has come.                        *)
Activate(i) ==
  /\ inbox[i].state = "deferred" /\ SetState(i, "queued")
  /\ UNCHANGED <<commands, address, handling, spent>>

----------------------------------------------------------------------------
(* deliverNextInboxForAgent *)

First(i) == inbox[i].state = "queued" /\ \A j \in Items : inbox[j].state = "queued" => i <= j

Claimable(w, i) == workers[w].phase = "idle" /\ turn = NoTurn /\ First(i)

ClaimInbox(w, i) ==
  /\ Claimable(w, i) /\ address.enabled
  /\ SetState(i, "handling")
  /\ workers' = [workers EXCEPT ![w] = [phase |-> "sending", item |-> i, policy |-> address.policy]]
  /\ unsaved' = unsaved \ {i}
  /\ UNCHANGED <<commands, address, turn, spent>>

(* Mutant: a disabled address leaves the item alone. *)
RefuseUnsaved(w, i) ==
  /\ Claimable(w, i) /\ address.enabled /\ Fault
  /\ SetState(i, "failed")
  /\ UNCHANGED <<commands, address, handling>>

(* The address is gone, or the attempt cannot be written.                     *)
RefuseInbox(w, i) ==
  /\ Claimable(w, i)
  /\ IF address.enabled THEN Fault ELSE UNCHANGED spent
  /\ SetState(i, "failed")
  /\ UNCHANGED <<commands, address, handling>>

(* sendTaskWithContext refuses: the Agent has a Turn, the Hub is draining, or  *)
(* Codex fails.                                                               *)
SendRefused(w) ==
  /\ workers[w].phase = "sending"
  /\ \/ turn # NoTurn /\ SetPhase(w, "busy") /\ UNCHANGED spent
     \/ Fault /\ \E phase \in {"busy", "error"} : SetPhase(w, phase)
  /\ UNCHANGED <<records, turn, unsaved>>

(* It looks at the Agent only, not at the item any more.                      *)
ReserveTurn(w) ==
  /\ workers[w].phase = "sending" /\ turn = NoTurn
  /\ turn' = [phase |-> "external", item |-> workers[w].item, policy |-> workers[w].policy]
  /\ SetPhase(w, "starting")
  /\ UNCHANGED <<records, unsaved, spent>>

(* turn/start is answered.  The Turn may have ended before.                   *)
StartAnswered(w) ==
  /\ workers[w].phase = "starting"
  /\ workers' = [workers EXCEPT ![w] = IdleWorker]
  /\ UNCHANGED <<records, turn, unsaved, spent>>

(* finishInboxAttemptLocked: the state of the item is the end of its Turn      *)
(* unless it has been decided since.                                          *)
EndOf(i, policy, completed, answered) ==
  CASE ~completed \/ policy = "explicit"  -> "failed"
    [] completed /\ policy = "none"       -> "no_reply"
    [] OTHER -> IF answered /\ CanReply(i) THEN "reply" ELSE "failed"

WithEnd(r, end) == IF end = "failed" THEN [r EXCEPT !.state = "failed"] ELSE Decided(r, end)

(* A failed append of the item is only logged: memory keeps the item as it     *)
(* was, and nobody is left to end it.  A reply made before it stays.          *)
FinishAttempt(i, end, saved) ==
  IF inbox[i].state # "handling" THEN UNCHANGED <<inbox, commands, unsaved>>
  ELSE /\ commands' = IF end = "reply" THEN WithReply(i) ELSE commands
       /\ IF saved
          THEN /\ inbox' = [inbox EXCEPT ![i] = WithEnd(@, end)]
               /\ UNCHANGED unsaved
          ELSE /\ unsaved' = unsaved \cup {i}
               /\ UNCHANGED inbox

TurnEnds(end, saved) ==
  /\ IF turn.item = NoItem THEN UNCHANGED <<inbox, commands, unsaved>>
                           ELSE FinishAttempt(turn.item, end, saved)
  /\ turn' = NoTurn

(* Whatever Turn the Agent has now is finished, unless its runtime is gone.   *)
StartFailed(w) ==
  /\ workers[w].phase = "starting" /\ Fault
  /\ \/ turn # NoTurn /\ \E saved \in BOOLEAN : TurnEnds("failed", saved)
     \/ turn.item # workers[w].item /\ UNCHANGED <<inbox, commands, turn, unsaved>>
  /\ SetPhase(w, "error")
  /\ UNCHANGED address

(* Mutant: the worker leaves the item to the Agent's present Turn. *)
RepairedLater(phase) == IF phase = "busy" THEN "handling" ELSE "failed"

Repaired(phase) == IF phase = "busy" THEN "queued" ELSE "failed"

(* The worker's tail: the item goes back to the queue or fails, if it is still *)
(* being handled.                                                             *)
Repair(w) ==
  /\ workers[w].phase \in {"busy", "error"}
  /\ LET i == workers[w].item
     IN  \/ /\ IF inbox[i].state # "handling" THEN UNCHANGED inbox
                                              ELSE SetState(i, Repaired(workers[w].phase))
            /\ UNCHANGED <<unsaved, spent>>
         \/ /\ inbox[i].state = "handling" /\ Fault
            /\ unsaved' = unsaved \cup {i} /\ UNCHANGED inbox
  /\ workers' = [workers EXCEPT ![w] = IdleWorker]
  /\ UNCHANGED <<commands, address, turn>>

----------------------------------------------------------------------------
(* The Agent's Turn. *)

EndTurn(completed, answered) ==
  /\ turn.item # NoItem
  /\ LET end == EndOf(turn.item, turn.policy, completed, answered)
     IN  \/ TurnEnds(end, TRUE) /\ UNCHANGED spent
         \/ TurnEnds(end, FALSE) /\ inbox[turn.item].state = "handling" /\ Fault
  /\ UNCHANGED <<address, workers>>

(* A Turn of another origin: an owner's task, an Agent message, a Goal.       *)
OtherTurn ==
  /\ Command /\ turn = NoTurn
  /\ turn' = [NoTurn EXCEPT !.phase = "other"]
  /\ UNCHANGED <<records, workers, unsaved>>

EndOther ==
  /\ turn.phase = "other" /\ turn' = NoTurn
  /\ UNCHANGED <<records, workers, unsaved, spent>>

WorkerStep(w) ==
  \/ \E i \in Items : ClaimInbox(w, i) \/ RefuseInbox(w, i)
  \/ SendRefused(w) \/ ReserveTurn(w) \/ StartAnswered(w) \/ StartFailed(w) \/ Repair(w)

InboxStep ==
  \/ \E i \in Items : \/ Ingest(i) \/ ReplyInboxItem(i) \/ ReplyUnsaved(i) \/ NoReplyInboxItem(i)
                      \/ DeferInboxItem(i) \/ RetryInboxItem(i) \/ Activate(i)
  \/ \E w \in Workers : WorkerStep(w)
  \/ \E completed, answered \in BOOLEAN : EndTurn(completed, answered)
  \/ OtherTurn \/ EndOther
=============================================================================
