-------------------------- MODULE ConnectorDelivery --------------------------
(***************************************************************************)
(* The delivery of commands to a platform (internal/hub/outbox.go and      *)
(* provider_operation.go, internal/httpapi/server.go, the gateways): the   *)
(* Hub claims one command at a time and writes it to the event stream of   *)
(* its Connection, the gateway carries it out and posts the result.  The   *)
(* Hub takes Hub.mu anew for each part of a claim; the stream, the gateway *)
(* and the platform fail on their own.                                     *)
(***************************************************************************)
EXTENDS ExternalRecords

CONSTANT ProviderDedupes  \* the gateway sends an idempotency key (Feishu) or none (Slack)

ASSUME ProviderAssumption == ProviderDedupes \in BOOLEAN

VARIABLES stream,  \* connectorCommands: no stream, or how far the claim in it has come
          queue,   \* commands written to the stream and not yet read by the gateway
          hand,    \* the command the gateway is carrying out
          journal, \* state.outboxResults, state.Deliveries: what the gateway knows it sent
          platform \* messages the platform has accepted

connector == <<stream, queue, hand, journal, platform>>

EmptyHand == [phase |-> "none", cmd |-> NoItem, token |-> 0]

Attempt_ == [cmd: Commands, token: Nat]
Hand_    == [phase: {"none", "received", "posted", "ok", "failed"},
             cmd: Commands \cup {NoItem}, token: Nat]

ConnectorInit ==
  /\ stream = "down" /\ queue = <<>> /\ hand = EmptyHand
  /\ journal = [known |-> {}, saved |-> {}] /\ platform = {}

ConnectorOK ==
  /\ stream \in {"down", "idle", "outbox", "reads"}
  /\ queue \in Seq(Attempt_) /\ hand \in Hand_
  /\ journal \in [{"known", "saved"} -> SUBSET Outbox] /\ platform \subseteq Outbox \X Nat

----------------------------------------------------------------------------
(* Commands are created and given up. *)

(* SendExternal, CreateOutbox, CreateProviderOperation *)
CreateCommand(c) ==
  /\ c \in Sends \cup Reads /\ commands[c].state = "unused" /\ address.enabled
  /\ commands' = Pending(commands, c)
  /\ UNCHANGED <<inbox, address, connector, spent>>

(* RetryOutboxItem: an operation that failed is not retried.  The item is     *)
(* awaiting its delivery again, whatever it had become.                       *)
RetryOutbox(c) ==
  /\ Command /\ c \in Outbox /\ commands[c].state = "failed" /\ address.enabled
  /\ commands' = Pending(commands, c)
  /\ inbox' = IF c \in Items THEN [inbox EXCEPT ![c].state = "awaiting_delivery"] ELSE inbox
  /\ UNCHANGED <<address, connector>>

InFlight(c) == commands[c].state = "sending" /\ ~commands[c].lapsed
Lapsed(c)   == commands[c].state = "sending" /\ commands[c].lapsed

Requeued(cs, scope) ==
  [c \in Commands |-> IF c \in scope /\ Lapsed(c) THEN Pending(cs, c)[c] ELSE cs[c]]

----------------------------------------------------------------------------
(* The stream: connectorCommands and ClaimNextConnectorCommand.               *)

(* The gateway reads what its old stream still holds before it reconnects.    *)
Connect ==
  /\ stream = "down" /\ queue = <<>> /\ hand = EmptyHand
  /\ stream' = "idle"
  /\ commands' = Requeued(commands, Commands)
  /\ UNCHANGED <<inbox, address, queue, hand, journal, platform, spent>>

(* What the network has not delivered is lost. *)
StreamLost ==
  /\ stream' = "down"
  /\ \E n \in 0..Len(queue) : queue' = SubSeq(queue, 1, n)

Disconnect ==
  /\ stream # "down" /\ Fault /\ StreamLost
  /\ UNCHANGED <<records, hand, journal, platform>>

(* Mutant: provider operations are not counted. *)
BusyOutbox == \E c \in Outbox : InFlight(c)

Busy == \E c \in Commands : InFlight(c)

(* Lapsed claims go back; one command is in flight at a time.                 *)
CheckInFlight ==
  /\ stream = "idle"
  /\ commands' = Requeued(commands, Commands)
  /\ stream' = IF Busy THEN "idle" ELSE "outbox"
  /\ UNCHANGED <<inbox, address, queue, hand, journal, platform, spent>>

Eligible(c) == address.enabled /\ (commands[c].state = "pending" \/ Lapsed(c))

Claim(c) ==
  /\ commands' = [commands EXCEPT ![c].state = "sending", ![c].token = @ + 1, ![c].lapsed = FALSE]
  /\ queue' = Append(queue, [cmd |-> c, token |-> commands'[c].token])
  /\ stream' = "idle"

(* ClaimNextOutbox and ClaimNextProviderOperation: some eligible command,     *)
(* where the code takes the oldest.                                           *)
ClaimIn(scope, none) ==
  /\ \/ \E c \in scope : Eligible(c) /\ Claim(c)
     \/ /\ ~\E c \in scope : Eligible(c)
        /\ commands' = Requeued(commands, scope) /\ stream' = none /\ UNCHANGED queue
  /\ UNCHANGED <<inbox, address, hand, journal, platform, spent>>

(* Mutant: operations are not looked at when there is no message. *)
ClaimNextOutboxOnly == stream = "outbox" /\ ClaimIn(Outbox, "idle")

ClaimNextOutbox            == stream = "outbox" /\ ClaimIn(Outbox, "reads")
ClaimNextProviderOperation == stream = "reads" /\ ClaimIn(Reads, "idle")

(* A command that nobody works on any more.                                   *)
Current(c, attempt) == attempt.cmd = c /\ attempt.token = commands[c].token

Abandoned(c) == ~Current(c, hand) /\ \A n \in DOMAIN queue : ~Current(c, queue[n])

(* Two minutes pass: the gateway is slow, or the command has been lost.       *)
Lapse(c) ==
  /\ InFlight(c)
  /\ IF Abandoned(c) THEN UNCHANGED spent ELSE Fault
  /\ commands' = [commands EXCEPT ![c].lapsed = TRUE]
  /\ UNCHANGED <<inbox, address, connector>>


----------------------------------------------------------------------------
(* Results at the Hub. *)

Ended(c, success) == [commands EXCEPT ![c].state = IF success THEN "sent" ELSE "failed",
                                      ![c].lapsed = FALSE]

(* Mutant: the result of any attempt is taken. *)
CompletesAny(attempt) == commands[attempt.cmd].state = "sending"

(* Only the result of the current attempt ends a command. *)
Completes(attempt) == commands[attempt.cmd].state = "sending" /\ Current(attempt.cmd, attempt)

CommandCompleted(attempt, success) ==
  commands' = IF Completes(attempt) THEN Ended(attempt.cmd, success) ELSE commands

(* A command that is already sent is reconciled with its item once more.      *)
ItemReconciled(attempt) ==
  LET c == attempt.cmd
  IN  inbox' = IF c \in Items /\ (Completes(attempt) \/ commands[c].state = "sent")
               THEN [inbox EXCEPT ![c] = Reconciled(@, commands'[c])] ELSE inbox

(* CompleteOutbox, CompleteProviderOperation *)
Completed(attempt, success) == CommandCompleted(attempt, success) /\ ItemReconciled(attempt)

----------------------------------------------------------------------------
(* The gateway carries out one command after the other. *)

Key(c, token) == IF ProviderDedupes THEN 0 ELSE token

SetHand(phase) == hand' = [hand EXCEPT !.phase = phase]

Receive ==
  /\ hand = EmptyHand /\ queue # <<>>
  /\ hand' = [phase |-> "received", cmd |-> Head(queue).cmd, token |-> Head(queue).token]
  /\ queue' = Tail(queue)
  /\ UNCHANGED <<records, stream, journal, platform, spent>>

Accepted(c, token) == platform' = platform \cup {<<c, Key(c, token)>>}

(* What is in the journal is not sent again; an operation only reads.         *)
ToSend(c) == c \in Outbox \ journal.known

Post ==
  /\ hand.phase = "received"
  /\ IF ToSend(hand.cmd) THEN SetHand("posted") /\ Accepted(hand.cmd, hand.token)
                          ELSE SetHand("ok") /\ UNCHANGED platform
  /\ UNCHANGED <<records, stream, queue, journal, spent>>

(* The platform refuses, or accepts and its answer is lost.                   *)
PostFails ==
  /\ hand.phase = "received" /\ hand.cmd \notin journal.known
  /\ Fault /\ SetHand("failed")
  /\ \/ UNCHANGED platform
     \/ hand.cmd \in Outbox /\ Accepted(hand.cmd, hand.token)
  /\ UNCHANGED <<records, stream, queue, journal>>

Remembered(c) == journal.known \cup {c}

Journal ==
  /\ hand.phase = "posted" /\ SetHand("ok")
  /\ journal' = [known |-> Remembered(hand.cmd), saved |-> Remembered(hand.cmd)]
  /\ UNCHANGED <<records, stream, queue, platform, spent>>

(* The journal is written after it is changed. *)
JournalFails ==
  /\ hand.phase = "posted" /\ Fault /\ SetHand("failed")
  /\ journal' = [journal EXCEPT !.known = Remembered(hand.cmd)]
  /\ UNCHANGED <<records, stream, queue, platform>>

Reporting == hand.phase \in {"ok", "failed"}

(* The Feishu gateway forgets what the Hub has taken as sent.                 *)
Forgotten(c) == [known |-> journal.known \ {c}, saved |-> journal.known \ {c}]

Report ==
  /\ Reporting /\ Completed(hand, hand.phase = "ok")
  /\ journal' = IF ProviderDedupes /\ hand.phase = "ok" /\ hand.cmd \in Outbox
                   /\ commands'[hand.cmd].state = "sent"
                THEN Forgotten(hand.cmd) ELSE journal
  /\ hand' = EmptyHand
  /\ UNCHANGED <<address, stream, queue, platform, spent>>

(* The Hub is not reached, fails to save all of it, or its answer is lost: one *)
(* gateway gives up, another reports a failure of what it has sent.           *)
ReportUnanswered ==
  /\ Reporting /\ Fault
  /\ \/ UNCHANGED <<commands, inbox>>
     \/ CommandCompleted(hand, hand.phase = "ok") /\ (ItemReconciled(hand) \/ UNCHANGED inbox)
  /\ \/ hand' = EmptyHand
     \/ hand.phase = "ok" /\ SetHand("failed")
  /\ UNCHANGED <<address, stream, queue, journal, platform>>

GatewayDies ==
  /\ Fault /\ hand' = EmptyHand /\ queue' = <<>> /\ stream' = "down"
  /\ journal' = [journal EXCEPT !.known = journal.saved]
  /\ UNCHANGED <<records, platform>>

GatewayStep == Receive \/ Post \/ Journal \/ Report

GatewayFault == PostFails \/ JournalFails \/ ReportUnanswered \/ GatewayDies

ClaimStep == CheckInFlight \/ ClaimNextOutbox \/ ClaimNextProviderOperation

ConnectorStep ==
  \/ \E c \in Commands : CreateCommand(c) \/ RetryOutbox(c) \/ Lapse(c)
  \/ Connect \/ Disconnect \/ ClaimStep \/ GatewayStep \/ GatewayFault
=============================================================================
