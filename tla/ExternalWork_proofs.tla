-------------------------- MODULE ExternalWork_proofs --------------------------
(***************************************************************************)
(* Safety of external work for any number of items, commands and workers   *)
(* and any bound on faults: one command is in flight, results end their    *)
(* own attempt, and an item is closed as answered only after the platform  *)
(* took its reply.                                                         *)
(*                                                                         *)
(* The invariant follows a command's attempts: each token that was handed  *)
(* out is in one place at most, the queue or the gateway's hand; what the  *)
(* gateway holds as posted, what its journal knows and what the Hub calls  *)
(* sent has been taken by the platform.                                    *)
(***************************************************************************)
EXTENDS ExternalWork, SequenceTheorems, TLAPS

AttemptsOK ==
  /\ \A n \in DOMAIN queue : queue[n].token <= commands[queue[n].cmd].token
  /\ hand.phase # "none" => hand.cmd \in Commands /\ hand.token <= commands[hand.cmd].token

(* No attempt is in two places. *)
AttemptsDistinct ==
  /\ \A m, n \in DOMAIN queue : queue[m] = queue[n] => m = n
  /\ hand.phase # "none" =>
       \A n \in DOMAIN queue : ~(queue[n].cmd = hand.cmd /\ queue[n].token = hand.token)

(* Between the check for a command in flight and the claim there is none.      *)
SingleFlight ==
  /\ OneCommandInFlight
  /\ stream \in {"outbox", "reads"} => \A c \in Commands : ~InFlight(c)

AttemptInv == AttemptsOK /\ AttemptsDistinct /\ FinishedByItsAttempt /\ SingleFlight

(* What the gateway, its journal and the Hub take as sent is on the platform.  *)
TakenInv ==
  /\ \A c \in Outbox : commands[c].state = "sent" => Sent(c)
  /\ hand.phase = "posted" => hand.cmd \in Outbox
  /\ hand.phase \in {"posted", "ok"} /\ hand.cmd \in Outbox => Sent(hand.cmd)
  /\ \A c \in journal.known \cup journal.saved : Sent(c)

(* The items that are closed as answered, in memory or in their file.          *)
AnsweredItem(r) == r.closed = "reply" \/ (r.state = "handled" /\ r.outcome = "reply")

ItemInv ==
  \A i \in Items : /\ AnsweredItem(inbox[i]) => commands[i].state = "sent"
                   /\ inbox[i].state = "awaiting_delivery" => commands[i].state # "unused"

WorkInv == TypeOK /\ AttemptInv /\ TakenInv /\ ItemInv

----------------------------------------------------------------------------
(* Commands.                                                                   *)

LEMMA CommandFields ==
  ASSUME NEW r \in Command_
  PROVE  /\ r.state \in {"unused", "pending", "sending", "sent", "failed"}
         /\ r.token \in Nat /\ r.lapsed \in BOOLEAN
         /\ [r EXCEPT !.state = "pending", !.lapsed = FALSE] \in Command_
         /\ [r EXCEPT !.state = "pending", !.lapsed = FALSE].state = "pending"
         /\ [r EXCEPT !.state = "pending", !.lapsed = FALSE].token = r.token
BY DEF Command_

LEMMA PendingRecord ==
  ASSUME commands \in [Commands -> Command_], NEW c \in Commands
  PROVE  /\ Pending(commands, c)[c] \in Command_
         /\ Pending(commands, c)[c].state = "pending"
         /\ Pending(commands, c)[c].token = commands[c].token
<1> DEFINE r == [commands[c] EXCEPT !.state = "pending", !.lapsed = FALSE]
<1>1. r \in Command_ /\ r.state = "pending" /\ r.token = commands[c].token
  BY CommandFields
<1>2. Pending(commands, c) = [commands EXCEPT ![c] = r]
  BY DEF Pending
<1> HIDE DEF r
<1>3. QED BY <1>1, <1>2

LEMMA QueuedAttempt ==
  ASSUME TypeOK
  PROVE  \A n \in DOMAIN queue : /\ queue[n] \in Attempt_ /\ queue[n].cmd \in Commands
                                 /\ queue[n].token \in Nat
<1>1. queue \in Seq(Attempt_)
  BY DEF TypeOK, ConnectorOK
<1>2. \A n \in DOMAIN queue : queue[n] \in Attempt_
  BY <1>1, ElementOfSeq, LenProperties
<1>3. QED BY <1>2 DEF Attempt_

(* A change of commands that makes no new attempt.                             *)
Moves(ds) ==
  /\ ds \in [Commands -> Command_]
  /\ \A c \in Commands :
       /\ ds[c].token = commands[c].token
       /\ commands[c].state # "unused" => ds[c].state # "unused"
       /\ commands[c].state = "sent" => ds[c].state = "sent"
       /\ ds[c].state = "sending" /\ ~ds[c].lapsed => InFlight(c)

(* One that ends no command either.                                            *)
Quiet(ds) ==
  /\ Moves(ds)
  /\ \A c \in Commands : ds[c].state \in {"sent", "failed"} => ds[c].state = commands[c].state

LEMMA SameQuiet ==
  ASSUME commands \in [Commands -> Command_]
  PROVE  Quiet(commands)
BY DEF Quiet, Moves, InFlight

LEMMA PendingQuiet ==
  ASSUME commands \in [Commands -> Command_], NEW c \in Commands,
         commands[c].state \in {"unused", "failed"} \/ Lapsed(c)
  PROVE  Quiet(Pending(commands, c))
<1> DEFINE r == [commands[c] EXCEPT !.state = "pending", !.lapsed = FALSE]
<1>1. /\ r \in Command_ /\ r.state = "pending" /\ r.token = commands[c].token
      /\ commands[c].state # "sent"
  BY CommandFields DEF Lapsed
<1>2. Pending(commands, c) = [commands EXCEPT ![c] = r]
  BY DEF Pending
<1> HIDE DEF r
<1>3. QED BY <1>1, <1>2 DEF Quiet, Moves, InFlight

LEMMA RequeuedQuiet ==
  ASSUME commands \in [Commands -> Command_], NEW scope
  PROVE  Quiet(Requeued(commands, scope))
<1>1. ASSUME NEW c \in Commands, Lapsed(c)
      PROVE  /\ Pending(commands, c)[c] \in Command_
             /\ Pending(commands, c)[c].state = "pending"
             /\ Pending(commands, c)[c].token = commands[c].token
             /\ commands[c].state = "sending"
  BY <1>1, PendingRecord DEF Lapsed
<1> DEFINE ds == Requeued(commands, scope)
<1>2. \A c \in Commands : \/ ds[c] = commands[c]
                          \/ Lapsed(c) /\ ds[c] = Pending(commands, c)[c]
  BY DEF Requeued
<1>3. ds \in [Commands -> Command_]
  <2>1. \A c \in Commands : ds[c] \in Command_
    BY <1>1, <1>2
  <2>2. ds = [c \in Commands |-> ds[c]]
    BY DEF Requeued
  <2> HIDE DEF ds
  <2>3. QED BY <2>1, <2>2
<1> HIDE DEF ds
<1>4. Quiet(ds)
  BY <1>1, <1>2, <1>3 DEF Quiet, Moves, InFlight
<1>5. QED BY <1>4 DEF ds

LEMMA LapseQuiet ==
  ASSUME commands \in [Commands -> Command_], NEW c \in Commands
  PROVE  Quiet([commands EXCEPT ![c].lapsed = TRUE])
<1> DEFINE r == [commands[c] EXCEPT !.lapsed = TRUE]
<1>1. r \in Command_ /\ r.state = commands[c].state /\ r.token = commands[c].token /\ r.lapsed
  BY DEF Command_
<1>2. [commands EXCEPT ![c].lapsed = TRUE] = [commands EXCEPT ![c] = r]
  OBVIOUS
<1> HIDE DEF r
<1>3. QED BY <1>1, <1>2 DEF Quiet, Moves, InFlight

LEMMA ReplyQuiet ==
  ASSUME commands \in [Commands -> Command_], NEW i \in Items
  PROVE  Quiet(WithReply(i)) /\ WithReply(i)[i].state # "unused"
<1>1. i \in Commands
  BY DEF Commands, Outbox
<1>2. CASE commands[i].state = "unused"
  <2>1. Pending(commands, i)[i].state = "pending"
    BY <1>1, PendingRecord
  <2>2. QED BY <1>1, <1>2, <2>1, PendingQuiet DEF WithReply
<1>3. CASE commands[i].state # "unused"
  BY <1>3, SameQuiet DEF WithReply
<1>4. QED BY <1>2, <1>3

(* The queue loses attempts at its ends; the gateway goes on with its attempt  *)
(* or drops it.                                                                *)
QueueLess ==
  /\ queue' \in Seq(Attempt_)
  /\ \E k \in Nat : \A n \in DOMAIN queue' : n + k \in DOMAIN queue /\ queue'[n] = queue[n + k]

HandOn ==
  \/ hand'.phase = "none"
  \/ /\ hand.phase # "none" /\ hand'.cmd = hand.cmd /\ hand'.token = hand.token
     /\ hand'.phase \in {"received", "posted"} => hand.phase \in {"received", "posted"}

LEMMA SameQueue ==
  ASSUME TypeOK, queue' = queue
  PROVE  QueueLess
<1>1. queue \in Seq(Attempt_)
  BY DEF TypeOK, ConnectorOK
<1>2. \A n \in DOMAIN queue : n + 0 \in DOMAIN queue /\ queue[n] = queue[n + 0]
  BY <1>1, LenProperties
<1>3. QED BY <1>1, <1>2 DEF QueueLess

LEMMA SameAttempts ==
  ASSUME TypeOK, UNCHANGED <<queue, hand>>
  PROVE  QueueLess /\ HandOn
BY SameQueue DEF HandOn

LEMMA StillFinished ==
  ASSUME TypeOK, AttemptInv, Quiet(commands'), QueueLess, HandOn
  PROVE  FinishedByItsAttempt'
<1>1. PICK k \in Nat : \A n \in DOMAIN queue' : n + k \in DOMAIN queue /\ queue'[n] = queue[n + k]
  BY DEF QueueLess
<1>2. ASSUME NEW c \in Commands, commands'[c].state \in {"sent", "failed"}
      PROVE  /\ ~(Current(c, hand)' /\ hand'.phase \in {"received", "posted"})
             /\ \A n \in DOMAIN queue' : ~Current(c, queue[n])'
  <2>1. commands[c].state \in {"sent", "failed"} /\ commands'[c].token = commands[c].token
    BY <1>2 DEF Quiet, Moves
  <2>2. /\ ~(Current(c, hand) /\ hand.phase \in {"received", "posted"})
        /\ \A n \in DOMAIN queue : ~Current(c, queue[n])
    BY <2>1 DEF AttemptInv, FinishedByItsAttempt
  <2>3. QED BY <1>1, <2>1, <2>2 DEF HandOn, Current
<1>3. QED BY <1>2 DEF FinishedByItsAttempt

(* The attempts under way do not notice a change that makes none.              *)
LEMMA AttemptsGoOn ==
  ASSUME TypeOK, AttemptInv, Moves(commands'), QueueLess, HandOn, FinishedByItsAttempt',
         stream' \in {"outbox", "reads"} => \A c \in Commands : ~InFlight(c)
  PROVE  AttemptInv'
<1>1. PICK k \in Nat : \A n \in DOMAIN queue' : n + k \in DOMAIN queue /\ queue'[n] = queue[n + k]
  BY DEF QueueLess
<1>2. \A n \in DOMAIN queue : queue[n].cmd \in Commands
  BY QueuedAttempt
<1>3. \A n \in DOMAIN queue' : n \in Nat
  BY LenProperties DEF QueueLess
<1>4. AttemptsOK'
  BY <1>1, <1>2 DEF AttemptInv, AttemptsOK, HandOn, Moves
<1>5. AttemptsDistinct'
  <2>1. \A m, n \in DOMAIN queue' : queue'[m] = queue'[n] => m = n
    <3>1. SUFFICES ASSUME NEW m \in DOMAIN queue', NEW n \in DOMAIN queue', queue'[m] = queue'[n]
                   PROVE  m = n
      OBVIOUS
    <3>2. m + k = n + k
      BY <1>1, <3>1 DEF AttemptInv, AttemptsDistinct
    <3>3. QED BY <1>3, <3>2
  <2>2. hand'.phase # "none" =>
          \A n \in DOMAIN queue' : ~(queue'[n].cmd = hand'.cmd /\ queue'[n].token = hand'.token)
    BY <1>1 DEF AttemptInv, AttemptsDistinct, HandOn
  <2>3. QED BY <2>1, <2>2 DEF AttemptsDistinct
<1>6. SingleFlight'
  BY DEF AttemptInv, SingleFlight, OneCommandInFlight, InFlight, Moves
<1>7. QED BY <1>4, <1>5, <1>6 DEF AttemptInv

LEMMA QuietTaken ==
  ASSUME TakenInv, Quiet(commands'), UNCHANGED <<hand, journal, platform>>
  PROVE  TakenInv'
<1>1. \A c \in Outbox : c \in Commands
  BY DEF Commands
<1>2. QED BY <1>1 DEF TakenInv, Quiet, Moves, Sent

----------------------------------------------------------------------------
(* Items.                                                                      *)

(* What a step may make of an item: it is not called answered, or awaiting a   *)
(* delivery, without the command that says so.                                 *)
Allowed(x, r, c) ==
  /\ AnsweredItem(r) => AnsweredItem(x) \/ c.state = "sent"
  /\ r.state = "awaiting_delivery" => x.state = "awaiting_delivery" \/ c.state # "unused"

ItemsAdvance ==
  /\ inbox' \in [Items -> InboxItem]
  /\ \A i \in Items : Allowed(inbox[i], inbox'[i], commands'[i])

LEMMA ItemsKept ==
  ASSUME ItemInv, ItemsAdvance,
         \A c \in Commands : /\ commands[c].state # "unused" => commands'[c].state # "unused"
                             /\ commands[c].state = "sent" => commands'[c].state = "sent"
  PROVE  ItemInv'
<1>1. \A i \in Items : i \in Commands
  BY DEF Commands, Outbox
<1>2. QED BY <1>1 DEF ItemInv, ItemsAdvance, Allowed

LEMMA SameItems ==
  ASSUME TypeOK, inbox' = inbox
  PROVE  ItemsAdvance
BY DEF TypeOK, RecordsOK, ItemsAdvance, Allowed

LEMMA OneItem ==
  ASSUME TypeOK, NEW i \in Items, NEW r \in InboxItem, inbox' = [inbox EXCEPT ![i] = r],
         Allowed(inbox[i], r, commands'[i])
  PROVE  ItemsAdvance
<1>1. inbox \in [Items -> InboxItem]
  BY DEF TypeOK, RecordsOK
<1>2. inbox' \in [Items -> InboxItem]
  BY <1>1
<1>3. ASSUME NEW j \in Items PROVE Allowed(inbox[j], inbox'[j], commands'[j])
  <2>1. CASE j = i
    BY <1>1, <2>1
  <2>2. CASE j # i
    BY <1>1, <2>2 DEF Allowed
  <2>3. QED BY <2>1, <2>2
<1>4. QED BY <1>2, <1>3 DEF ItemsAdvance

LEMMA StateSet ==
  ASSUME NEW x \in InboxItem, NEW state \in InboxStates
  PROVE  /\ [x EXCEPT !.state = state] \in InboxItem
         /\ [x EXCEPT !.state = state].state = state
         /\ [x EXCEPT !.state = state].outcome = x.outcome
         /\ [x EXCEPT !.state = state].closed = x.closed
BY DEF InboxItem

LEMMA CommittedRecord ==
  ASSUME NEW x \in InboxItem
  PROVE  /\ Committed(x) \in InboxItem
         /\ Committed(x).state = x.state /\ Committed(x).outcome = x.outcome
         /\ x.state # "handled" => Committed(x).closed = x.closed
         /\ x.state = "handled" => Committed(x).closed = x.outcome
BY DEF Committed, InboxItem

LEMMA DecidedRecord ==
  ASSUME NEW x \in InboxItem, NEW c
  PROVE  /\ Decided(x, "reply") \in InboxItem
         /\ c.state # "unused" => Allowed(x, Decided(x, "reply"), c)
         /\ Decided(x, "no_reply") \in InboxItem
         /\ Allowed(x, Decided(x, "no_reply"), c)
<1> DEFINE y == [x EXCEPT !.outcome = "reply", !.state = "awaiting_delivery"]
           n == [x EXCEPT !.outcome = "no_reply", !.state = "handled"]
<1>1. y \in InboxItem /\ y.state = "awaiting_delivery" /\ y.closed = x.closed
  BY DEF InboxItem, InboxStates, Outcomes
<1>2. n \in InboxItem /\ n.state = "handled" /\ n.outcome = "no_reply"
  BY DEF InboxItem, InboxStates, Outcomes
<1>3. Decided(x, "reply") = Committed(y) /\ Decided(x, "no_reply") = Committed(n)
  BY DEF Decided
<1> HIDE DEF y, n
<1>4. Committed(y) \in InboxItem /\ (c.state # "unused" => Allowed(x, Committed(y), c))
  BY <1>1, CommittedRecord DEF Allowed, AnsweredItem
<1>5. Committed(n) \in InboxItem /\ Allowed(x, Committed(n), c)
  BY <1>2, CommittedRecord DEF Allowed, AnsweredItem
<1>6. QED BY <1>3, <1>4, <1>5

LEMMA ReconciledRecord ==
  ASSUME NEW x \in InboxItem, NEW c
  PROVE  Reconciled(x, c) \in InboxItem /\ Allowed(x, Reconciled(x, c), c)
<1>1. CASE x.outcome = "reply" /\ c.state = "sent"
  <2> DEFINE y == [x EXCEPT !.state = "handled"]
  <2>1. y \in InboxItem /\ y.state = "handled"
    BY StateSet DEF InboxStates
  <2>2. Reconciled(x, c) = Committed(y)
    BY <1>1 DEF Reconciled
  <2> HIDE DEF y
  <2>3. QED BY <1>1, <2>1, <2>2, CommittedRecord DEF Allowed
<1>2. CASE ~(x.outcome = "reply" /\ c.state = "sent") /\ x.outcome = "reply" /\ c.state = "failed"
  <2> DEFINE y == [x EXCEPT !.state = "failed"]
  <2>1. y \in InboxItem /\ y.state = "failed" /\ y.closed = x.closed
    BY StateSet DEF InboxStates
  <2>2. Reconciled(x, c) = y
    BY <1>2 DEF Reconciled
  <2> HIDE DEF y
  <2>3. QED BY <2>1, <2>2 DEF Allowed, AnsweredItem
<1>3. CASE ~(x.outcome = "reply" /\ c.state = "sent") /\ ~(x.outcome = "reply" /\ c.state = "failed")
  <2>1. Reconciled(x, c) = x
    BY <1>3 DEF Reconciled
  <2>2. QED BY <2>1 DEF Allowed
<1>4. QED BY <1>1, <1>2, <1>3

LEMMA LoadedRecord ==
  ASSUME NEW x \in InboxItem, NEW c
  PROVE  Loaded(x) \in InboxItem /\ Allowed(x, Loaded(x), c)
<1>1. CASE x.closed # ""
  <2> DEFINE y == [x EXCEPT !.state = "handled", !.outcome = x.closed]
  <2>1. y \in InboxItem /\ y.state = "handled" /\ y.closed = x.closed /\ y.outcome = x.closed
    BY DEF InboxItem, InboxStates
  <2>2. Loaded(x) = y
    BY <1>1 DEF Loaded
  <2> HIDE DEF y
  <2>3. QED BY <2>1, <2>2 DEF Allowed, AnsweredItem
<1>2. CASE x.closed = "" /\ x.state = "handling"
  <2> DEFINE y == [x EXCEPT !.state = "interrupted"]
  <2>1. y \in InboxItem /\ y.state = "interrupted" /\ y.closed = x.closed
    BY StateSet DEF InboxStates
  <2>2. Loaded(x) = y
    BY <1>2 DEF Loaded
  <2> HIDE DEF y
  <2>3. QED BY <2>1, <2>2 DEF Allowed, AnsweredItem
<1>3. CASE x.closed = "" /\ x.state # "handling"
  BY <1>3 DEF Loaded, Allowed
<1>4. QED BY <1>1, <1>2, <1>3

(* An item's state is set to one in which it is neither closed nor awaiting.   *)
LEMMA SetStateKeeps ==
  ASSUME TypeOK, NEW i \in Items,
         NEW state \in InboxStates \ {"handled", "awaiting_delivery"}, SetState(i, state)
  PROVE  ItemsAdvance
<1> DEFINE r == [inbox[i] EXCEPT !.state = state]
<1>1. inbox[i] \in InboxItem /\ inbox' = [inbox EXCEPT ![i] = r]
  BY DEF TypeOK, RecordsOK, SetState
<1>2. r \in InboxItem /\ Allowed(inbox[i], r, commands'[i])
  BY <1>1, StateSet DEF Allowed, AnsweredItem
<1> HIDE DEF r
<1>3. QED BY <1>1, <1>2, OneItem


----------------------------------------------------------------------------
(* The Inbox.  A step of it leaves the connector alone, changes commands       *)
(* quietly and advances the items.                                             *)

InboxEffect ==
  Quiet(commands') /\ ItemsAdvance /\ HandlingOK' /\ address' = address

LEMMA Typed ==
  ASSUME TypeOK
  PROVE  /\ commands \in [Commands -> Command_] /\ inbox \in [Items -> InboxItem]
         /\ workers \in [Workers -> Worker_] /\ turn \in Turn_
         /\ unsaved \subseteq Items \cup {NoItem} /\ address.policy \in Policies
BY DEF TypeOK, RecordsOK, HandlingOK

LEMMA SameHandling ==
  ASSUME TypeOK, UNCHANGED handling
  PROVE  HandlingOK'
BY DEF TypeOK, HandlingOK, handling

LEMMA SameCommands ==
  ASSUME TypeOK, commands' = commands
  PROVE  Quiet(commands')
BY SameQuiet, Typed

(* A decision to reply, with the reply or after it. *)
LEMMA ReplyEffect ==
  ASSUME TypeOK, NEW i \in Items, commands' = WithReply(i),
         inbox' = inbox \/ inbox' = [inbox EXCEPT ![i] = Decided(@, "reply")]
  PROVE  Quiet(commands') /\ ItemsAdvance
<1>1. Quiet(commands') /\ commands'[i].state # "unused"
  BY ReplyQuiet, Typed
<1>2. CASE inbox' = inbox
  BY <1>1, <1>2, SameItems
<1>3. CASE inbox' = [inbox EXCEPT ![i] = Decided(@, "reply")]
  <2> DEFINE r == Decided(inbox[i], "reply")
  <2>1. inbox' = [inbox EXCEPT ![i] = r] /\ inbox[i] \in InboxItem
    BY <1>3, Typed
  <2>2. r \in InboxItem /\ Allowed(inbox[i], r, commands'[i])
    BY <1>1, <2>1, DecidedRecord
  <2> HIDE DEF r
  <2>3. QED BY <1>1, <2>1, <2>2, OneItem
<1>4. QED BY <1>2, <1>3

LEMMA NoReplyEffect ==
  ASSUME TypeOK, NEW i \in Items, inbox' = [inbox EXCEPT ![i] = Decided(@, "no_reply")]
  PROVE  ItemsAdvance
<1> DEFINE r == Decided(inbox[i], "no_reply")
<1>1. inbox' = [inbox EXCEPT ![i] = r] /\ inbox[i] \in InboxItem
  BY Typed
<1>2. r \in InboxItem /\ Allowed(inbox[i], r, commands'[i])
  BY <1>1, DecidedRecord
<1> HIDE DEF r
<1>3. QED BY <1>1, <1>2, OneItem

LEMMA DeferEffect ==
  ASSUME TypeOK, NEW i \in Items, DeferInboxItem(i)
  PROVE  ItemsAdvance
<1> DEFINE r == [inbox[i] EXCEPT !.state = "deferred", !.outcome = ""]
<1>1. inbox' = [inbox EXCEPT ![i] = r] /\ inbox[i] \in InboxItem
  BY Typed DEF DeferInboxItem
<1>2. r \in InboxItem /\ Allowed(inbox[i], r, commands'[i])
  BY <1>1 DEF InboxItem, InboxStates, Outcomes, Allowed, AnsweredItem
<1> HIDE DEF r
<1>3. QED BY <1>1, <1>2, OneItem

LEMMA ItemCommandEffect ==
  ASSUME TypeOK, NEW i \in Items,
         \/ Ingest(i) \/ ReplyInboxItem(i) \/ ReplyUnsaved(i) \/ NoReplyInboxItem(i)
         \/ DeferInboxItem(i) \/ RetryInboxItem(i) \/ Activate(i)
  PROVE  InboxEffect
<1>1. HandlingOK' /\ address' = address
  BY SameHandling DEF Ingest, ReplyInboxItem, ReplyUnsaved, NoReplyInboxItem, DeferInboxItem,
     RetryInboxItem, Activate
<1>2. CASE Ingest(i) \/ RetryInboxItem(i) \/ Activate(i)
  <2>1. \E state \in {"queued", "pending_access"} : SetState(i, state)
    BY <1>2 DEF Ingest, RetryInboxItem, Activate
  <2>2. commands' = commands
    BY <1>2 DEF Ingest, RetryInboxItem, Activate
  <2>3. QED BY <1>1, <2>1, <2>2, SetStateKeeps, SameCommands DEF InboxEffect, InboxStates
<1>3. CASE ReplyInboxItem(i) \/ ReplyUnsaved(i)
  BY <1>1, <1>3, ReplyEffect DEF ReplyInboxItem, ReplyUnsaved, InboxEffect
<1>4. CASE NoReplyInboxItem(i)
  BY <1>1, <1>4, NoReplyEffect, SameCommands DEF NoReplyInboxItem, InboxEffect
<1>5. CASE DeferInboxItem(i)
  <2>1. commands' = commands
    BY <1>5 DEF DeferInboxItem
  <2>2. QED BY <1>1, <1>5, <2>1, DeferEffect, SameCommands DEF InboxEffect
<1>6. QED BY <1>2, <1>3, <1>4, <1>5

(* The end of an attempt, written or not, whatever Turn it is.                 *)
LEMMA FinishEffect ==
  ASSUME TypeOK, NEW i \in Items, NEW end \in {"failed", "reply", "no_reply"}, NEW saved \in BOOLEAN,
         FinishAttempt(i, end, saved)
  PROVE  Quiet(commands') /\ ItemsAdvance /\ unsaved' \subseteq Items \cup {NoItem}
<1>1. CASE inbox[i].state # "handling"
  BY <1>1, SameCommands, SameItems, Typed DEF FinishAttempt
<1>2. CASE inbox[i].state = "handling" /\ saved
  <2>1. inbox' = [inbox EXCEPT ![i] = WithEnd(@, end)] /\ unsaved' = unsaved
    BY <1>2 DEF FinishAttempt
  <2>2. CASE end = "reply"
    BY <1>2, <2>1, <2>2, ReplyEffect, Typed DEF FinishAttempt, WithEnd
  <2>3. CASE end = "no_reply"
    BY <1>2, <2>1, <2>3, NoReplyEffect, SameCommands, Typed DEF FinishAttempt, WithEnd
  <2>4. CASE end = "failed"
    <3>1. SetState(i, "failed") /\ commands' = commands
      BY <1>2, <2>1, <2>4 DEF FinishAttempt, SetState, WithEnd
    <3>2. QED BY <2>1, <3>1, SetStateKeeps, SameCommands, Typed DEF InboxStates
  <2>5. QED BY <2>2, <2>3, <2>4
<1>3. CASE inbox[i].state = "handling" /\ ~saved
  <2>1. inbox' = inbox /\ unsaved' = unsaved \cup {i}
    BY <1>3 DEF FinishAttempt
  <2>2. Quiet(commands')
    <3>1. CASE end = "reply"
      BY <1>3, <2>1, <3>1, ReplyEffect DEF FinishAttempt
    <3>2. CASE end # "reply"
      BY <1>3, <3>2, SameCommands DEF FinishAttempt
    <3>3. QED BY <3>1, <3>2
  <2>3. QED BY <2>1, <2>2, SameItems, Typed
<1>4. QED BY <1>1, <1>2, <1>3

LEMMA TurnEndEffect ==
  ASSUME TypeOK, NEW end \in {"failed", "reply", "no_reply"}, NEW saved \in BOOLEAN, TurnEnds(end, saved)
  PROVE  Quiet(commands') /\ ItemsAdvance /\ turn' \in Turn_ /\ unsaved' \subseteq Items \cup {NoItem}
<1>1. turn.item \in Items \cup {NoItem}
  BY Typed DEF Turn_
<1>2. turn' \in Turn_
  BY DEF TurnEnds, NoTurn, Turn_, Policies
<1>3. CASE turn.item = NoItem
  BY <1>2, <1>3, SameCommands, SameItems, Typed DEF TurnEnds
<1>4. CASE turn.item # NoItem
  <2>1. turn.item \in Items /\ FinishAttempt(turn.item, end, saved)
    BY <1>1, <1>4 DEF TurnEnds
  <2>2. QED BY <1>2, <2>1, FinishEffect
<1>5. QED BY <1>3, <1>4

LEMMA WorkerTypes ==
  ASSUME TypeOK, NEW w \in Workers, NEW r \in Worker_, workers' = [workers EXCEPT ![w] = r],
         turn' \in Turn_, unsaved' \subseteq Items \cup {NoItem}
  PROVE  HandlingOK'
BY Typed DEF HandlingOK

LEMMA WorkerRecords ==
  ASSUME TypeOK
  PROVE  /\ IdleWorker \in Worker_
         /\ \A w \in Workers, phase \in {"idle", "sending", "starting", "busy", "error"} :
              [workers[w] EXCEPT !.phase = phase] \in Worker_
         /\ \A i \in Items : [phase |-> "sending", item |-> i, policy |-> address.policy] \in Worker_
         /\ \A w \in Workers : workers[w].item \in Items \cup {NoItem} /\ workers[w].policy \in Policies
BY Typed DEF IdleWorker, Worker_, Policies

LEMMA WorkerEffect ==
  ASSUME TypeOK, NEW w \in Workers, WorkerStep(w)
  PROVE  InboxEffect
<1> USE DEF InboxEffect
<1> DEFINE item == workers[w].item
<1>1. ASSUME NEW i \in Items, ClaimInbox(w, i) PROVE InboxEffect
  <2> DEFINE r == [phase |-> "sending", item |-> i, policy |-> address.policy]
  <2>1. r \in Worker_
    BY WorkerRecords
  <2>2. /\ workers' = [workers EXCEPT ![w] = r] /\ turn' \in Turn_ /\ address' = address
        /\ SetState(i, "handling") /\ commands' = commands /\ unsaved' \subseteq Items \cup {NoItem}
    BY <1>1, Typed DEF ClaimInbox
  <2> HIDE DEF r
  <2>3. QED BY <2>1, <2>2, WorkerTypes, SetStateKeeps, SameCommands DEF InboxStates
<1>2. ASSUME NEW i \in Items, RefuseInbox(w, i) PROVE InboxEffect
  BY <1>2, SetStateKeeps, SameCommands, SameHandling DEF RefuseInbox, InboxStates
<1>3. CASE SendRefused(w)
  <2>1. PICK phase \in {"busy", "error"} : SetPhase(w, phase)
    BY <1>3 DEF SendRefused
  <2> DEFINE r == [workers[w] EXCEPT !.phase = phase]
  <2>2. r \in Worker_ /\ workers' = [workers EXCEPT ![w] = r]
    BY <2>1, WorkerRecords DEF SetPhase
  <2>3. /\ turn' \in Turn_ /\ address' = address /\ commands' = commands /\ inbox' = inbox
        /\ unsaved' \subseteq Items \cup {NoItem}
    BY <1>3, Typed DEF SendRefused, records
  <2> HIDE DEF r
  <2>4. QED BY <2>2, <2>3, WorkerTypes, SameItems, SameCommands
<1>4. CASE ReserveTurn(w)
  <2> DEFINE r == [workers[w] EXCEPT !.phase = "starting"]
  <2>1. r \in Worker_ /\ workers' = [workers EXCEPT ![w] = r]
    BY <1>4, WorkerRecords DEF ReserveTurn, SetPhase
  <2>2. turn' \in Turn_
    BY <1>4, WorkerRecords DEF ReserveTurn, Turn_
  <2>3. /\ address' = address /\ commands' = commands /\ inbox' = inbox
        /\ unsaved' \subseteq Items \cup {NoItem}
    BY <1>4, Typed DEF ReserveTurn, records
  <2> HIDE DEF r
  <2>4. QED BY <2>1, <2>2, <2>3, WorkerTypes, SameItems, SameCommands
<1>5. CASE StartAnswered(w)
  <2>1. /\ workers' = [workers EXCEPT ![w] = IdleWorker] /\ turn' \in Turn_
        /\ address' = address /\ commands' = commands /\ inbox' = inbox
        /\ unsaved' \subseteq Items \cup {NoItem}
    BY <1>5, Typed DEF StartAnswered, records
  <2>2. QED BY <2>1, WorkerRecords, WorkerTypes, SameItems, SameCommands
<1>6. CASE StartFailed(w)
  <2> DEFINE r == [workers[w] EXCEPT !.phase = "error"]
  <2>1. r \in Worker_ /\ workers' = [workers EXCEPT ![w] = r] /\ address' = address
    BY <1>6, WorkerRecords DEF StartFailed, SetPhase
  <2>2. /\ Quiet(commands') /\ ItemsAdvance /\ turn' \in Turn_
        /\ unsaved' \subseteq Items \cup {NoItem}
    <3>1. ASSUME NEW saved \in BOOLEAN, TurnEnds("failed", saved) 
          PROVE  /\ Quiet(commands') /\ ItemsAdvance /\ turn' \in Turn_
                 /\ unsaved' \subseteq Items \cup {NoItem}
      BY <3>1, TurnEndEffect
    <3>2. CASE UNCHANGED <<inbox, commands, turn, unsaved>>
      BY <3>2, SameItems, SameCommands, Typed
    <3>3. QED BY <1>6, <3>1, <3>2 DEF StartFailed
  <2> HIDE DEF r
  <2>3. QED BY <2>1, <2>2, WorkerTypes
<1>7. CASE Repair(w)
  <2>1. /\ workers' = [workers EXCEPT ![w] = IdleWorker] /\ turn' \in Turn_
        /\ address' = address /\ commands' = commands
    BY <1>7, Typed DEF Repair
  <2>2. item \in Items \cup {NoItem} /\ unsaved' \subseteq Items \cup {NoItem}
    BY <1>7, WorkerRecords, Typed DEF Repair
  <2>3. ItemsAdvance
    <3>1. CASE inbox' = inbox
      BY <3>1, SameItems
    <3>2. ASSUME NEW state \in {"queued", "failed"}, SetState(item, state), item \in Items PROVE ItemsAdvance
      BY <3>2, SetStateKeeps DEF InboxStates
    <3>3. ASSUME NEW state \in {"queued", "failed"}, SetState(item, state), item \notin Items PROVE ItemsAdvance
      <4>1. inbox \in [Items -> InboxItem]
        BY Typed
      <4> HIDE DEF item
      <4>2. inbox' = inbox
        BY <3>3, <4>1 DEF SetState
      <4>3. QED BY <4>2, SameItems
    <3>4. inbox' = inbox \/ \E state \in {"queued", "failed"} : SetState(item, state)
      BY <1>7 DEF Repair, Repaired
    <3>5. QED BY <3>1, <3>2, <3>3, <3>4
  <2>4. QED BY <2>1, <2>2, <2>3, WorkerRecords, WorkerTypes, SameCommands
<1>8. QED BY <1>1, <1>2, <1>3, <1>4, <1>5, <1>6, <1>7 DEF WorkerStep

LEMMA InboxStepEffect ==
  ASSUME TypeOK, InboxStep
  PROVE  InboxEffect
<1>1. ASSUME NEW i \in Items,
             \/ Ingest(i) \/ ReplyInboxItem(i) \/ ReplyUnsaved(i) \/ NoReplyInboxItem(i)
             \/ DeferInboxItem(i) \/ RetryInboxItem(i) \/ Activate(i)
      PROVE  InboxEffect
  BY <1>1, ItemCommandEffect
<1>2. ASSUME NEW w \in Workers, WorkerStep(w) PROVE InboxEffect
  BY <1>2, WorkerEffect
<1>3. ASSUME NEW completed \in BOOLEAN, NEW answered \in BOOLEAN, EndTurn(completed, answered)
      PROVE  InboxEffect
  <2> DEFINE end == EndOf(turn.item, turn.policy, completed, answered)
  <2>1. end \in {"failed", "reply", "no_reply"}
    BY DEF EndOf
  <2>2. (TurnEnds(end, TRUE) \/ TurnEnds(end, FALSE)) /\ UNCHANGED <<address, workers>>
    BY <1>3 DEF EndTurn
  <2> HIDE DEF end
  <2>3. QED BY <2>1, <2>2, TurnEndEffect, Typed DEF InboxEffect, HandlingOK
<1>4. CASE OtherTurn \/ EndOther
  <2>1. turn' \in Turn_
    BY <1>4 DEF OtherTurn, EndOther, NoTurn, Turn_, Policies
  <2>2. UNCHANGED <<records, workers, unsaved>>
    BY <1>4 DEF OtherTurn, EndOther
  <2>3. QED BY <2>1, <2>2, SameItems, SameCommands, Typed DEF InboxEffect, HandlingOK, records
<1>5. QED BY <1>1, <1>2, <1>3, <1>4 DEF InboxStep

LEMMA SpentFits ==
  ASSUME BudgetOK, Fault \/ Command \/ UNCHANGED spent
  PROVE  BudgetOK'
<1>1. spent.faults \in 0..MaxFaults /\ spent.commands \in 0..MaxCommands
  BY DEF BudgetOK
<1>2. MaxFaults \in Nat /\ MaxCommands \in Nat
  BY BudgetAssumption
<1>3. CASE Fault
  <2>1. spent.faults < MaxFaults /\ spent' = [spent EXCEPT !.faults = @ + 1]
    BY <1>3 DEF Fault, Spend
  <2>2. spent.faults + 1 \in 0..MaxFaults
    BY <1>1, <1>2, <2>1
  <2>3. QED BY <2>1, <2>2 DEF BudgetOK
<1>4. CASE Command
  <2>1. spent.commands < MaxCommands /\ spent' = [spent EXCEPT !.commands = @ + 1]
    BY <1>4 DEF Command, Spend
  <2>2. spent.commands + 1 \in 0..MaxCommands
    BY <1>1, <1>2, <2>1
  <2>3. QED BY <2>1, <2>2 DEF BudgetOK
<1>5. CASE UNCHANGED spent
  BY <1>5 DEF BudgetOK
<1>6. QED BY <1>3, <1>4, <1>5

(* A quiet step that leaves the connector alone.                               *)
LEMMA QuietStep ==
  ASSUME WorkInv, Quiet(commands'), ItemsAdvance, HandlingOK', address' \in [enabled: BOOLEAN, policy: Policies],
         UNCHANGED connector, BudgetOK'
  PROVE  WorkInv'
<1> USE DEF WorkInv
<1>1. TypeOK'
  BY DEF TypeOK, RecordsOK, ConnectorOK, connector, Quiet, Moves, ItemsAdvance
<1>2. AttemptInv'
  <2>1. QueueLess /\ HandOn /\ stream' = stream
    BY SameAttempts DEF connector
  <2>2. stream \in {"outbox", "reads"} => \A c \in Commands : ~InFlight(c)
    BY DEF AttemptInv, SingleFlight
  <2>3. QED BY <2>1, <2>2, StillFinished, AttemptsGoOn DEF Quiet
<1>3. TakenInv'
  BY QuietTaken DEF connector
<1>4. ItemInv'
  BY ItemsKept DEF Quiet, Moves
<1>5. QED BY <1>1, <1>2, <1>3, <1>4

LEMMA InboxKeepsInv ==
  ASSUME WorkInv, InboxStep, UNCHANGED connector
  PROVE  WorkInv'
<1>1. TypeOK
  BY DEF WorkInv
<1>2. InboxEffect
  BY <1>1, InboxStepEffect
<1>3. address' \in [enabled: BOOLEAN, policy: Policies]
  BY <1>1, <1>2 DEF InboxEffect, TypeOK, RecordsOK
<1>4. Fault \/ Command \/ UNCHANGED spent
  <2>1. ASSUME NEW i \in Items,
               \/ Ingest(i) \/ ReplyInboxItem(i) \/ ReplyUnsaved(i) \/ NoReplyInboxItem(i)
               \/ DeferInboxItem(i) \/ RetryInboxItem(i) \/ Activate(i)
        PROVE  Fault \/ Command \/ UNCHANGED spent
    BY <2>1 DEF Ingest, ReplyInboxItem, ReplyUnsaved, NoReplyInboxItem, DeferInboxItem,
       RetryInboxItem, Activate
  <2>2. ASSUME NEW w \in Workers, WorkerStep(w)
        PROVE  Fault \/ Command \/ UNCHANGED spent
    BY <2>2 DEF WorkerStep, ClaimInbox, RefuseInbox, SendRefused, ReserveTurn, StartAnswered,
       StartFailed, Repair
  <2>3. QED BY <2>1, <2>2 DEF InboxStep, EndTurn, OtherTurn, EndOther
<1>5. BudgetOK'
  BY <1>1, <1>4, SpentFits DEF TypeOK
<1>6. QED BY <1>2, <1>3, <1>5, QuietStep DEF InboxEffect

LEMMA AddressKeepsInv ==
  ASSUME WorkInv, UpdateAddress, UNCHANGED <<handling, connector>>
  PROVE  WorkInv'
<1>1. TypeOK /\ inbox' = inbox /\ commands' = commands
  BY DEF WorkInv, UpdateAddress
<1>2. address' \in [enabled: BOOLEAN, policy: Policies]
  BY DEF UpdateAddress
<1>3. BudgetOK'
  BY <1>1, SpentFits DEF UpdateAddress, TypeOK
<1>4. QED BY <1>1, <1>2, <1>3, SameItems, SameCommands, SameHandling, QuietStep

----------------------------------------------------------------------------
(* The connector.                                                              *)

(* The invariant after a step that leaves handling and address alone, from the *)
(* parts of it.                                                                *)
LEMMA ConnectorKeeps ==
  ASSUME WorkInv, UNCHANGED <<handling, address>>, Fault \/ Command \/ UNCHANGED spent,
         Moves(commands'), ItemsAdvance, ConnectorOK', AttemptInv', TakenInv'
  PROVE  WorkInv'
<1>1. TypeOK /\ ItemInv
  BY DEF WorkInv
<1>2. BudgetOK'
  BY <1>1, SpentFits DEF TypeOK
<1>3. RecordsOK'
  BY <1>1 DEF TypeOK, RecordsOK, Moves, ItemsAdvance
<1>4. HandlingOK'
  BY <1>1, SameHandling
<1>5. ItemInv'
  BY <1>1, ItemsKept DEF Moves
<1>6. QED BY <1>2, <1>3, <1>4, <1>5 DEF WorkInv, TypeOK

(* A step of the Hub and the stream. *)
LEMMA StreamStep ==
  ASSUME WorkInv, UNCHANGED <<handling, address, hand, journal, platform>>,
         Fault \/ Command \/ UNCHANGED spent,
         Quiet(commands'), ItemsAdvance, QueueLess,
         stream' \in {"down", "idle", "outbox", "reads"},
         stream' \in {"outbox", "reads"} => \A c \in Commands : ~InFlight(c)
  PROVE  WorkInv'
<1>1. TypeOK /\ AttemptInv /\ TakenInv
  BY DEF WorkInv
<1>2. HandOn
  BY DEF HandOn
<1>3. ConnectorOK'
  BY <1>1 DEF TypeOK, ConnectorOK, QueueLess
<1>4. AttemptInv'
  BY <1>1, <1>2, StillFinished, AttemptsGoOn DEF Quiet
<1>5. TakenInv'
  BY <1>1, QuietTaken
<1>6. QED BY <1>3, <1>4, <1>5, ConnectorKeeps DEF Quiet

LEMMA StreamLess ==
  ASSUME TypeOK, StreamLost
  PROVE  QueueLess /\ stream' = "down"
<1>1. queue \in Seq(Attempt_)
  BY DEF TypeOK, ConnectorOK
<1>2. PICK n \in 0..Len(queue) : queue' = SubSeq(queue, 1, n)
  BY DEF StreamLost
<1>3. queue' \in Seq(Attempt_) /\ Len(queue') = n /\ \A m \in 1..n : queue'[m] = queue[m]
  BY <1>1, <1>2, SubSeqProperties
<1>4. \A m \in DOMAIN queue' : m + 0 \in DOMAIN queue /\ queue'[m] = queue[m + 0]
  BY <1>1, <1>3, LenProperties
<1>5. QED BY <1>3, <1>4 DEF QueueLess, StreamLost

LEMMA NextInQueue ==
  ASSUME TypeOK, queue # <<>>
  PROVE  /\ 1 \in DOMAIN queue /\ Head(queue) = queue[1]
         /\ Tail(queue) \in Seq(Attempt_)
         /\ \A n \in DOMAIN Tail(queue) :
              n \in Nat \ {0} /\ n + 1 \in DOMAIN queue /\ Tail(queue)[n] = queue[n + 1]
<1>1. queue \in Seq(Attempt_)
  BY DEF TypeOK, ConnectorOK
<1>2. Len(queue) \in Nat /\ Len(queue) # 0 /\ DOMAIN queue = 1..Len(queue)
  BY <1>1, LenProperties, EmptySeq
<1>3. /\ Tail(queue) \in Seq(Attempt_) /\ Len(Tail(queue)) = Len(queue) - 1
      /\ \A n \in 1..Len(Tail(queue)) : Tail(queue)[n] = queue[n + 1]
  BY <1>1, <1>2, HeadTailProperties
<1>4. DOMAIN Tail(queue) = 1..Len(Tail(queue)) /\ Head(queue) = queue[1]
  BY <1>1, <1>3, LenProperties, HeadTailProperties
<1>5. QED BY <1>2, <1>3, <1>4

LEMMA CommandStepKeeps ==
  ASSUME WorkInv, NEW c \in Commands, CreateCommand(c) \/ RetryOutbox(c) \/ Lapse(c),
         UNCHANGED handling
  PROVE  WorkInv'
<1>1. TypeOK /\ commands \in [Commands -> Command_]
  BY Typed DEF WorkInv
<1>2. UNCHANGED <<address, queue, hand, journal, platform, stream>>
  BY DEF CreateCommand, RetryOutbox, Lapse, connector
<1>3. Fault \/ Command \/ UNCHANGED spent
  BY DEF CreateCommand, RetryOutbox, Lapse
<1>4. Quiet(commands')
  BY <1>1, PendingQuiet, LapseQuiet DEF CreateCommand, RetryOutbox, Lapse
<1>5. ItemsAdvance
  <2>1. CASE inbox' = inbox
    BY <1>1, <2>1, SameItems
  <2>2. CASE RetryOutbox(c) /\ c \in Items
    <3> DEFINE r == [inbox[c] EXCEPT !.state = "awaiting_delivery"]
    <3>1. inbox' = [inbox EXCEPT ![c] = r] /\ inbox[c] \in InboxItem
      BY <1>1, <2>2, Typed DEF RetryOutbox
    <3>2. r \in InboxItem /\ r.state = "awaiting_delivery" /\ r.closed = inbox[c].closed
      BY <3>1, StateSet DEF InboxStates
    <3>3. commands'[c].state = "pending"
      BY <1>1, <2>2, PendingRecord DEF RetryOutbox
    <3>4. Allowed(inbox[c], r, commands'[c])
      BY <3>2, <3>3 DEF Allowed, AnsweredItem
    <3> HIDE DEF r
    <3>5. QED BY <1>1, <2>2, <3>1, <3>2, <3>4, OneItem
  <2>3. QED BY <2>1, <2>2 DEF CreateCommand, RetryOutbox, Lapse
<1>6. QueueLess
  BY <1>1, <1>2, SameAttempts
<1>7. stream' \in {"down", "idle", "outbox", "reads"}
  BY <1>1, <1>2 DEF TypeOK, ConnectorOK
<1>8. stream' \in {"outbox", "reads"} => \A d \in Commands : ~InFlight(d)
  BY <1>2 DEF WorkInv, AttemptInv, SingleFlight
<1>9. QED BY <1>2, <1>3, <1>4, <1>5, <1>6, <1>7, <1>8, StreamStep

LEMMA LinkKeeps ==
  ASSUME WorkInv, Connect \/ Disconnect \/ CheckInFlight, UNCHANGED handling
  PROVE  WorkInv'
<1>1. TypeOK /\ commands \in [Commands -> Command_]
  BY Typed DEF WorkInv
<1>2. UNCHANGED <<address, hand, journal, platform>> /\ (Fault \/ UNCHANGED spent) /\ inbox' = inbox
  BY DEF Connect, Disconnect, CheckInFlight, records
<1>3. Quiet(commands')
  BY <1>1, SameQuiet, RequeuedQuiet DEF Connect, Disconnect, CheckInFlight, records
<1>4. QueueLess
  BY <1>1, <1>2, SameAttempts, StreamLess DEF Connect, Disconnect, CheckInFlight
<1>5. /\ stream' \in {"down", "idle", "outbox"}
      /\ stream' = "outbox" => ~Busy
  BY <1>1, StreamLess DEF Connect, Disconnect, CheckInFlight
<1>6. QED BY <1>1, <1>2, <1>3, <1>4, <1>5, SameItems, StreamStep DEF Busy

(* A claim is a new attempt, with a token that no other has.                   *)
LEMMA ClaimKeeps ==
  ASSUME WorkInv, NEW c \in Commands, Eligible(c), Claim(c), stream \in {"outbox", "reads"},
         UNCHANGED <<handling, inbox, address, hand, journal, platform, spent>>
  PROVE  WorkInv'
<1>1. /\ TypeOK /\ AttemptInv /\ TakenInv /\ ItemInv /\ commands \in [Commands -> Command_]
      /\ queue \in Seq(Attempt_)
  BY Typed DEF WorkInv, TypeOK, ConnectorOK
<1> DEFINE r == [commands[c] EXCEPT !.state = "sending", !.token = @ + 1, !.lapsed = FALSE]
           a == [cmd |-> c, token |-> commands[c].token + 1]
<1>2. /\ r \in Command_ /\ r.state = "sending" /\ r.token = commands[c].token + 1
      /\ commands[c].token \in Nat
      /\ commands' = [commands EXCEPT ![c] = r]
  BY <1>1 DEF Claim, Command_
<1>3. a \in Attempt_ /\ a.cmd = c /\ a.token = commands[c].token + 1 /\ queue' = Append(queue, a)
  BY <1>1, <1>2 DEF Claim, Attempt_
<1> HIDE DEF r, a
<1>4. /\ queue' \in Seq(Attempt_)
      /\ \A n \in DOMAIN queue' : \/ n \in DOMAIN queue /\ queue'[n] = queue[n]
                                  \/ n = Len(queue) + 1 /\ queue'[n] = a
  BY <1>1, <1>3, AppendProperties, LenProperties
<1>5. \A n \in DOMAIN queue : queue[n].cmd \in Commands /\ queue[n].token \in Nat
  BY <1>1, QueuedAttempt
<1>6. \A d \in Commands : d # c => commands'[d] = commands[d]
  BY <1>1, <1>2
<1>7. commands'[c] = r /\ commands' \in [Commands -> Command_]
  BY <1>1, <1>2
<1>8. \A d \in Commands : commands[d].token \in Nat /\ commands'[d].token \in Nat
  BY <1>1, <1>7, CommandFields
<1>9. \A n \in DOMAIN queue : queue[n].token <= commands[queue[n].cmd].token
  BY <1>1 DEF AttemptInv, AttemptsOK
<1>10. hand.phase # "none" => /\ hand.cmd \in Commands /\ hand.token \in Nat
                              /\ hand.token <= commands[hand.cmd].token
  BY <1>1 DEF TypeOK, ConnectorOK, Hand_, AttemptInv, AttemptsOK
<1>11. AttemptsOK'
  <2>1. ASSUME NEW n \in DOMAIN queue' PROVE queue'[n].token <= commands'[queue'[n].cmd].token
    <3>1. CASE n \in DOMAIN queue /\ queue'[n] = queue[n]
      BY <1>2, <1>5, <1>8, <1>6, <1>7, <1>9, <3>1
    <3>2. CASE queue'[n] = a
      BY <1>2, <1>3, <1>8, <1>7, <3>2
    <3>3. QED BY <1>4, <3>1, <3>2
  <2>2. hand'.phase # "none" => hand'.cmd \in Commands /\ hand'.token <= commands'[hand'.cmd].token
    BY <1>2, <1>8, <1>6, <1>7, <1>10
  <2>3. QED BY <2>1, <2>2 DEF AttemptsOK
<1>12. \A n \in DOMAIN queue : queue[n] # a
  BY <1>2, <1>3, <1>5, <1>9
<1>13. AttemptsDistinct'
  <2>1. \A m, n \in DOMAIN queue' : queue'[m] = queue'[n] => m = n
    BY <1>1, <1>4, <1>12 DEF AttemptInv, AttemptsDistinct
  <2>2. hand.phase # "none" => ~(a.cmd = hand.cmd /\ a.token = hand.token)
    BY <1>2, <1>3, <1>10
  <2>3. hand'.phase # "none" =>
          \A n \in DOMAIN queue' : ~(queue'[n].cmd = hand'.cmd /\ queue'[n].token = hand'.token)
    BY <1>1, <1>4, <2>2 DEF AttemptInv, AttemptsDistinct
  <2>4. QED BY <2>1, <2>3 DEF AttemptsDistinct
<1>14. FinishedByItsAttempt'
  <2>1. ASSUME NEW d \in Commands, commands'[d].state \in {"sent", "failed"}
        PROVE  /\ ~(Current(d, hand)' /\ hand'.phase \in {"received", "posted"})
               /\ \A n \in DOMAIN queue' : ~Current(d, queue[n])'
    <3>1. d # c /\ commands'[d] = commands[d]
      BY <1>2, <1>6, <1>7, <2>1
    <3>2. /\ ~(Current(d, hand) /\ hand.phase \in {"received", "posted"})
          /\ \A n \in DOMAIN queue : ~Current(d, queue[n])
      BY <1>1, <2>1, <3>1 DEF AttemptInv, FinishedByItsAttempt
    <3>3. QED BY <1>3, <1>4, <3>1, <3>2 DEF Current
  <2>2. QED BY <2>1 DEF FinishedByItsAttempt
<1>15. SingleFlight'
  <2>1. \A d \in Commands : ~InFlight(d)
    BY <1>1 DEF AttemptInv, SingleFlight
  <2>2. stream' = "idle"
    BY DEF Claim
  <2>3. QED BY <1>6, <2>1, <2>2 DEF SingleFlight, OneCommandInFlight, InFlight
<1>16. AttemptInv'
  BY <1>11, <1>13, <1>14, <1>15 DEF AttemptInv
<1>17. TakenInv'
  <2>1. \A d \in Outbox : d \in Commands
    BY DEF Commands
  <2>2. QED BY <1>1, <1>2, <1>6, <1>7, <2>1 DEF TakenInv, Sent
<1>18. ItemInv'
  <2>1. \A i \in Items : i \in Commands
    BY DEF Commands, Outbox
  <2>2. commands[c].state # "sent" /\ commands[c].state # "unused"
    BY DEF Eligible, Lapsed
  <2>3. QED BY <1>1, <1>2, <1>6, <1>7, <2>1, <2>2 DEF ItemInv
<1>19. ConnectorOK'
  <2>1. stream' = "idle"
    BY DEF Claim
  <2>2. QED BY <1>1, <1>4, <2>1 DEF TypeOK, ConnectorOK
<1>20. RecordsOK' /\ HandlingOK' /\ BudgetOK'
  BY <1>1, <1>7, SameHandling, SpentFits DEF TypeOK, RecordsOK
<1>21. QED BY <1>16, <1>17, <1>18, <1>19, <1>20 DEF WorkInv, TypeOK

LEMMA ClaimStepKeeps ==
  ASSUME WorkInv, ClaimNextOutbox \/ ClaimNextProviderOperation, UNCHANGED handling
  PROVE  WorkInv'
<1>1. TypeOK /\ commands \in [Commands -> Command_]
  BY Typed DEF WorkInv
<1>2. /\ stream \in {"outbox", "reads"}
      /\ UNCHANGED <<inbox, address, hand, journal, platform, spent>>
  BY DEF ClaimNextOutbox, ClaimNextProviderOperation, ClaimIn
<1>3. CASE \E c \in Commands : Eligible(c) /\ Claim(c)
  BY <1>2, <1>3, ClaimKeeps
<1>4. CASE \E scope : commands' = Requeued(commands, scope) /\ stream' \in {"idle", "reads"} /\ UNCHANGED queue
  <2>1. Quiet(commands')
    BY <1>1, <1>4, RequeuedQuiet
  <2>2. QueueLess /\ ItemsAdvance
    BY <1>1, <1>2, <1>4, SameAttempts, SameItems
  <2>3. \A c \in Commands : ~InFlight(c)
    BY <1>2 DEF WorkInv, AttemptInv, SingleFlight
  <2>4. QED BY <1>2, <1>4, <2>1, <2>2, <2>3, StreamStep
<1>5. QED BY <1>3, <1>4 DEF ClaimNextOutbox, ClaimNextProviderOperation, ClaimIn, Commands

----------------------------------------------------------------------------
(* The gateway. *)

NowSent(c) == \E m \in platform' : m[1] = c

LEMMA HandFields ==
  ASSUME TypeOK
  PROVE  /\ hand.phase \in {"none", "received", "posted", "ok", "failed"}
         /\ hand.cmd \in Commands \cup {NoItem} /\ hand.token \in Nat
         /\ EmptyHand \in Hand_ /\ EmptyHand.phase = "none"
         /\ journal.known \in SUBSET Outbox /\ journal.saved \in SUBSET Outbox
BY DEF TypeOK, ConnectorOK, Hand_, EmptyHand

LEMMA HandSet ==
  ASSUME TypeOK, NEW phase \in {"received", "posted", "ok", "failed"}, SetHand(phase)
  PROVE  /\ hand' \in Hand_ /\ hand'.phase = phase
         /\ hand'.cmd = hand.cmd /\ hand'.token = hand.token
BY DEF TypeOK, ConnectorOK, Hand_, SetHand

LEMMA AcceptedTypes ==
  ASSUME TypeOK, hand.cmd \in Outbox, Accepted(hand.cmd, hand.token)
  PROVE  platform' \subseteq Outbox \X Nat /\ platform \subseteq platform' /\ NowSent(hand.cmd)
<1> DEFINE m == <<hand.cmd, Key(hand.cmd, hand.token)>>
<1>1. m \in Outbox \X Nat /\ m[1] = hand.cmd
  BY HandFields DEF Key
<1>2. platform' = platform \cup {m} /\ platform \subseteq Outbox \X Nat
  BY DEF Accepted, TypeOK, ConnectorOK
<1> HIDE DEF m
<1>3. \E k \in platform' : k[1] = hand.cmd
  BY <1>1, <1>2
<1>4. QED BY <1>1, <1>2, <1>3 DEF Sent, NowSent

(* A step of the gateway changes no record; it may only add to the platform.   *)
LEMMA GatewayKeeps ==
  ASSUME WorkInv, UNCHANGED <<handling, records>>, Fault \/ UNCHANGED spent,
         QueueLess, HandOn, hand' \in Hand_,
         stream' = stream \/ stream' = "down",
         journal' \in [{"known", "saved"} -> SUBSET Outbox],
         platform' \subseteq Outbox \X Nat, platform \subseteq platform',
         hand'.phase = "posted" => hand'.cmd \in Outbox,
         hand'.phase \in {"posted", "ok"} /\ hand'.cmd \in Outbox => NowSent(hand'.cmd),
         \A c \in journal'.known \cup journal'.saved : NowSent(c)
  PROVE  WorkInv'
<1>1. TypeOK /\ AttemptInv /\ TakenInv /\ address' = address /\ inbox' = inbox /\ commands' = commands
  BY DEF WorkInv, records
<1>2. Quiet(commands') /\ ItemsAdvance
  BY <1>1, SameCommands, SameItems
<1>3. ConnectorOK'
  BY <1>1 DEF TypeOK, ConnectorOK, QueueLess
<1>4. AttemptInv'
  <2>1. stream' \in {"outbox", "reads"} => \A c \in Commands : ~InFlight(c)
    BY <1>1 DEF AttemptInv, SingleFlight
  <2>2. QED BY <1>1, <1>2, <2>1, StillFinished, AttemptsGoOn DEF Quiet
<1>5. TakenInv'
  <2>1. \A c \in Outbox : commands'[c].state = "sent" => NowSent(c)
    BY <1>1 DEF TakenInv, Sent, NowSent
  <2>2. QED BY <2>1 DEF TakenInv, Sent, NowSent
<1>6. QED BY <1>1, <1>2, <1>3, <1>4, <1>5, ConnectorKeeps DEF Quiet

LEMMA SentStays ==
  ASSUME platform \subseteq platform', NEW c, Sent(c)
  PROVE  NowSent(c)
BY DEF Sent, NowSent

LEMMA PostKeeps ==
  ASSUME WorkInv, Post \/ PostFails, UNCHANGED handling
  PROVE  WorkInv'
<1>1. TypeOK /\ TakenInv
  BY DEF WorkInv
<1>2. /\ hand.phase = "received" /\ UNCHANGED <<records, stream, queue, journal>>
      /\ Fault \/ UNCHANGED spent
  BY DEF Post, PostFails
<1>3. PICK phase \in {"posted", "ok", "failed"} : SetHand(phase)
  BY DEF Post, PostFails
<1>4. /\ hand' \in Hand_ /\ hand'.phase = phase
      /\ hand'.cmd = hand.cmd /\ hand'.token = hand.token
  BY <1>1, <1>3, HandSet
<1>5. HandOn /\ QueueLess
  BY <1>1, <1>2, <1>4, SameQueue DEF HandOn
<1>6. /\ platform' \subseteq Outbox \X Nat /\ platform \subseteq platform'
      /\ phase = "posted" => hand.cmd \in Outbox /\ NowSent(hand.cmd)
  <2>1. CASE platform' = platform /\ phase # "posted"
    BY <1>1, <2>1 DEF TypeOK, ConnectorOK
  <2>2. CASE hand.cmd \in Outbox /\ Accepted(hand.cmd, hand.token)
    BY <1>1, <2>2, AcceptedTypes
  <2>3. QED BY <1>3, <1>4, <2>1, <2>2, HandSet, <1>1 DEF Post, PostFails, ToSend
<1>7. phase = "ok" /\ hand.cmd \in Outbox => NowSent(hand.cmd)
  <2>1. SUFFICES ASSUME phase = "ok", hand.cmd \in Outbox PROVE NowSent(hand.cmd)
    OBVIOUS
  <2>2. hand.cmd \in journal.known
    BY <1>1, <1>4, <2>1, HandSet DEF Post, PostFails, ToSend
  <2>3. QED BY <1>1, <1>6, <2>2, SentStays DEF TakenInv
<1>8. \A c \in journal'.known \cup journal'.saved : NowSent(c)
  BY <1>1, <1>2, <1>6, SentStays DEF TakenInv
<1>9. journal' \in [{"known", "saved"} -> SUBSET Outbox]
  BY <1>1, <1>2 DEF TypeOK, ConnectorOK
<1>10. QED BY <1>2, <1>4, <1>5, <1>6, <1>7, <1>8, <1>9, GatewayKeeps

LEMMA JournalKeeps ==
  ASSUME WorkInv, Journal \/ JournalFails, UNCHANGED handling
  PROVE  WorkInv'
<1>1. TypeOK /\ TakenInv
  BY DEF WorkInv
<1>2. /\ hand.phase = "posted" /\ UNCHANGED <<records, stream, queue, platform>>
      /\ Fault \/ UNCHANGED spent
  BY DEF Journal, JournalFails
<1>3. PICK phase \in {"ok", "failed"} : SetHand(phase)
  BY DEF Journal, JournalFails
<1>4. /\ hand' \in Hand_ /\ hand'.phase = phase
      /\ hand'.cmd = hand.cmd /\ hand'.token = hand.token
  BY <1>1, <1>3, HandSet
<1>5. QueueLess /\ HandOn
  BY <1>1, <1>2, <1>4, SameQueue DEF HandOn
<1>6. hand.cmd \in Outbox /\ Sent(hand.cmd)
  BY <1>1, <1>2 DEF TakenInv
<1>7. /\ journal' \in [{"known", "saved"} -> SUBSET Outbox]
      /\ journal'.known \cup journal'.saved
           \subseteq journal.known \cup journal.saved \cup {hand.cmd}
  <2>1. CASE Journal
    BY <1>1, <1>6, <2>1, HandFields DEF Journal, Remembered
  <2>2. CASE JournalFails
    BY <1>1, <1>6, <2>2 DEF JournalFails, Remembered, TypeOK, ConnectorOK
  <2>3. QED BY <2>1, <2>2
<1>8. \A c \in journal'.known \cup journal'.saved : NowSent(c)
  BY <1>1, <1>2, <1>6, <1>7 DEF TakenInv, Sent, NowSent
<1>9. platform' \subseteq Outbox \X Nat /\ platform \subseteq platform' /\ NowSent(hand.cmd)
  BY <1>1, <1>2, <1>6, SentStays DEF TypeOK, ConnectorOK
<1>10. QED BY <1>2, <1>4, <1>5, <1>7, <1>8, <1>9, GatewayKeeps

LEMMA DeathKeeps ==
  ASSUME WorkInv, GatewayDies, UNCHANGED handling
  PROVE  WorkInv'
<1>1. TypeOK /\ TakenInv
  BY DEF WorkInv
<1>2. /\ hand' = EmptyHand /\ queue' = <<>> /\ stream' = "down" /\ UNCHANGED <<records, platform>>
      /\ journal' = [journal EXCEPT !.known = journal.saved] /\ Fault
  BY DEF GatewayDies
<1>3. QueueLess
  BY <1>2, EmptySeq DEF QueueLess
<1>4. /\ journal' \in [{"known", "saved"} -> SUBSET Outbox]
      /\ journal'.known \cup journal'.saved \subseteq journal.saved
  BY <1>1, <1>2 DEF TypeOK, ConnectorOK
<1>5. \A c \in journal'.known \cup journal'.saved : NowSent(c)
  BY <1>1, <1>2, <1>4 DEF TakenInv, Sent, NowSent
<1>6. /\ HandOn /\ hand' \in Hand_ /\ hand'.phase = "none"
      /\ platform' \subseteq Outbox \X Nat /\ platform \subseteq platform'
  BY <1>1, <1>2, HandFields DEF HandOn, TypeOK, ConnectorOK
<1>7. QED BY <1>2, <1>3, <1>4, <1>5, <1>6, GatewayKeeps

(* A command moves from the stream to the gateway, still in one place.         *)
LEMMA ReceiveKeeps ==
  ASSUME WorkInv, Receive, UNCHANGED handling
  PROVE  WorkInv'
<1>1. /\ TypeOK /\ AttemptInv /\ TakenInv
      /\ UNCHANGED <<commands, inbox, address, stream, journal, platform, spent>>
  BY DEF WorkInv, Receive, records
<1> DEFINE a == queue[1]
<1>2. /\ 1 \in DOMAIN queue /\ Head(queue) = a
      /\ queue' = Tail(queue) /\ queue' \in Seq(Attempt_)
      /\ \A n \in DOMAIN queue' :
           n \in Nat \ {0} /\ n + 1 \in DOMAIN queue /\ queue'[n] = queue[n + 1]
  BY <1>1, NextInQueue DEF Receive
<1>3. a \in Attempt_ /\ a.cmd \in Commands /\ a.token \in Nat
  BY <1>1, <1>2, QueuedAttempt
<1>4. /\ hand' = [phase |-> "received", cmd |-> a.cmd, token |-> a.token]
      /\ hand' \in Hand_ /\ hand'.phase = "received" /\ hand'.cmd = a.cmd /\ hand'.token = a.token
  BY <1>2, <1>3 DEF Receive, Hand_
<1>5. \A n \in DOMAIN queue : queue[n].cmd = a.cmd /\ queue[n].token = a.token => n = 1
  <2>1. SUFFICES ASSUME NEW n \in DOMAIN queue, queue[n].cmd = a.cmd, queue[n].token = a.token
                 PROVE  n = 1
    OBVIOUS
  <2>2. queue[n] \in Attempt_
    BY <1>1, QueuedAttempt
  <2>3. queue[n] = a
    BY <1>3, <2>1, <2>2 DEF Attempt_
  <2>4. QED BY <1>1, <1>2, <2>3 DEF AttemptInv, AttemptsDistinct
<1> HIDE DEF a
<1>6. AttemptsOK'
  <2>1. \A n \in DOMAIN queue : queue[n].token <= commands[queue[n].cmd].token
    BY <1>1 DEF AttemptInv, AttemptsOK
  <2>2. a.token <= commands[a.cmd].token
    BY <1>2, <2>1 DEF a
  <2>3. QED BY <1>1, <1>2, <1>3, <1>4, <2>1, <2>2 DEF AttemptsOK
<1>7. AttemptsDistinct'
  <2>1. \A m, n \in DOMAIN queue' : queue'[m] = queue'[n] => m = n
    <3>1. SUFFICES ASSUME NEW m \in DOMAIN queue', NEW n \in DOMAIN queue', queue'[m] = queue'[n]
                   PROVE  m = n
      OBVIOUS
    <3>2. m + 1 = n + 1
      BY <1>1, <1>2, <3>1 DEF AttemptInv, AttemptsDistinct
    <3>3. QED BY <1>2, <3>2
  <2>2. ASSUME NEW n \in DOMAIN queue'
        PROVE  ~(queue'[n].cmd = hand'.cmd /\ queue'[n].token = hand'.token)
    <3>1. n + 1 # 1
      BY <1>2
    <3>2. QED BY <1>2, <1>4, <1>5, <3>1
  <2>3. QED BY <2>1, <2>2 DEF AttemptsDistinct
<1>8. FinishedByItsAttempt'
  <2>1. ASSUME NEW c \in Commands, commands'[c].state \in {"sent", "failed"}
        PROVE  /\ ~(Current(c, hand)' /\ hand'.phase \in {"received", "posted"})
               /\ \A n \in DOMAIN queue' : ~Current(c, queue[n])'
    <3>1. \A n \in DOMAIN queue : ~Current(c, queue[n])
      BY <1>1, <2>1 DEF AttemptInv, FinishedByItsAttempt
    <3>2. ~Current(c, a)
      BY <1>2, <3>1 DEF a
    <3>3. QED BY <1>1, <1>2, <1>4, <3>1, <3>2 DEF Current
  <2>2. QED BY <2>1 DEF FinishedByItsAttempt
<1>9. SingleFlight'
  BY <1>1 DEF AttemptInv, SingleFlight, OneCommandInFlight, InFlight
<1>10. TakenInv'
  BY <1>1, <1>4 DEF TakenInv, Sent
<1>11. ConnectorOK'
  BY <1>1, <1>2, <1>4 DEF TypeOK, ConnectorOK
<1>12. Moves(commands') /\ ItemsAdvance
  BY <1>1, SameCommands, SameItems DEF Quiet
<1>13. QED BY <1>1, <1>6, <1>7, <1>8, <1>9, <1>10, <1>11, <1>12, ConnectorKeeps DEF AttemptInv

LEMMA EndedRecord ==
  ASSUME commands \in [Commands -> Command_], NEW c \in Commands, NEW success \in BOOLEAN,
         commands[c].state = "sending"
  PROVE  /\ Moves(Ended(c, success))
         /\ \A d \in Commands : d # c => Ended(c, success)[d] = commands[d]
         /\ Ended(c, success)[c].state = "sent" => success
<1> DEFINE r == [commands[c] EXCEPT !.state = IF success THEN "sent" ELSE "failed", !.lapsed = FALSE]
<1>1. /\ r \in Command_ /\ r.state \in {"sent", "failed"} /\ r.token = commands[c].token
      /\ r.state = "sent" => success
  BY DEF Command_
<1>2. Ended(c, success) = [commands EXCEPT ![c] = r]
  BY DEF Ended
<1> HIDE DEF r
<1>3. QED BY <1>1, <1>2 DEF Moves, InFlight

(* A result is taken in full, in part or not at all; the gateway drops the     *)
(* attempt or keeps it as failed.                                              *)
LEMMA ResultKeeps ==
  ASSUME WorkInv, Reporting, UNCHANGED <<handling, address, stream, queue, platform>>,
         Fault \/ UNCHANGED spent,
         commands' = commands \/ CommandCompleted(hand, hand.phase = "ok"),
         inbox' = inbox \/ ItemReconciled(hand),
         hand' = EmptyHand \/ SetHand("failed"),
         journal' = journal \/ journal' = Forgotten(hand.cmd)
  PROVE  WorkInv'
<1> DEFINE c == hand.cmd
           success == hand.phase = "ok"
<1>1. /\ TypeOK /\ AttemptInv /\ TakenInv /\ commands \in [Commands -> Command_]
      /\ inbox \in [Items -> InboxItem]
  BY Typed DEF WorkInv
<1>2. c \in Commands /\ hand.phase \in {"ok", "failed"}
  BY <1>1 DEF Reporting, AttemptInv, AttemptsOK
<1>3. /\ hand' \in Hand_ /\ hand'.phase \in {"none", "failed"}
      /\ HandOn
  BY <1>1, <1>2, HandFields, HandSet DEF HandOn
<1>4. QueueLess
  BY <1>1, SameQueue
<1>5. \/ commands' = commands
      \/ /\ Completes(hand) /\ commands' = Ended(c, success)
         /\ commands[c].state = "sending" /\ Current(c, hand)
  BY DEF CommandCompleted, Completes
<1>6. /\ Moves(commands')
      /\ \A d \in Commands : d # c => commands'[d] = commands[d]
      /\ commands' # commands => /\ Current(c, hand) /\ (commands'[c].state = "sent" => success)
  <2>1. CASE commands' = commands
    BY <1>1, <2>1, SameCommands DEF Quiet
  <2>2. CASE commands[c].state = "sending" /\ Current(c, hand) /\ commands' = Ended(c, success)
    <3>1. success \in BOOLEAN
      OBVIOUS
    <3> HIDE DEF success
    <3>2. /\ Moves(Ended(c, success))
          /\ \A d \in Commands : d # c => Ended(c, success)[d] = commands[d]
          /\ Ended(c, success)[c].state = "sent" => success
      BY <1>1, <1>2, <2>2, <3>1, EndedRecord
    <3>3. QED BY <2>2, <3>2
  <2>3. QED BY <1>5, <2>1, <2>2
<1>7. FinishedByItsAttempt'
  <2>1. ASSUME NEW d \in Commands, commands'[d].state \in {"sent", "failed"}
        PROVE  /\ ~(Current(d, hand)' /\ hand'.phase \in {"received", "posted"})
               /\ \A n \in DOMAIN queue' : ~Current(d, queue[n])'
    <3>1. commands'[d].token = commands[d].token
      BY <1>6 DEF Moves
    <3>2. \A n \in DOMAIN queue : ~Current(d, queue[n])
      <4>1. CASE commands'[d] = commands[d]
        BY <1>1, <2>1, <4>1 DEF AttemptInv, FinishedByItsAttempt
      <4>2. CASE d = c /\ Current(c, hand)
        BY <1>1, <1>2, <4>2 DEF AttemptInv, AttemptsDistinct, Current
      <4>3. QED BY <1>6, <4>1, <4>2
    <3>3. QED BY <1>3, <3>1, <3>2 DEF Current
  <2>2. QED BY <2>1 DEF FinishedByItsAttempt
<1>8. AttemptInv'
  <2>1. stream' \in {"outbox", "reads"} => \A d \in Commands : ~InFlight(d)
    BY <1>1 DEF AttemptInv, SingleFlight
  <2>2. QED BY <1>1, <1>3, <1>4, <1>6, <1>7, <2>1, AttemptsGoOn
<1>9. /\ journal' \in [{"known", "saved"} -> SUBSET Outbox]
      /\ journal'.known \cup journal'.saved \subseteq journal.known \cup journal.saved
  BY <1>1, HandFields DEF Forgotten, TypeOK, ConnectorOK
<1>10. TakenInv'
  <2>1. ASSUME NEW d \in Outbox, commands'[d].state = "sent" PROVE Sent(d)'
    <3>1. d \in Commands
      BY DEF Commands
    <3>2. commands[d].state = "sent" \/ (d = c /\ success)
      BY <1>6, <2>1, <3>1
    <3>3. Sent(d)
      BY <1>1, <3>2 DEF TakenInv
    <3>4. QED BY <3>3 DEF Sent
  <2>2. \A d \in journal'.known \cup journal'.saved : Sent(d)'
    BY <1>1, <1>9 DEF TakenInv, Sent
  <2>3. QED BY <1>3, <2>1, <2>2 DEF TakenInv
<1>11. ItemsAdvance
  <2>1. CASE inbox' = inbox
    BY <1>1, <2>1, SameItems
  <2>2. CASE inbox' # inbox
    <3> DEFINE r == Reconciled(inbox[c], commands'[c])
    <3>1. c \in Items /\ inbox' = [inbox EXCEPT ![c] = r]
      BY <2>2 DEF ItemReconciled
    <3>2. r \in InboxItem /\ Allowed(inbox[c], r, commands'[c])
      BY <1>1, <3>1, ReconciledRecord
    <3> HIDE DEF r
    <3>3. QED BY <1>1, <3>1, <3>2, OneItem
  <2>3. QED BY <2>1, <2>2
<1>12. ConnectorOK'
  BY <1>1, <1>3, <1>9 DEF TypeOK, ConnectorOK
<1>13. QED BY <1>6, <1>8, <1>10, <1>11, <1>12, ConnectorKeeps

LEMMA ReportKeeps ==
  ASSUME WorkInv, Report \/ ReportUnanswered, UNCHANGED handling
  PROVE  WorkInv'
BY ResultKeeps DEF Report, ReportUnanswered, Completed

----------------------------------------------------------------------------
(* The whole. *)

LEMMA CrashKeeps ==
  ASSUME WorkInv, Crash
  PROVE  WorkInv'
<1>1. /\ TypeOK /\ AttemptInv /\ TakenInv /\ ItemInv /\ inbox \in [Items -> InboxItem]
      /\ UNCHANGED <<commands, address, hand, journal, platform>>
  BY Typed DEF WorkInv, Crash
<1>2. QueueLess /\ stream' = "down"
  BY <1>1, StreamLess DEF Crash
<1>3. HandOn /\ Quiet(commands')
  BY <1>1, SameCommands DEF HandOn
<1>4. ItemsAdvance
  <2>1. ASSUME NEW i \in Items
        PROVE  /\ Reconciled(Loaded(inbox[i]), commands[i]) \in InboxItem
               /\ Allowed(inbox[i], Reconciled(Loaded(inbox[i]), commands[i]), commands[i])
    <3> DEFINE x == inbox[i]
               y == Loaded(x)
               z == Reconciled(y, commands[i])
    <3>1. y \in InboxItem /\ Allowed(x, y, commands[i])
      BY <1>1, LoadedRecord
    <3> HIDE DEF y
    <3>2. z \in InboxItem /\ Allowed(y, z, commands[i])
      BY <3>1, ReconciledRecord
    <3> HIDE DEF z
    <3>3. Allowed(x, z, commands[i])
      BY <3>1, <3>2 DEF Allowed
    <3>4. QED BY <3>2, <3>3 DEF y, z
  <2>2. inbox' = [i \in Items |-> Reconciled(Loaded(inbox[i]), commands[i])]
    BY DEF Crash
  <2>3. QED BY <1>1, <2>1, <2>2 DEF ItemsAdvance
<1>5. HandlingOK'
  <2>1. IdleWorker \in Worker_ /\ NoTurn \in Turn_
    BY <1>1, WorkerRecords DEF NoTurn, Turn_, Policies
  <2>2. workers' = [w \in Workers |-> IdleWorker] /\ turn' = NoTurn /\ unsaved' = {}
    BY DEF Crash
  <2>3. QED BY <2>1, <2>2 DEF HandlingOK
<1>6. AttemptInv'
  BY <1>1, <1>2, <1>3, StillFinished, AttemptsGoOn DEF Quiet
<1>7. TakenInv'
  BY <1>1, <1>3, QuietTaken
<1>8. ItemInv'
  BY <1>1, <1>4, ItemsKept
<1>9. TypeOK'
  <2>1. BudgetOK'
    BY <1>1, SpentFits DEF Crash, TypeOK
  <2>2. RecordsOK' /\ ConnectorOK'
    BY <1>1, <1>2, <1>4 DEF TypeOK, RecordsOK, ConnectorOK, QueueLess, ItemsAdvance
  <2>3. QED BY <1>5, <2>1, <2>2 DEF TypeOK
<1>10. QED BY <1>6, <1>7, <1>8, <1>9 DEF WorkInv

LEMMA ConnectorStepKeeps ==
  ASSUME WorkInv, ConnectorStep, UNCHANGED handling
  PROVE  WorkInv'
<1>1. ASSUME NEW c \in Commands, CreateCommand(c) \/ RetryOutbox(c) \/ Lapse(c)
      PROVE  WorkInv'
  BY <1>1, CommandStepKeeps
<1>2. CASE Connect \/ Disconnect \/ CheckInFlight
  BY <1>2, LinkKeeps
<1>3. CASE ClaimNextOutbox \/ ClaimNextProviderOperation
  BY <1>3, ClaimStepKeeps
<1>4. CASE Receive
  BY <1>4, ReceiveKeeps
<1>5. CASE Post \/ PostFails
  BY <1>5, PostKeeps
<1>6. CASE Journal \/ JournalFails
  BY <1>6, JournalKeeps
<1>7. CASE Report \/ ReportUnanswered
  BY <1>7, ReportKeeps
<1>8. CASE GatewayDies
  BY <1>8, DeathKeeps
<1>9. QED
  BY <1>1, <1>2, <1>3, <1>4, <1>5, <1>6, <1>7, <1>8
     DEF ConnectorStep, ClaimStep, GatewayStep, GatewayFault

LEMMA NextKeeps ==
  ASSUME WorkInv, [Next]_vars
  PROVE  WorkInv'
<1>1. CASE InboxStep /\ UNCHANGED connector
  BY <1>1, InboxKeepsInv
<1>2. CASE ConnectorStep /\ UNCHANGED handling
  BY <1>2, ConnectorStepKeeps
<1>3. CASE UpdateAddress /\ UNCHANGED <<handling, connector>>
  BY <1>3, AddressKeepsInv
<1>4. CASE Crash
  BY <1>4, CrashKeeps
<1>5. CASE UNCHANGED vars
  <2>1. /\ TypeOK /\ UNCHANGED <<inbox, commands, address, handling, connector, spent>>
    BY <1>5 DEF vars, records, WorkInv
  <2>2. HandlingOK' /\ ItemsAdvance /\ Quiet(commands')
    BY <2>1, SameHandling, SameItems, SameCommands
  <2>3. BudgetOK' /\ address' \in [enabled: BOOLEAN, policy: Policies]
    BY <2>1, SpentFits DEF TypeOK, RecordsOK
  <2>4. QED BY <2>1, <2>2, <2>3, QuietStep
<1>6. QED BY <1>1, <1>2, <1>3, <1>4, <1>5 DEF Next

LEMMA InitHolds ==
  ASSUME Init
  PROVE  WorkInv
<1> DEFINE u == [state |-> "unused", token |-> 0, lapsed |-> FALSE]
           v == [state |-> "unused", outcome |-> "", closed |-> ""]
<1>1. /\ u \in Command_ /\ u.state = "unused"
      /\ v \in InboxItem /\ v.state = "unused" /\ v.closed = ""
  BY DEF Command_, InboxItem, InboxStates, Outcomes
<1>2. commands = [c \in Commands |-> u] /\ inbox = [i \in Items |-> v]
  BY DEF Init, RecordsInit
<1> HIDE DEF u, v
<1>3. /\ stream = "down" /\ queue = <<>> /\ hand = EmptyHand /\ platform = {}
      /\ journal = [known |-> {}, saved |-> {}]
  BY DEF Init, ConnectorInit
<1>4. EmptyHand \in Hand_ /\ EmptyHand.phase = "none" /\ DOMAIN queue = {}
  BY <1>3 DEF EmptyHand, Hand_
<1>5. TypeOK
  <2>1. RecordsOK
    BY <1>1, <1>2 DEF RecordsOK, Init, RecordsInit
  <2>2. HandlingOK
    BY DEF HandlingOK, Init, HandlingInit, IdleWorker, NoTurn, Worker_, Turn_, Policies
  <2>3. ConnectorOK
    BY <1>3, <1>4 DEF ConnectorOK
  <2>4. BudgetOK
    BY BudgetAssumption DEF BudgetOK, Init, BudgetInit
  <2>5. QED BY <2>1, <2>2, <2>3, <2>4 DEF TypeOK
<1>6. AttemptInv
  <2>1. AttemptsOK /\ AttemptsDistinct
    BY <1>3, <1>4 DEF AttemptsOK, AttemptsDistinct
  <2>2. FinishedByItsAttempt /\ SingleFlight
    BY <1>1, <1>2, <1>3 DEF FinishedByItsAttempt, SingleFlight, OneCommandInFlight, InFlight
  <2>3. QED BY <2>1, <2>2 DEF AttemptInv
<1>7. TakenInv
  BY <1>1, <1>2, <1>3, <1>4 DEF TakenInv, Commands
<1>8. ItemInv
  BY <1>1, <1>2 DEF ItemInv, AnsweredItem
<1>9. QED BY <1>5, <1>6, <1>7, <1>8 DEF WorkInv

(* The inductive invariant of external work. *)
THEOREM WorkInvariant == Spec => []WorkInv
<1>1. Init => WorkInv
  BY InitHolds
<1>2. WorkInv /\ [Next]_vars => WorkInv'
  BY NextKeeps
<1>3. QED BY <1>1, <1>2, PTL DEF Spec

(* Records, workers, Turn, stream, gateway and platform keep their types.      *)
THEOREM TypesKept == Spec => []TypeOK
<1>1. WorkInv => TypeOK
  BY DEF WorkInv
<1>2. QED BY <1>1, WorkInvariant, PTL

(* The claims of outbox.go and provider_operation.go never put two commands of *)
(* a Connection in flight.                                                     *)
THEOREM OneInFlight == Spec => []OneCommandInFlight
<1>1. WorkInv => OneCommandInFlight
  BY DEF WorkInv, AttemptInv, SingleFlight
<1>2. QED BY <1>1, WorkInvariant, PTL

(* A result that the Hub accepts (CompleteOutbox) ends the command's last      *)
(* attempt, which nobody is still to carry out.                                *)
THEOREM ResultsEndTheirAttempt == Spec => []FinishedByItsAttempt
<1>1. WorkInv => FinishedByItsAttempt
  BY DEF WorkInv, AttemptInv
<1>2. QED BY <1>1, WorkInvariant, PTL

(* No item is closed as answered before the platform has taken its reply.      *)
THEOREM HandledAfterSending == Spec => []HandledReplyWasSent
<1>1. WorkInv => HandledReplyWasSent
  <2>1. Items \subseteq Outbox
    BY DEF Outbox
  <2>2. QED BY <2>1 DEF WorkInv, ItemInv, TakenInv, AnsweredItem, HandledReplyWasSent
<1>2. QED BY <1>1, WorkInvariant, PTL

(* An item that waits for a delivery has a reply to wait for.                  *)
THEOREM AwaitingItemsHaveReplies == Spec => []AwaitingHasReply
<1>1. WorkInv => AwaitingHasReply
  BY DEF WorkInv, ItemInv, AwaitingHasReply
<1>2. QED BY <1>1, WorkInvariant, PTL
=============================================================================
