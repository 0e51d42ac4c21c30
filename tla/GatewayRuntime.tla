---------------------------- MODULE GatewayRuntime ----------------------------
(***************************************************************************)
(* What the gateways gateway/slack.mjs, lark.mjs and parall.mjs have in    *)
(* common.  A gateway is one process: its tasks (the receiving of events,  *)
(* a monitor for each message it took in, the command loop) interleave at  *)
(* their awaits and share one state object, which persistState writes to   *)
(* the state file, one write after the other.  A crash keeps the file.     *)
(*                                                                         *)
(* The Hub (inbox, reply) and the platform (source, mark, posted) are the  *)
(* gateway's surroundings, modelled from the calls the gateways make.      *)
(***************************************************************************)
EXTENDS Naturals, Sequences, FiniteSets

CONSTANTS
  Events,     \* what the platform hands out: envelopes, events, dispatches
  Messages,   \* the messages these are about
  MessageOf,  \* Slack: a mention arrives as two envelopes of one message
  Noise,      \* events about what is no message for an Agent (a bot, an edit)
  Replies,    \* items of the Hub's outbox
  Parts,      \* how many posts a reply takes on Slack: its text, its attachments
  Handlers,   \* calls that take in an event at the same time
  MaxFaults   \* bound on crashes, failed calls, failed writes and retries

ASSUME GatewayAssumption ==
  /\ MessageOf \in [Events -> Messages] /\ Noise \subseteq Events
  /\ Parts \in [Replies -> Nat \ {0}] /\ Handlers # {} /\ MaxFaults \in Nat

VARIABLES
  provider, \* which of the gateways this is
  up,       \* the process runs
  state,    \* the state object in memory
  disk,     \* the state file
  saves,    \* stateWrite: the tasks that wait for a write, in order
  image,    \* what the write in progress holds, or NoImage
  ingest,   \* the event each handler takes in, and how far it is
  catchUp,  \* Parall: how far the listing of waiting dispatches is
  monitor,  \* the monitor of each message
  hand,     \* the reply the command loop sends
  source,   \* each event at the platform
  mark,     \* messages the platform shows as being read: eyes, OnIt, received
  posted,   \* how often each part of a reply was posted
  inbox,    \* the Hub's inbox item of each message
  refuses,  \* messages the Hub answers with an error until somebody changes that
  reply,    \* the Hub's outbox item
  spent     \* faults so far

gateway == <<up, state, disk, saves, image, ingest, monitor, hand>>
outside == <<source, mark, posted, inbox, reply>>
vars == <<provider, gateway, catchUp, outside, refuses, spent>>

(* A step that has to do with neither the catch-up nor what the Hub refuses.  *)
Rest(step) == step /\ UNCHANGED <<catchUp, refuses>>

Nobody  == [event |-> "none", pc |-> "none"]
NoHand  == [reply |-> "none", pc |-> "none"]
Due     == [phase |-> "due", left |-> {}]
NoImage == [pending |-> <<>>, seen |-> {}, monitors |-> <<>>, sent |-> <<>>]

(* readState, and the members the gateways add to what they read.            *)
FreshState == [pending |-> <<>>, seen |-> {},
               monitors |-> [m \in Messages |-> "none"], sent |-> [r \in Replies |-> 0]]

Fault == spent < MaxFaults /\ spent' = spent + 1

RuntimeInit ==
  /\ up = TRUE /\ state = FreshState /\ disk = FreshState /\ saves = <<>> /\ image = NoImage
  /\ ingest = [h \in Handlers |-> Nobody]
  /\ monitor = [m \in Messages |-> "none"] /\ hand = NoHand
  /\ mark = {} /\ posted = [r \in Replies |-> [n \in 1..Parts[r] |-> 0]]
  /\ inbox = [m \in Messages |-> "none"] /\ catchUp = Due /\ refuses = {}

----------------------------------------------------------------------------
(* The state file.                                                            *)

(* persistState: the write is queued behind those before it. *)
Save(task) == saves' = Append(saves, task)

(* The queued write begins: it holds the state object as it is now.           *)
BeginWrite ==
  /\ up /\ saves # <<>> /\ image = NoImage
  /\ image' = state
  /\ UNCHANGED <<provider, up, state, disk, saves, ingest, monitor, hand, outside, spent>>

(* writeState: a new file is written and renamed over the old one.            *)
WriteEnds == saves # <<>> /\ image # NoImage /\ saves' = Tail(saves) /\ image' = NoImage

Wrote(task) == up /\ WriteEnds /\ Head(saves) = task /\ disk' = image

WriteFailed(task) == up /\ Fault /\ WriteEnds /\ Head(saves) = task /\ UNCHANGED disk

----------------------------------------------------------------------------
(* The process.                                                               *)

(* SIGKILL, a power failure: what is in memory is gone. *)
Crash ==
  /\ up /\ Fault
  /\ up' = FALSE /\ state' = FreshState /\ saves' = <<>> /\ image' = NoImage
  /\ ingest' = [h \in Handlers |-> Nobody]
  /\ monitor' = [m \in Messages |-> "none"] /\ hand' = NoHand /\ catchUp' = Due
  /\ UNCHANGED <<provider, disk, outside, refuses>>

(* Mutant: the recorded monitors are not restored. *)
StartWithoutMonitors ==
  /\ ~up /\ up' = TRUE /\ state' = disk
  /\ UNCHANGED <<provider, monitor, disk, saves, image, ingest, hand, outside, spent>>

(* The start of the module: the state is read and every recorded monitor runs.*)
Start ==
  /\ ~up /\ up' = TRUE /\ state' = disk
  /\ monitor' = [m \in Messages |-> CASE disk.monitors[m] = "none" -> "none"
                                      [] disk.monitors[m] = "new" -> "poll"
                                      [] disk.monitors[m] = "marked" -> "watch"]
  /\ UNCHANGED <<provider, disk, saves, image, ingest, hand, outside, spent>>

----------------------------------------------------------------------------
(* The monitors: monitorReaction, monitorDispatch.                            *)

(* startReactionMonitor, startDispatchMonitor: a message has one monitor.     *)
Started(m, record) ==
  IF monitor[m] # "none" THEN monitor ELSE [monitor EXCEPT ![m] = record]

(* ensureEyesReaction, ensureOnItReaction, dispatch/received: the platform    *)
(* shows the message as being read, the record says so, and is written.       *)
Mark(m) ==
  /\ up /\ monitor[m] = "poll"
  /\ mark' = mark \cup {m}
  /\ state' = [state EXCEPT !.monitors[m] = "marked"]
  /\ monitor' = [monitor EXCEPT ![m] = "marking"] /\ Save(<<"mark", m>>)
  /\ UNCHANGED <<provider, up, disk, image, ingest, hand, source, posted, inbox, reply, spent>>

(* The answer is lost: the monitor tries again after a delay.                 *)
MarkUnanswered(m) ==
  /\ up /\ monitor[m] = "poll" /\ Fault
  /\ mark' = mark \cup {m}
  /\ UNCHANGED <<provider, gateway, source, posted, inbox, reply>>

(* A write that fails is an error like any: the record stays marked in memory.*)
Marked(m) ==
  /\ \/ Wrote(<<"mark", m>>) /\ UNCHANGED spent
     \/ WriteFailed(<<"mark", m>>)
  /\ monitor' = [monitor EXCEPT ![m] = "watch"]
  /\ UNCHANGED <<provider, up, state, ingest, hand, outside>>

(* The record is forgotten once the platform no longer shows the mark.        *)
Forget(m) ==
  /\ state' = [state EXCEPT !.monitors[m] = "none"]
  /\ monitor' = [monitor EXCEPT ![m] = "clearing"] /\ Save(<<"clear", m>>)

Forgotten(m) ==
  /\ \/ Wrote(<<"clear", m>>) /\ monitor' = [monitor EXCEPT ![m] = "none"] /\ UNCHANGED spent
     \/ WriteFailed(<<"clear", m>>) /\ monitor' = [monitor EXCEPT ![m] = "watch"]
  /\ UNCHANGED <<provider, up, state, ingest, hand, outside>>

----------------------------------------------------------------------------
(* The Hub, as the gateways see it.                                           *)

(* IngestMessage: a message has one item however often it comes; whether it   *)
(* is taken in is decided each time it comes until then.  A message without   *)
(* content, an address or a Connection that is disabled or gone: an error,    *)
(* even for a message that was taken in before.                               *)
Ingress(m) ==
  /\ m \notin refuses
  /\ IF inbox[m] \notin {"none", "ignored"} THEN UNCHANGED inbox
     ELSE \E taken \in {"open", "ignored"} : inbox' = [inbox EXCEPT ![m] = taken]

HubRefuses(m) ==
  /\ m \notin refuses /\ Fault /\ refuses' = refuses \cup {m}
  /\ UNCHANGED <<provider, gateway, catchUp, outside>>

(* The Owner enables the address again. *)
HubAccepts(m) ==
  /\ m \in refuses /\ refuses' = refuses \ {m}
  /\ UNCHANGED <<provider, gateway, catchUp, outside, spent>>

(* GET /api/inbox/{id}: the item is handled and its reply sent, or it failed. *)
InboxMoves(m) ==
  /\ \/ inbox[m] = "open" /\ inbox' = [inbox EXCEPT ![m] = "handling"] /\ UNCHANGED spent
     \/ inbox[m] = "handling" /\ UNCHANGED spent
        /\ \E end \in {"resolved", "failed"} : inbox' = [inbox EXCEPT ![m] = end]
     \/ inbox[m] = "failed" /\ Fault /\ inbox' = [inbox EXCEPT ![m] = "open"]
  /\ UNCHANGED <<provider, gateway, source, mark, posted, reply>>

(* A reply is given up after two minutes, or retried by the Owner.            *)
ReplyAgain(r) ==
  /\ Fault /\ reply[r] \in {"sending", "failed"} /\ reply' = [reply EXCEPT ![r] = "pending"]
  /\ UNCHANGED <<provider, gateway, source, mark, posted, inbox>>

----------------------------------------------------------------------------
(* The command loop: runCommandLoop, consumeSSE, sendOutbox.                  *)

(* The next command is read once the handler of the one before has returned.  *)
Receive(r) ==
  /\ up /\ hand = NoHand /\ reply[r] = "pending"
  /\ reply' = [reply EXCEPT ![r] = "sending"]
  /\ hand' = [reply |-> r, pc |-> "work"]
  /\ UNCHANGED <<provider, up, state, disk, saves, image, ingest, monitor,
                 source, mark, posted, inbox, spent>>

(* reportOutbox: success.  When its answer is lost the failure is reported.   *)
ReportSent ==
  LET r == hand.reply
      done == reply' = [reply EXCEPT ![r] = IF @ = "sending" THEN "sent" ELSE @]
  IN  /\ \/ done /\ hand' = NoHand /\ UNCHANGED spent
         \/ Fault /\ (done \/ UNCHANGED reply) /\ hand' = [hand EXCEPT !.pc = "failed"]
      /\ UNCHANGED <<provider, up, state, disk, saves, image, ingest, monitor,
                     source, mark, posted, inbox>>

(* The failure is reported, or that report is lost too and nobody cares.      *)
ReportFailed ==
  /\ up /\ hand.pc = "failed" /\ hand' = NoHand
  /\ \/ reply' = [reply EXCEPT ![hand.reply] = IF @ = "sending" THEN "failed" ELSE @]
        /\ UNCHANGED spent
     \/ Fault /\ UNCHANGED reply
  /\ UNCHANGED <<provider, up, state, disk, saves, image, ingest, monitor,
                 source, mark, posted, inbox>>

=============================================================================
