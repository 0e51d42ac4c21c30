-------------------------------- MODULE Lists --------------------------------
(***************************************************************************)
(* The panes that read their lists again as a whole whenever something     *)
(* changed: Inbox, Messages and Schedules (web/src/InboxPane.tsx,          *)
(* MessagesPane.tsx, SchedulesPane.tsx).  Their refreshes are not put in   *)
(* order: one may be overtaken by another.                                 *)
(*                                                                         *)
(* An entry of the Inbox has its item's state; a message where it is on    *)
(* its way; a Schedule whether it is enabled.                              *)
(***************************************************************************)
EXTENDS Pane

\* An open message that was delivered waits for its reply, is stale after a day, or
\* held when its handling ended badly.
Delivered == {"waiting", "stale", "held"}
Kinds == {"inbox", "messages", "schedules"}

ListOf(kind) == IF kind = "inbox" THEN {"inbox", "outbox"} ELSE {kind}
Listed(x) == IF x # None /\ Fetched(pane.kind) THEN Shown(pane.kind)[x] ELSE None

ListsInit ==
  \E kind \in Kinds :
    /\ past = <<[what |-> "start", data |->
                 [x \in Things |-> CASE kind = "inbox" -> "queued" [] kind = "messages" -> "queued" [] OTHER -> "enabled"]]>>
    /\ pane = [kind |-> kind, seen |-> NothingSeen(ListOf(kind)), selected |-> None,
               mode |-> "list", composing |-> FALSE, working |-> {}]
    /\ calls = {Call("refresh", None)}

\* Mutant: only the events of one list are listened to.
HeardByFirst(kind) == IF kind = "inbox" THEN {"inbox"} ELSE {kind}
HeardBy(kind) == IF kind = "inbox" THEN {"inbox", "outbox"} ELSE {kind}
refresh(C) == Asked(C, {"refresh"})
\* The refresh that a command ends with, and waits for.
OwnRefresh(flag) == [Call("refresh", None) EXCEPT !.base = flag]

\* The lists of a pane are asked for apart and shown together.
RefreshAnswered(c) ==
  /\ c.what = "refresh"
  /\ \E at \in [DOMAIN pane.seen -> c.asked..Len(past)] :
       pane' = [pane EXCEPT !.seen = [l \in DOMAIN pane.seen |->
                                       [pane.seen[l] EXCEPT !.at = at[l], !.newest = Later(@, at[l])]]]
  /\ calls' = calls \ {c}
  /\ UNCHANGED <<past, heard, acts, faults>>
RefreshFailed(c) ==
  /\ c.what = "refresh" /\ Failing
  /\ pane' = [pane EXCEPT !.seen = [l \in DOMAIN pane.seen |-> [pane.seen[l] EXCEPT !.failed = Later(@, c.asked)]]]
  /\ calls' = calls \ {c}
  /\ UNCHANGED <<past, heard, acts>>

\* An event, or the end of a gap in the stream.
Hear ==
  /\ heard < Len(past)
  /\ \/ /\ heard' = heard + 1 /\ UNCHANGED faults
        /\ calls' = IF past[heard'].what \in HeardBy(pane.kind) THEN refresh(calls) ELSE calls
     \/ heard' = Len(past) /\ heard + 1 < Len(past) /\ Failing /\ calls' = refresh(calls)
  /\ UNCHANGED <<past, pane, acts>>

-----------------------------------------------------------------------------
(* What is shown, under one filter or other, and selected.                 *)

Visible == {x \in Things : Listed(x) # None}

\* selectItem, beginReply.
selectItem ==
  /\ pane.kind # "schedules"
  /\ \E x \in Visible : /\ pane.kind = "messages" => Listed(x) \in Delivered
                        /\ pane' = [pane EXCEPT !.selected = x]
  /\ UNCHANGED calls /\ Idle /\ Acts
clearReply ==
  /\ pane.kind = "messages" /\ pane.selected # None
  /\ pane' = [pane EXCEPT !.selected = None]
  /\ UNCHANGED calls /\ Idle /\ Acts
setMode ==
  /\ pane.kind = "inbox"
  /\ \/ \E m \in {"list", "outbox"} \ {pane.mode} : pane' = [pane EXCEPT !.mode = m, !.selected = None]
     \/ pane' = [pane EXCEPT !.composing = ~@]
  /\ UNCHANGED calls /\ Idle /\ Acts

-----------------------------------------------------------------------------
(* Commands.                                                               *)

Give(what, x) == calls' = calls \cup {Call(what, x)} /\ Idle /\ Acts
\* Messages are sent and requests resolved under flags of their own.
Flag(what) == IF pane.kind = "messages" /\ what = "resolve" THEN 2 ELSE 1
Busy(what, x) == Flag(what) \notin pane.working /\ Give(what, x) /\ pane' = [pane EXCEPT !.working = @ \cup {Flag(what)}]

\* The buttons there are for a thing depend on how it is shown.
InboxOffers(x) ==
  IF Listed(x) \in {None, "pending_access", "handled"} THEN {}
  ELSE {"reply", "no-reply", "defer"} \cup (IF Listed(x) \in {"interrupted", "failed", "deferred"} THEN {"retry"} ELSE {})
OutboxOffers(x) == IF Fetched("outbox") /\ Shown("outbox")[x] = "failed" THEN {"resend"} ELSE {}
MessageOffers(x) ==
  CASE Listed(x) = "queued" -> {"cancel"}
    [] Listed(x) = "held" -> {"retry", "no-reply", "resolve"}
    [] Listed(x) \in Delivered -> {"no-reply", "resolve"}
    [] Listed(x) = "failed" -> {"resolve"}
    [] OTHER -> {}
ScheduleOffers(x) == {"run", "delete", IF Listed(x) = "enabled" THEN "disable" ELSE "enable"}

respond ==
  /\ pane.kind = "inbox" /\ pane.selected # None
  /\ \E what \in CASE pane.mode = "list" -> InboxOffers(pane.selected)
                   [] OTHER -> OutboxOffers(pane.selected) : Busy(what, pane.selected)
sendOutbound == pane.kind = "inbox" /\ pane.composing /\ Busy("send", None)
\* send of a message, create of a Schedule.
send == pane.kind # "inbox" /\ Busy("send", pane.selected)
\* These may be pressed again before they are answered.
messageAction ==
  /\ pane.kind = "messages"
  /\ \E x \in Visible : \E what \in MessageOffers(x) \ {"resolve"} : Give(what, x)
  /\ UNCHANGED pane
resolveMessage == pane.kind = "messages" /\ \E x \in Visible : "resolve" \in MessageOffers(x) /\ Busy("resolve", x)
scheduleAction ==
  /\ pane.kind = "schedules"
  /\ \E x \in Visible : \E what \in ScheduleOffers(x) : Give(what, x)
  /\ UNCHANGED pane

\* What a command makes of a thing, for each pane; the Hub's side.
Makes(what) ==
  CASE what \in {"reply", "resend"} -> "awaiting_delivery" [] what = "defer" -> "deferred"
    [] what = "no-reply" -> IF pane.kind = "inbox" THEN "handled" ELSE "closed"
    [] what = "retry" -> "queued"
    [] what \in {"cancel", "resolve"} -> "closed"
    [] what = "enable" -> "enabled" [] what = "disable" -> "disabled" [] what = "delete" -> None
    [] OTHER -> "queued"
Guarded == {"reply", "no-reply", "defer", "send", "resolve"}
Commands == Guarded \cup {"retry", "resend", "cancel", "run", "enable", "disable", "delete"}
Announced(what) == IF pane.kind = "inbox" /\ what \in {"reply", "resend", "send"} THEN "outbox" ELSE pane.kind
HubServes(c) ==
  /\ c.what \in Commands /\ ~c.done
  /\ \E x \in IF c.item = None THEN Things ELSE {c.item} :
       Changed(Announced(c.what), x, IF c.what \in {"send", "run"} THEN Data[x] ELSE Makes(c.what))
  /\ calls' = (calls \ {c}) \cup {[c EXCEPT !.done = TRUE]}
  /\ UNCHANGED <<heard, pane, acts, faults>>

Working(c) == pane.kind = "inbox" \/ c.what \in {"send", "resolve"}
Goes(c) ==
  /\ c.done
  /\ calls' = IF Working(c) THEN (calls \ {c}) \cup {OwnRefresh(Flag(c.what))} ELSE refresh(calls \ {c})
  /\ pane' = IF c.what # "send" THEN pane
             ELSE [pane EXCEPT !.mode = IF pane.kind = "inbox" THEN "outbox" ELSE @, !.composing = FALSE,
                     !.selected = IF pane.kind = "messages" /\ c.item # None THEN None ELSE @]
  /\ Idle /\ UNCHANGED acts
Ends ==
  /\ \E flag \in pane.working :
       /\ ~\E c \in calls : (c.what \in Commands /\ Working(c) /\ Flag(c.what) = flag) \/ c.base = flag
       /\ pane' = [pane EXCEPT !.working = @ \ {flag}]
  /\ UNCHANGED calls /\ Idle /\ UNCHANGED acts
Refused(c) ==
  /\ c.what \in Commands /\ Failing
  /\ calls' = calls \ {c}
  /\ UNCHANGED <<past, heard, pane, acts>>

HubMoves ==
  \E x \in Things :
    \/ /\ pane.kind = "inbox"
       /\ \/ Data[x] = "queued" /\ \E to \in {"interrupted", "handled"} : HubChanges("inbox", x, to)
          \/ Data[x] = "awaiting_delivery" /\ \E to \in {"handled", "failed"} : HubChanges("outbox", x, to)
    \/ /\ pane.kind = "messages"
       /\ \/ Data[x] = "queued" /\ HubChanges("messages", x, "waiting")
          \/ Data[x] = "waiting" /\ \E to \in {"held", "failed", "closed"} : HubChanges("messages", x, to)
    \/ pane.kind = "schedules" /\ Data[x] = "enabled" /\ HubChanges("schedules", x, "disabled")

ListsNext ==
  \/ HubMoves \/ Hear \/ \E c \in calls : RefreshAnswered(c) \/ RefreshFailed(c)
  \/ \E c \in calls : HubServes(c) \/ Goes(c) \/ Refused(c)
  \/ selectItem \/ clearReply \/ setMode
  \/ respond \/ sendOutbound \/ send \/ messageAction \/ resolveMessage \/ scheduleAction \/ Ends
=============================================================================
