----------------------------- MODULE FeedScroll -----------------------------
(***************************************************************************)
(* Where the reader of an Agent's thread is (web/src/AgentPane.tsx): the   *)
(* page follows the newest row while the reader is at the bottom, and      *)
(* keeps his place otherwise.  Heights are counted in rows; a scroll event *)
(* is handled at once, the timers fire in any order.                       *)
(***************************************************************************)
EXTENDS Pane

CONSTANT View   \* rows that are seen at once

Nowhere == -1
Bottom(p) == Later(0, p.height - View)
AtBottom(p) == p.top = Bottom(p)
To(p, top) == [p EXCEPT !.top = IF top > Bottom(p) THEN Bottom(p) ELSE top]
Due(p, timer) == [p EXCEPT !.timers = @ \cup {timer}]
Done(p, timer) == [p EXCEPT !.timers = @ \ {timer}]
Pins(p) == p.initial \/ p.stick

\* "reader" is where the reader last went by himself: up, down, or up while the
\* page did not listen.
FeedScrollInit ==
  /\ past = <<[what |-> "start", data |-> None]>> /\ calls = {}
  /\ \E rows \in 1..(View + 1) :
       pane = [kind |-> "feed", seen |-> NothingSeen({}), height |-> rows, top |-> 0, saved |-> 0, anchor |-> Nowhere,
               initial |-> TRUE, stick |-> TRUE, restoring |-> FALSE, keep |-> Nowhere, older |-> FALSE,
               active |-> TRUE, timers |-> {"feed"}, reader |-> "down"]

-----------------------------------------------------------------------------
(* What the page does of itself.                                           *)

\* Mutant: a reader who leaves the bottom does not stop what is on its way there.
onScrollPinning(p) ==
  IF p.restoring \/ (p.initial /\ p.top >= p.saved /\ AtBottom(p)) THEN p
  ELSE [p EXCEPT !.initial = FALSE, !.saved = p.top, !.stick = p.stick \/ AtBottom(p)]
onScroll(p) ==
  LET up == p.top < p.saved
      pinned == ~up /\ AtBottom(p)
  IN IF p.restoring \/ (p.initial /\ pinned) THEN p
     ELSE [p EXCEPT !.initial = FALSE, !.saved = p.top, !.stick = pinned, !.older = @ \/ p.top = 0,
                    !.anchor = IF pinned THEN Nowhere ELSE @,
                    !.timers = IF pinned THEN @ ELSE (@ \ {"pin", "bottom"}) \cup {"anchor"}]

\* The effect of new rows, or of being shown: what the one before it began is stopped.
Rows(p) == [p EXCEPT !.restoring = FALSE,
                     !.timers = IF p.active THEN (@ \ {"settle", "restore"}) \cup {"feed"} ELSE @ \ {"feed", "settle", "restore"}]

Fires(timer, q) == timer \in pane.timers /\ pane' = q /\ UNCHANGED <<past, heard, calls, acts, faults>>

\* Rows put before the others keep what is seen in its place; else the page goes
\* to the bottom, or begins to bring back the reader's place.
FeedTimer ==
  LET p == Done(pane, "feed")
  IN Fires("feed",
       IF p.keep # Nowhere THEN onScroll([To(p, p.top + p.height - p.keep) EXCEPT !.keep = Nowhere, !.saved = p.top + p.height - p.keep])
       ELSE IF Pins(p) THEN onScroll(Due(To(p, Bottom(p)), "settle"))
       ELSE Due([p EXCEPT !.restoring = TRUE], "restore"))
SettleTimer ==
  LET p == Done(pane, "settle")
      q == IF Pins(p) THEN onScroll(To(p, Bottom(p))) ELSE p
  IN Fires("settle", [q EXCEPT !.saved = q.top])
\* The place is brought back again and again, for 1.8 s.
restorePosition(p) == To(p, IF p.anchor = Nowhere THEN p.saved ELSE p.anchor)
RestoreTimer ==
  \/ Fires("restore", restorePosition(pane))
  \/ LET p == restorePosition(Done(pane, "restore"))
     IN Fires("restore", onScroll([p EXCEPT !.restoring = FALSE, !.saved = p.top]))
AnchorTimer == Fires("anchor", [Done(pane, "anchor") EXCEPT !.anchor = pane.top])

\* The rows are measured: the page goes to the bottom again if it is to be there.
MeasuredBy(p, growth) ==
  LET q == [p EXCEPT !.height = @ + growth] IN IF p.active /\ Pins(p) THEN Due(q, "pin") ELSE q
PinTimer ==
  LET p == Done(pane, "pin")
      q == [onScroll(To(p, Bottom(p))) EXCEPT !.saved = Bottom(p)]
  IN Fires("pin", IF ~p.active \/ ~Pins(p) \/ (~p.initial /\ AtBottom(p)) THEN p
                  ELSE IF q.initial THEN Due(q, "bottom") ELSE q)
BottomTimer ==
  LET p == Done(pane, "bottom")
  IN Fires("bottom", IF ~p.active THEN p
                     ELSE IF AtBottom(p) THEN [p EXCEPT !.initial = FALSE, !.saved = p.top]
                     ELSE onScroll(To(p, Bottom(p))))
JumpTimer ==
  LET p == Done(pane, "jump")
  IN Fires("jump", IF p.stick THEN onScroll([To(p, Bottom(p)) EXCEPT !.saved = Bottom(p)]) ELSE p)
\* Two frames after the pane is shown.
FramesTimer ==
  LET p == onScroll(Done(pane, "frames"))
  IN Fires("frames", IF Pins(p) THEN onScroll(To(p, Bottom(p))) ELSE p)

-----------------------------------------------------------------------------
(* Rows come, and the reader moves.                                        *)

Grows == CanChange /\ past' = Append(past, past[Len(past)]) /\ UNCHANGED <<heard, calls, acts, faults>>
RowsCome == Grows /\ pane' = Rows(MeasuredBy(pane, 1))
RowsMeasured == Grows /\ pane' = MeasuredBy(pane, 1)
\* The answer to loadOlder.
OlderCome ==
  /\ pane.older /\ Grows
  /\ pane' = Rows([pane EXCEPT !.older = FALSE, !.keep = pane.height, !.height = @ + 1])

\* What is due at once is done before the reader moves.
AtOnce == {"feed", "anchor", "jump"}
Reads(q) == pane.active /\ pane.timers \cap AtOnce = {} /\ pane' = q /\ UNCHANGED calls /\ Idle /\ Acts
Went(p) == IF AtBottom(p) THEN "down" ELSE IF p.restoring THEN "unheard" ELSE "up"
ReaderScrolls ==
  \E top \in 0..Bottom(pane) \ {pane.top} : LET p == To(pane, top) IN Reads([onScroll(p) EXCEPT !.reader = Went(p)])
jumpToMessage ==
  \E top \in 0..Bottom(pane) : LET p == To(pane, top) IN Reads([onScroll(p) EXCEPT !.reader = Went(p)])
jumpToBottom ==
  LET p == [To(pane, Bottom(pane)) EXCEPT !.initial = FALSE, !.stick = TRUE, !.anchor = Nowhere, !.reader = "down"]
  IN ~pane.stick /\ Reads(Due(onScroll(p), "jump"))

\* Another tab is shown; what becomes of the place the browser decides.
Hide ==
  /\ Reads([Rows([pane EXCEPT !.active = FALSE]) EXCEPT !.timers = @ \ {"frames"}])
Show ==
  /\ ~pane.active
  /\ \E top \in {0, pane.top} : pane' = Due(Rows([pane EXCEPT !.active = TRUE, !.top = top]), "frames")
  /\ UNCHANGED calls /\ Idle /\ Acts

FeedScrollNext ==
  \/ FeedTimer \/ SettleTimer \/ RestoreTimer \/ AnchorTimer \/ PinTimer \/ BottomTimer \/ JumpTimer \/ FramesTimer
  \/ RowsCome \/ RowsMeasured \/ OlderCome \/ ReaderScrolls \/ jumpToMessage \/ jumpToBottom \/ Hide \/ Show
=============================================================================
