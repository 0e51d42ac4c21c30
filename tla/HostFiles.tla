------------------------------ MODULE HostFiles ------------------------------
(***************************************************************************)
(* The Host's files (web/src/HostFilesPane.tsx, host-files.ts): the path   *)
(* shown, the address of the page, and the calls for the home directory,   *)
(* for what is at a path and for the text of a file.                       *)
(***************************************************************************)
EXTENDS Pane

CONSTANTS
  Nodes,   \* the paths there are, or were, below the root
  Home,    \* the path of the home directory
  Files    \* the paths of files; the others are directories

Root == "root"
Paths == {Root} \cup Nodes

\* What there is at a path: something that can be read, that cannot, or nothing.
HostFilesInit ==
  /\ \E data \in [Nodes -> {"readable", "denied", "gone"}] :
       data[Home] = "readable" /\ past = <<[what |-> "start", data |-> data]>>
  /\ \E initial \in {Root} \cup Files :
       LET toHome == initial = Root
       IN /\ pane = [kind |-> "files", seen |-> NothingSeen({}), initial |-> initial, path |-> initial,
                     homePending |-> toHome, homeError |-> FALSE, homeRequested |-> toHome,
                     direct |-> None, before |-> initial, node |-> None, error |-> FALSE,
                     preview |-> None, text |-> None, previewError |-> FALSE]
          /\ calls = {IF toHome THEN Call("home", None) ELSE Call("node", initial)}

-----------------------------------------------------------------------------
(* Effects.  A step gives the pane as q; the calls whose reasons changed are   *)
(* aborted, as are those named in "again", and made anew.                      *)

\* Mutant: the call for a path that was left is not aborted.
NodeCallsKept(C, q, again) ==
  IF q.homePending \/ q.homeError THEN C
  ELSE IF "node" \in again \/ q.path # pane.path \/ pane.homePending \/ pane.homeError
    THEN C \cup {Call("node", q.path)} ELSE C
\* The call for the path waits until the home directory is known.
NodeCalls(C, q, again) ==
  LET changed == \/ "node" \in again \/ q.path # pane.path
                 \/ q.homePending # pane.homePending \/ q.homeError # pane.homeError
  IN IF ~changed THEN C
     ELSE {c \in C : c.what # "node"} \cup (IF q.homePending \/ q.homeError THEN {} ELSE {Call("node", q.path)})

\* Only a file that can be read is asked for.
PreviewOf(q) == IF q.preview \in Files /\ Data[q.preview] # "denied" THEN {Call("text", q.preview)} ELSE {}
TextCalls(C, q, again) ==
  IF "text" \notin again /\ q.preview = pane.preview THEN C
  ELSE {c \in C : c.what # "text"} \cup PreviewOf(q)
HomeCalls(C, again) ==
  IF "home" \notin again THEN C ELSE {c \in C : c.what # "home"} \cup {Call("home", None)}

Emptied(q, again) ==
  LET moved == \/ {"node", "home"} \cap again # {} \/ q.path # pane.path
               \/ q.homePending # pane.homePending \/ q.homeError # pane.homeError
      other == "text" \in again \/ q.preview # pane.preview
  IN [q EXCEPT !.node = IF moved THEN None ELSE @, !.error = IF moved THEN FALSE ELSE @,
               !.text = IF other THEN None ELSE @, !.previewError = IF other THEN FALSE ELSE @]

\* The address of the page changes: the root stands for the home directory.
Addressed(q, path) ==
  IF path = q.initial THEN q
  ELSE IF path = Root
    THEN [q EXCEPT !.initial = Root, !.path = Root, !.preview = None, !.homeRequested = TRUE,
                   !.homePending = @ \/ ~q.homeRequested, !.homeError = @ /\ q.homeRequested]
  ELSE [q EXCEPT !.initial = path, !.path = path, !.homeRequested = FALSE, !.homePending = FALSE, !.homeError = FALSE,
                 !.preview = IF q.path = path THEN @ ELSE None]
ToHome(q, path) == IF path = Root /\ path # q.initial /\ ~q.homeRequested THEN {"home"} ELSE {}

Step(q, C, again) ==
  /\ pane' = Emptied(q, again)
  /\ calls' = NodeCalls(TextCalls(HomeCalls(C, again), q, again), q, again)
  /\ UNCHANGED <<past, heard>>

-----------------------------------------------------------------------------
(* Answers.                                                                *)

fetchHostHome(c) ==
  /\ c.what = "home"
  /\ \/ Step([pane EXCEPT !.homePending = FALSE, !.path = Home], calls \ {c}, {}) /\ UNCHANGED faults
     \/ /\ Failing
        /\ pane' = [pane EXCEPT !.homePending = FALSE, !.homeError = TRUE, !.error = TRUE]
        /\ calls' = {d \in calls : d.what \notin {"home", "node"}} /\ UNCHANGED <<past, heard>>
  /\ UNCHANGED acts

\* The address becomes the path that was typed once something is found there.
fetchHostFileNode(c) ==
  /\ c.what = "node"
  /\ LET there == c.item \in {Root} \cup {x \in Nodes : Data[x] # "gone"}
         direct == pane.direct = c.item
         arrived == [pane EXCEPT !.direct = IF direct THEN None ELSE @]
         opened == IF direct THEN Addressed(arrived, c.item) ELSE arrived
         again == IF direct THEN ToHome(arrived, c.item) ELSE {}
     IN \/ /\ there /\ UNCHANGED faults
           /\ pane' = [Emptied([opened EXCEPT !.preview = IF c.item \in Files THEN c.item ELSE @], again)
                         EXCEPT !.node = c.item]
           /\ calls' = NodeCalls(TextCalls(HomeCalls(calls \ {c}, again), pane', again), pane', again)
           /\ UNCHANGED <<past, heard>>
        \/ /\ (~there /\ UNCHANGED faults) \/ Failing
           /\ IF direct THEN Step([arrived EXCEPT !.path = pane.before], calls \ {c}, {})
              ELSE /\ pane' = [pane EXCEPT !.node = None, !.error = TRUE]
                   /\ calls' = calls \ {c} /\ UNCHANGED <<past, heard>>
  /\ UNCHANGED acts

fetchHostTextPreview(c) ==
  /\ c.what = "text"
  /\ \/ Data[c.item] = "readable" /\ pane' = [pane EXCEPT !.text = c.item] /\ UNCHANGED faults
     \/ /\ (Data[c.item] # "readable" /\ UNCHANGED faults) \/ Failing
        /\ pane' = [pane EXCEPT !.previewError = TRUE]
  /\ calls' = calls \ {c}
  /\ UNCHANGED <<past, heard, acts>>

-----------------------------------------------------------------------------
(* The owner: a preview lies over the rest of the pane.                    *)

Loading == pane.homePending \/ InFlight({"node"}) # {}
\* What is offered: the preview's own, while it is open, or that of the directory.
Offered ==
  IF pane.preview # None
  THEN {"close"} \cup (IF pane.previewError THEN {"again"} ELSE IF pane.text # None THEN {"path"} ELSE {})
  ELSE (IF Loading THEN {} ELSE {"submit", "refresh"}) \cup (IF pane.error THEN {"home", "refresh"} ELSE {})
         \cup (IF pane.node \in Paths \ Files THEN {"entry"} ELSE {})
Left == [pane EXCEPT !.direct = None, !.preview = None]
goHome ==
  /\ "home" \in Offered
  /\ Step([Left EXCEPT !.homeError = FALSE, !.homePending = TRUE, !.homeRequested = TRUE, !.path = Root, !.initial = Root],
          calls, {"home"})
  /\ UNCHANGED faults /\ Acts
openEntry ==
  /\ "entry" \in Offered
  /\ \E x \in Nodes :
       IF x \in Files THEN Step([pane EXCEPT !.preview = x], calls, {})
       ELSE Step([Left EXCEPT !.path = x], calls, {})
  /\ UNCHANGED faults /\ Acts
\* A path in the text that is shown.
openPath ==
  /\ "path" \in Offered
  /\ \E x \in Paths : Step(Addressed([Left EXCEPT !.path = x], x), calls, ToHome(pane, x))
  /\ UNCHANGED faults /\ Acts
submitPath ==
  /\ "submit" \in Offered
  /\ \E x \in Paths :
       IF x = pane.path THEN Step([pane EXCEPT !.preview = None], calls, {"node"})
       ELSE Step([pane EXCEPT !.preview = None, !.before = pane.path, !.direct = x, !.path = x], calls, {})
  /\ UNCHANGED faults /\ Acts
\* The App is asked for another path.
OpenHostFile ==
  /\ \E x \in Paths \ {pane.initial} : Step(Addressed(pane, x), calls, ToHome(pane, x))
  /\ UNCHANGED faults /\ Acts
refresh ==
  /\ "refresh" \in Offered
  /\ IF pane.homeError THEN Step([pane EXCEPT !.homePending = TRUE, !.homeError = FALSE], calls, {"home"})
     ELSE Step(pane, calls, {"node"})
  /\ UNCHANGED faults /\ Acts
retryPreview == "again" \in Offered /\ Step(pane, calls, {"text"}) /\ UNCHANGED faults /\ Acts
closePreview == "close" \in Offered /\ Step([pane EXCEPT !.preview = None], calls, {}) /\ UNCHANGED faults /\ Acts

HostMoves ==
  \E x \in Nodes \ {Home}, to \in {"readable", "denied", "gone"} : to # Data[x] /\ HubChanges("file", x, to)

HostFilesNext ==
  \/ HostMoves \/ \E c \in calls : fetchHostHome(c) \/ fetchHostFileNode(c) \/ fetchHostTextPreview(c)
  \/ goHome \/ openEntry \/ openPath \/ submitPath \/ OpenHostFile \/ refresh \/ retryPreview \/ closePreview
=============================================================================
