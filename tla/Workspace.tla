------------------------------ MODULE Workspace ------------------------------
(***************************************************************************)
(* The panes of the web console, one at a time, with the Hub they ask and  *)
(* the events they hear: which pane it is the initial state says.          *)
(***************************************************************************)
EXTENDS Pane

CONSTANTS Nodes, Home, Files, View, Attachments, MaxAttachments

ASSUME ViewAssumption == View \in Nat

N == INSTANCE NeedsYou
T == INSTANCE Topics
L == INSTANCE Lists
F == INSTANCE HostFiles
S == INSTANCE FeedScroll
C == INSTANCE Composer
R == INSTANCE ConversationRoles
I == INSTANCE Inspector
E == INSTANCE External

Init ==
  /\ N!NeedsYouInit \/ T!TopicsInit \/ L!ListsInit \/ F!HostFilesInit
     \/ S!FeedScrollInit \/ C!ComposerInit \/ R!ConversationRolesInit \/ I!InspectorInit \/ E!ExternalInit
  /\ heard = 1 /\ acts = 0 /\ faults = 0

Next ==
  \/ pane.kind = "needs-you" /\ N!NeedsYouNext
  \/ pane.kind = "topics" /\ T!TopicsNext
  \/ pane.kind \in L!Kinds /\ L!ListsNext
  \/ pane.kind = "files" /\ F!HostFilesNext
  \/ pane.kind = "feed" /\ S!FeedScrollNext
  \/ pane.kind = "composer" /\ C!ComposerNext
  \/ pane.kind = "roles" /\ R!ConversationRolesNext
  \/ pane.kind = "inspector" /\ I!InspectorNext
  \/ pane.kind = "external" /\ E!ExternalNext

Spec == Init /\ [][Next]_vars

-----------------------------------------------------------------------------
(* Properties.                                                             *)

\* Every list of a pane is about all that changes, but for those beside a thread.
Concerns(what, list) ==
  pane.kind = "composer" => what = IF list = "requests" THEN "request" ELSE "held"
\* Once a pane has heard of everything and its calls have been answered, it has read
\* every list since the last change it is about, or the last call for it failed: a
\* change that is announced while a call is on its way is not missed.  Only the
\* requests and the Topics, while they are first read, may miss what is announced
\* before that call is answered; what is announced later they do not.
SettledIsRead ==
  heard = Len(past) /\ calls = {} =>
    \A l \in DOMAIN pane.seen :
      \/ pane.seen[l].failed > pane.seen[l].newest
      \/ \A n \in pane.seen[l].newest + 1..Len(past) :
           n <= pane.seen[l].joined \/ ~Concerns(past[n].what, l)

\* The directory and the text that are shown are those of the path, and of the
\* file, that is selected now: never the answer for one that was left.
ShownIsAskedFor ==
  pane.kind = "files" =>
    /\ pane.node # None => pane.node = pane.path
    /\ pane.text # None => pane.text = pane.preview

\* A reader who went up in a thread by himself, and whom the page heard, stays where
\* he is, whatever comes and is measured and whichever timers fire.
HeardReaderStays ==
  [][pane.kind = "feed" /\ pane.reader = "up" /\ pane'.reader = "up" /\ pane.active /\ S!AtBottom(pane')
       => S!AtBottom(pane)]_vars

\* What the owner wrote to an Agent is in the composer, or on its way, until the Hub
\* has accepted it or he put it aside himself.
DraftIsKept ==
  pane.kind = "composer" /\ pane.owed =>
    pane.input = "typed" \/ \E c \in C!InFlight(C!Sends) : c.made.text = "typed" /\ ~c.done

\* What the owner did with a form for a role stays in it while it is open, whatever
\* the page hears of the role or reads meanwhile.
TypedIsKept ==
  [][pane.kind = "roles" /\ pane'.kind = "roles" /\ acts' = acts =>
       \A x \in pane.open \cap pane'.open : pane'.draft[x] = pane.draft[x]]_vars

\* Whoever changes a role had its last version in front of him: that it is saved
\* with the version it was read at protects it from being written over.
RolesAreNotLost ==
  pane.kind = "roles" =>
    \A x \in Things : Data[x].version > 1 /\ Data[x].base > 0 => Data[x].base = Data[x].version - 1

\* What is written in the inspector was written with the last version in front of
\* its author: a profile or a role that was changed since is not written over,
\* however long its form was open, and whatever was read and listed meanwhile.
NoLostUpdate ==
  pane.kind = "inspector" =>
    \A k \in I!Versioned : Data[k].version > 0 => Data[k].base = Data[k].version - 1

\* Nothing in the inspector, or of external identities, is shown as being read or
\* saved, and its buttons are not kept from being used, once nobody is going to
\* answer any more.
BusyIsAsked ==
  LET asks(whats) == InFlight(whats) # {}
  IN /\ pane.kind = "inspector" =>
          /\ pane.open /\ pane.loading => asks({"profile"})
          /\ I!In("usage") /\ pane.loadingUsage => asks({"usage", "refresh"})
          /\ pane.savingProfile => asks({"save-profile"})
          /\ pane.savingConfig => asks({"provider", "config"})
          /\ pane.savingRole => asks({"save", "toggle", "connections"})
          /\ pane.arming => asks({"trigger", "refresh"})
     /\ pane.kind = "external" =>
          /\ pane.loading => asks({"discover", "discover-run", "credentials"})
          /\ pane.working => asks(E!Commands \cup {"discover-run"}) \/ \E c \in InFlight({"refresh"}) : c.item # None
=============================================================================
