-------------------------- MODULE ConversationRoles --------------------------
(***************************************************************************)
(* The roles of an Agent in the conversations of one of its external       *)
(* identities (web/src/IntegrationsPane.tsx): the people who may write to  *)
(* it, the conversations it joined that have no role yet, and those that   *)
(* have one.  Each has a form, and its role a version; "base" is the       *)
(* version that whoever wrote it had before him.                           *)
(*                                                                         *)
(* Things are conversations: with one person ("dm") or with a group.  The  *)
(* messages of a person without a role wait until he is let in.            *)
(***************************************************************************)
EXTENDS Pane

Policies == {"open", "managed"}
NoRole == [dm |-> FALSE, version |-> 0, base |-> 0, enabled |-> TRUE, waits |-> FALSE]
Unwritten(dm) == [NoRole EXCEPT !.dm = dm]
Written(role, base, enabled) == [role EXCEPT !.version = @ + 1, !.base = base, !.enabled = enabled]

\* What is in a form: of which version, and what the owner did with it.
Fresh(version) == [base |-> version, edited |-> "no"]

ConversationRolesInit ==
  /\ \E dm \in [Things -> BOOLEAN], old \in [Things -> BOOLEAN] :
       past = <<[what |-> "start",
                 data |-> [k \in Things \cup {"policy"} |->
                             IF k = "policy" THEN "managed"
                             ELSE IF old[k] THEN Written(Unwritten(dm[k]), 0, TRUE) ELSE Unwritten(dm[k])]]>>
  /\ pane = [kind |-> "roles", seen |-> NothingSeen({}), known |-> [x \in Things |-> Data[x].version],
             waiting |-> {}, open |-> {}, draft |-> [x \in Things |-> Fresh(Data[x].version)], saving |-> {},
             policy |-> "managed", choice |-> "managed", testing |-> {}]
  /\ calls = {Call("inbox", None)}

IsContact(x) == x \in Things /\ Data[x].dm
Contacts == {x \in Things : IsContact(x) /\ (pane.known[x] > 0 \/ x \in pane.waiting)}
Candidates == {x \in Things : ~IsContact(x) /\ pane.known[x] = 0}
Rows == {x \in Things : ~IsContact(x) /\ pane.known[x] > 0}
Form(x) == IF IsContact(x) THEN "contacts" ELSE x

-----------------------------------------------------------------------------
(* What the page learns.  A form that is open keeps what is in it; one of a *)
(* candidate that became a row, or was one again, is a new one.             *)

\* Mutant: a row takes what there is to know of its role while it is edited.
LearnOver(p, known) ==
  [p EXCEPT !.known = known, !.draft = [x \in Things |-> IF IsContact(x) \/ known[x] = p.known[x] THEN @[x] ELSE Fresh(known[x])]]
Learn(p, known) ==
  LET other == {x \in Things : ~IsContact(x) /\ (p.known[x] = 0) # (known[x] = 0)}
      kept(x) == IsContact(x) \/ (x \notin other /\ (known[x] = 0 \/ x \in p.open))
  IN [p EXCEPT !.known = known, !.open = @ \ other, !.saving = @ \ other, !.testing = @ \ other,
               !.draft = [x \in Things |-> IF kept(x) THEN @[x] ELSE Fresh(known[x])]]
LearnPolicy(p, policy) ==
  [p EXCEPT !.policy = policy, !.choice = IF policy = p.policy THEN @ ELSE policy]
Versions(n) == [x \in Things |-> DataAt(n)[x].version]

\* Another version of a role, or of the address, comes with its event; that messages
\* wait has the page ask for them; the end of a gap has it ask for all.
Hear ==
  /\ heard < Len(past)
  /\ \/ /\ heard' = heard + 1 /\ UNCHANGED faults
        /\ LET event == past[heard + 1]
           IN CASE event.what \in Things ->
                     pane' = Learn(pane, [pane.known EXCEPT ![event.what] = event.data[event.what].version]) /\ UNCHANGED calls
                [] event.what = "policy" -> pane' = LearnPolicy(pane, event.data["policy"]) /\ UNCHANGED calls
                [] event.what = "inbox" -> calls' = Asked(calls, {"inbox"}) /\ UNCHANGED pane
     \/ heard' = Len(past) /\ heard + 1 < Len(past) /\ Failing /\ calls' = Asked(calls, {"refresh"}) /\ UNCHANGED pane
  /\ UNCHANGED <<past, acts>>

\* Whose save is done closes his form, unless it is another one by now; for a
\* person, whichever is open.
Closed(p, x) ==
  LET closing == IF Form(x) \notin p.saving THEN {} ELSE IF IsContact(x) THEN {y \in p.open : IsContact(y)} ELSE {x}
  IN [p EXCEPT !.saving = @ \ {Form(x)}, !.open = @ \ closing,
               !.draft = [y \in Things |-> IF y \in closing /\ ~IsContact(y) /\ p.known[y] > 0 THEN Fresh(p.known[y]) ELSE @[y]]]
RefreshAnswered(c) ==
  /\ c.what = "refresh"
  /\ \E n \in c.asked..Len(past) :
       LET p == LearnPolicy(Learn(pane, Versions(n)), DataAt(n)["policy"])
       IN pane' = CASE c.item = None -> p [] c.item = "policy" -> [p EXCEPT !.saving = @ \ {"contacts"}] [] OTHER -> Closed(p, c.item)
  /\ calls' = calls \ {c}
  /\ UNCHANGED <<past, heard, acts, faults>>
refreshSelectedInbox(c) ==
  /\ c.what = "inbox"
  /\ \/ \E n \in c.asked..Len(past) : pane' = [pane EXCEPT !.waiting = {x \in Things : DataAt(n)[x].waits}] /\ UNCHANGED faults
     \/ Failing /\ UNCHANGED pane
  /\ calls' = calls \ {c}
  /\ UNCHANGED <<past, heard, acts>>

-----------------------------------------------------------------------------
(* The forms.                                                              *)

Does(p) == pane' = p /\ UNCHANGED calls /\ Idle /\ Acts
setEditing ==
  \E x \in Rows \cup Candidates :
    Does(IF x \notin pane.open THEN [pane EXCEPT !.open = @ \cup {x}]
         ELSE [pane EXCEPT !.open = @ \ {x}, !.draft[x] = IF x \in Rows THEN Fresh(pane.known[x]) ELSE @])
selectContact ==
  \E x \in Contacts :
    Does([pane EXCEPT !.open = {y \in @ : ~IsContact(y)} \cup {x}, !.draft[x] = Fresh(pane.known[x])])
leaveContact ==
  "contacts" \notin pane.saving /\ \E x \in pane.open : IsContact(x) /\ Does([pane EXCEPT !.open = @ \ {x}])
\* The form stays open to changes while it is saved.
onChange ==
  \E x \in pane.open, edited \in {"text", "paused"} :
    x \in Contacts \cup Candidates \cup Rows /\ edited # pane.draft[x].edited /\ Does([pane EXCEPT !.draft[x].edited = edited])
setPolicy == \E policy \in Policies \ {pane.choice} : Does([pane EXCEPT !.choice = policy])

-----------------------------------------------------------------------------
(* Commands.                                                               *)

Saves(x, expected) ==
  /\ x \in pane.open /\ Form(x) \notin pane.saving
  /\ pane' = [pane EXCEPT !.saving = @ \cup {Form(x)}]
  /\ calls' = calls \cup {[Call("save", x) EXCEPT !.base = pane.draft[x].base,
                             !.made = [expected |-> expected, edited |-> pane.draft[x].edited,
                                       waiting |-> IsContact(x) /\ x \in pane.waiting]]}
  /\ Idle /\ Acts
\* A candidate is given its first role without saying so: whatever role there is is written over.
saveCandidate == \E x \in Candidates : pane.draft[x].edited # "no" /\ Saves(x, {})
saveContact == \E x \in Contacts : Saves(x, {pane.known[x]})
save == \E x \in Rows : Saves(x, {pane.known[x]})
savePolicy ==
  /\ "contacts" \notin pane.saving /\ pane.choice # pane.policy
  /\ pane' = [pane EXCEPT !.saving = @ \cup {"contacts"}]
  /\ calls' = calls \cup {[Call("policy", "policy") EXCEPT !.made = <<pane.choice>>]}
  /\ Idle /\ Acts
test ==
  /\ \E x \in Rows \ pane.testing : /\ pane' = [pane EXCEPT !.testing = @ \cup {x}]
                                    /\ calls' = calls \cup {Call("test", x)}
  /\ Idle /\ Acts

\* The Hub writes a role if it is still of the version that was expected, and only
\* if anything is to change.
UpsertConversationMembership(c) ==
  LET role == Data[c.item]
  IN /\ c.what = "save" /\ ~c.done /\ (c.made.expected = {} \/ c.made.expected = {role.version})
     /\ IF c.made.edited = "no" /\ c.base = role.version /\ role.version > 0 THEN UNCHANGED past
        ELSE Changed(c.item, c.item, Written(role, c.base, c.made.edited # "paused"))
Expired(c) == c.what = "save" /\ ~c.done /\ c.made.expected # {} /\ c.made.expected # {Data[c.item].version}
\* Only a person with a role that is enabled is let in.
MayEnter(x) == Data[x].waits /\ Data[x].version > 0 /\ Data[x].enabled
HubServes(c) ==
  /\ ~c.done
  /\ \/ UpsertConversationMembership(c)
     \/ c.what = "let-in" /\ MayEnter(c.item) /\ Changed("inbox", c.item, [Data[c.item] EXCEPT !.waits = FALSE])
     \/ c.what = "policy" /\ Changed("policy", "policy", c.made[1])
  /\ calls' = (calls \ {c}) \cup {[c EXCEPT !.done = TRUE]}
  /\ UNCHANGED <<heard, pane, acts, faults>>

\* A person's messages are let in once his role is saved, then everything is read again.
Goes(c) ==
  /\ c.done
  /\ calls' = (calls \ {c}) \cup {Call(IF c.what = "save" /\ c.made.waiting THEN "let-in" ELSE "refresh", c.item)}
  /\ UNCHANGED pane /\ Idle /\ UNCHANGED acts
\* The form stays as it is.
Refused(c) ==
  /\ c.what \in {"save", "let-in", "policy"} \/ (c.what = "refresh" /\ c.item # None)
  /\ \/ Failing
     \/ UNCHANGED faults /\ ~c.done /\ (Expired(c) \/ (c.what = "let-in" /\ ~MayEnter(c.item)))
  /\ pane' = [pane EXCEPT !.saving = @ \ {IF c.item = "policy" THEN "contacts" ELSE Form(c.item)}]
  /\ calls' = calls \ {c}
  /\ UNCHANGED <<past, heard, acts>>
RefreshFailed(c) ==
  c.what = "refresh" /\ c.item = None /\ Failing /\ calls' = calls \ {c} /\ UNCHANGED <<past, heard, pane, acts>>
\* The test message is sent, refused, or still on its way after 6 s.
Tested(c) ==
  /\ c.what = "test"
  /\ pane' = [pane EXCEPT !.testing = @ \ {c.item}]
  /\ calls' = calls \ {c} /\ Idle /\ UNCHANGED acts

\* Another client gives a role; a person without one writes.
HubMoves ==
  \E x \in Things :
    \/ HubChanges(x, x, Written(Data[x], Data[x].version, TRUE))
    \/ IsContact(x) /\ ~Data[x].waits /\ Data[x].version = 0 /\ HubChanges("inbox", x, [Data[x] EXCEPT !.waits = TRUE])

ConversationRolesNext ==
  \/ HubMoves \/ Hear \/ \E c \in calls : RefreshAnswered(c) \/ RefreshFailed(c) \/ refreshSelectedInbox(c)
  \/ setEditing \/ selectContact \/ leaveContact \/ onChange \/ setPolicy
  \/ saveCandidate \/ saveContact \/ save \/ savePolicy \/ test
  \/ \E c \in calls : HubServes(c) \/ Goes(c) \/ Refused(c) \/ Tested(c)
=============================================================================
