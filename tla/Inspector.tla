------------------------------ MODULE Inspector ------------------------------
(***************************************************************************)
(* The inspector beside a thread (web/src/AgentPane.tsx): the profile of   *)
(* an Agent, what it is configured with, its roles in conversations, and   *)
(* lists about it that are read again and again while they are shown.      *)
(* Only the configuration and the Turn of the Agent are heard of; all else *)
(* is read when the inspector, or the section it is in, is opened.         *)
(*                                                                         *)
(* Things are conversations.  Profile, roles and configuration have a      *)
(* version; "base" is the version that whoever wrote it had before him.    *)
(***************************************************************************)
EXTENDS Pane

Sections == {"profile", "team", "external", "triggers", "runtime", "usage"}
Versioned == Things \cup {"profile"}
Version(n, k) == DataAt(n)[k].version
Wrote(k, base) == [version |-> Data[k].version + 1, base |-> base]

\* The Agent is as it was when it last changed.
AgentSince(n) == CHOOSE m \in 1..n : /\ past[m].what \in {"start", "config", "turn"}
                                     /\ \A k \in m + 1..n : past[k].what \notin {"config", "turn"}
AgentAt(n) == [config |-> Version(n, "config"), turn |-> DataAt(n)["turn"], name |-> DataAt(n)["name"]]
Agent == AgentAt(pane.agent)

NoDraft == [thing |-> None, version |-> 0]
Unedited(version) == [base |-> version, edited |-> FALSE]

\* It may have been opened, and what it shows been read.
InspectorInit ==
  /\ \E old \in {[x \in Things |-> n] : n \in {0, 1}}, section \in {"profile", "external"}, open \in BOOLEAN :
       /\ past = <<[what |-> "start",
                    data |-> [k \in Versioned \cup {"config", "turn", "name"} |->
                                CASE k \in Things -> [version |-> old[k], base |-> 0]
                                  [] k \in {"profile", "config"} -> [version |-> 1, base |-> 0]
                                  [] k = "turn" -> "idle"
                                  [] k = "name" -> 1]]>>
       /\ pane = [kind |-> "inspector", seen |-> NothingSeen({}), open |-> open, section |-> section, agent |-> 1,
                   config |-> Unedited(1), savingConfig |-> FALSE,
                   profile |-> IF open THEN 1 ELSE 0, text |-> Unedited(IF open THEN 1 ELSE 0), loading |-> FALSE, savingProfile |-> FALSE,
                   roles |-> [x \in Things |-> IF open THEN old[x] ELSE 0], draft |-> NoDraft, savingRole |-> FALSE,
                   loadingUsage |-> FALSE, arming |-> FALSE]
       /\ open \/ section = "profile"
  /\ calls = {}

Running == Agent.turn = "running"

-----------------------------------------------------------------------------
(* What a change of the page asks for, and which answers nobody waits for   *)
(* any more: that is the profile's when the inspector closes, and those of  *)
(* triggers and usage when their section is left.                           *)

Polled == {"triggers", "usage"}
\* What they were read at is not kept.
Timeless(c) == IF c.what \in {"team", "trigger", "refresh"} \cup Polled THEN [c EXCEPT !.asked = 1] ELSE c
\* The panel of the triggers waits for what it asked until its section is left.
Unmounted(c, moved) == IF moved /\ c.item = "arm" THEN [c EXCEPT !.item = "act"] ELSE c
Effects(p, C) ==
  LET now == AgentAt(p.agent)
      section(q) == IF q.open THEN q.section ELSE None
      moved == section(p) # section(pane)
      again == {s \in {"team"} \cup Polled : s = section(p) /\ (moved \/ (IF s = "usage" THEN now.turn # Agent.turn ELSE now.name # Agent.name))}
      left == {s \in Polled : s = section(pane) /\ (moved \/ s \in again)} \cup IF p.open # pane.open THEN {"profile"} ELSE {}
      asked == again \cup IF p.open /\ ~pane.open THEN {"profile", "connections"} ELSE {}
  IN /\ pane' = [p EXCEPT !.loading = @ \/ "profile" \in asked, !.loadingUsage = @ \/ "usage" \in asked,
                          !.arming = @ /\ section(p) = "triggers",
                          !.config = IF now.config = Agent.config THEN @ ELSE Unedited(now.config)]
     /\ calls' = {Timeless(Unmounted(c, moved)) : c \in Asked({d \in C : d.what \notin left}, asked)}

Does(p) == Effects(p, calls) /\ Idle /\ Acts

\* The status of an Agent carries its configuration, and the page takes no notice of
\* any other event; the end of a gap brings all of the Agent, unless the page has
\* later news of it.
Hear ==
  \/ /\ \E n \in heard + 1..Len(past) :
          /\ AgentSince(n) = n /\ heard' = n
          /\ \A m \in heard + 1..n - 1 : AgentSince(m) # m
          /\ Effects([pane EXCEPT !.agent = n], calls)
     /\ UNCHANGED <<past, acts, faults>>
  \/ /\ heard < AgentSince(Len(past)) /\ heard' = Len(past) /\ Failing
     /\ Effects([pane EXCEPT !.agent = Later(@, AgentSince(Len(past)))], calls)
     /\ UNCHANGED <<past, acts>>

ProfileRead(p, version) == [p EXCEPT !.profile = version, !.text = Unedited(version)]

ProfileAnswered(c) ==
  /\ c.what = "profile"
  /\ \E n \in c.asked..Len(past) : pane' = [ProfileRead(pane, Version(n, "profile")) EXCEPT !.loading = FALSE]
  /\ calls' = calls \ {c}
  /\ UNCHANGED <<past, heard, acts, faults>>

\* A command that waited for the list ends with it; a save closes whichever form is open by then.
refreshConnections(c) ==
  /\ c.what = "connections"
  /\ \E n \in c.asked..Len(past) :
       pane' = [pane EXCEPT !.roles = [x \in Things |-> Version(n, x)],
                            !.savingRole = @ /\ c.item = None,
                            !.draft = IF c.item = "save" THEN NoDraft ELSE @]
  /\ calls' = calls \ {c}
  /\ UNCHANGED <<past, heard, acts, faults>>

SectionAnswered(c) ==
  /\ c.what \in {"team", "triggers", "usage", "refresh"}
  /\ pane' = [pane EXCEPT !.loadingUsage = @ /\ c.what # "usage" /\ c.item # "usage", !.arming = @ /\ c.item # "arm"]
  /\ calls' = calls \ {c}
  /\ Idle /\ UNCHANGED acts

\* Mutant: only what was read ends the command that waited for it.
UnreadWaits(c) ==
  /\ c.what \in {"profile", "connections"} /\ Failing
  /\ pane' = [pane EXCEPT !.loading = @ /\ c.what # "profile"]
  /\ calls' = calls \ {c}
  /\ UNCHANGED <<past, heard, acts>>
Unread(c) ==
  /\ c.what \in {"profile", "connections"} /\ Failing
  /\ pane' = [pane EXCEPT !.loading = @ /\ c.what # "profile",
                          !.savingRole = @ /\ (c.what # "connections" \/ c.item = None)]
  /\ calls' = calls \ {c}
  /\ UNCHANGED <<past, heard, acts>>

-----------------------------------------------------------------------------
(* What the owner does.                                                    *)

In(section) == pane.open /\ pane.section = section

openInspector == Does([pane EXCEPT !.open = TRUE, !.section = "runtime"])
setConfigOpen == pane.open /\ Does([pane EXCEPT !.open = FALSE])
setConfigSection == pane.open /\ \E s \in Sections \ {pane.section} : Does([pane EXCEPT !.section = s])

editConfig == In("runtime") /\ ~Running /\ ~pane.config.edited /\ Does([pane EXCEPT !.config.edited = TRUE])
editProfile == /\ In("profile") /\ pane.profile > 0 /\ ~pane.loading /\ ~pane.text.edited
               /\ Does([pane EXCEPT !.text.edited = TRUE])

Draft(x, version) == [thing |-> x, version |-> version]
startMembership == In("external") /\ \E x \in Things : Does([pane EXCEPT !.draft = Draft(x, 0)])
editMembership ==
  In("external") /\ \E x \in Things : pane.roles[x] > 0 /\ Does([pane EXCEPT !.draft = Draft(x, pane.roles[x])])
setMembershipDraft == In("external") /\ pane.draft # NoDraft /\ Does([pane EXCEPT !.draft = NoDraft])
\* A script opens the form of a role that is listed.
select == \E x \in Things : pane.roles[x] > 0
            /\ Does([pane EXCEPT !.open = TRUE, !.section = "external", !.draft = Draft(x, pane.roles[x])])

Begins(p, what, item, base, made) ==
  /\ pane' = p
  /\ calls' = calls \cup {Timeless([Call(what, item) EXCEPT !.base = base, !.made = made])}
  /\ Idle /\ Acts

\* Another provider is asked for first; then all that is in the form is written.
saveConfig ==
  /\ In("runtime") /\ ~Running /\ ~pane.savingConfig
  /\ \E what \in {"provider", "config"} :
       /\ what = "config" \/ pane.config.edited
       /\ Begins([pane EXCEPT !.savingConfig = TRUE], what, None, pane.config.base, <<pane.config.edited>>)
saveProfile ==
  /\ In("profile") /\ pane.text.edited /\ ~pane.loading /\ ~pane.savingProfile
  /\ Begins([pane EXCEPT !.savingProfile = TRUE], "save-profile", "profile", pane.text.base, <<pane.profile>>)
\* Mutant: a role is saved with the version that is listed by then.
saveMembershipListed ==
  /\ In("external") /\ pane.draft # NoDraft /\ ~pane.savingRole
  /\ Begins([pane EXCEPT !.savingRole = TRUE], "save", pane.draft.thing, pane.draft.version, <<pane.roles[pane.draft.thing]>>)
saveMembership ==
  /\ In("external") /\ pane.draft # NoDraft /\ ~pane.savingRole
  /\ Begins([pane EXCEPT !.savingRole = TRUE], "save", pane.draft.thing, pane.draft.version, <<pane.draft.version>>)
toggleMembership ==
  /\ In("external") /\ ~pane.savingRole
  /\ \E x \in Things :
       /\ pane.roles[x] > 0
       /\ Begins([pane EXCEPT !.savingRole = TRUE], "toggle", x, pane.roles[x], <<pane.roles[x]>>)

\* A Trigger is armed, paused, resumed or cancelled, and the list read again, if the Hub took it.
submit == In("triggers") /\ ~pane.arming /\ Begins([pane EXCEPT !.arming = TRUE], "trigger", "arm", 0, <<>>)
act == In("triggers") /\ Begins(pane, "trigger", "act", 0, <<>>)
onRefresh == In("usage") /\ ~pane.loadingUsage /\ Begins([pane EXCEPT !.loadingUsage = TRUE], "refresh", "usage", 0, <<>>)

-----------------------------------------------------------------------------
(* What becomes of it.                                                     *)

Saves == {"save-profile", "save", "toggle"}
Configures == {"provider", "config"}

\* The Hub writes what was of the version that was expected, and configures an Agent
\* between its Turns; what the owner edited is its name, too.
HubServes(c) ==
  /\ ~c.done
  /\ \/ c.what \in Saves /\ c.made[1] = Data[c.item].version /\ Changed(c.item, c.item, Wrote(c.item, c.base))
     \/ /\ c.what \in Configures /\ Data["turn"] = "idle"
        /\ IF c.made[1] \/ c.base # Data["config"].version
           THEN /\ CanChange
                /\ past' = Append(past, [what |-> "config",
                                        data |-> [Data EXCEPT !["config"] = Wrote("config", c.base),
                                                              !["name"] = IF c.made[1] /\ c.what = "config" THEN @ + 1 ELSE @]])
           ELSE UNCHANGED past
  /\ calls' = (calls \ {c}) \cup {[c EXCEPT !.done = TRUE, !.asked = Len(past')]}
  /\ UNCHANGED <<heard, pane, acts, faults>>
Expired(c) ==
  \/ c.what \in Saves /\ c.made[1] # Data[c.item].version
  \/ c.what \in Configures /\ Data["turn"] = "running"

\* The answer is all the page knows of the Agent from now on, whatever it heard meanwhile.
updateAgent(p, c) == [p EXCEPT !.agent = AgentSince(c.asked)]
Configured(c) ==
  /\ c.what \in Configures /\ c.done
  /\ IF c.what = "provider"
     THEN Effects(updateAgent(pane, c), (calls \ {c}) \cup {[c EXCEPT !.what = "config", !.done = FALSE]})
     ELSE Effects([updateAgent(pane, c) EXCEPT !.open = FALSE, !.savingConfig = FALSE], calls \ {c})
  /\ Idle /\ UNCHANGED acts
ProfileSaved(c) ==
  /\ c.what = "save-profile" /\ c.done
  /\ pane' = [ProfileRead(pane, Version(c.asked, "profile")) EXCEPT !.savingProfile = FALSE]
  /\ calls' = calls \ {c} /\ Idle /\ UNCHANGED acts
RoleSaved(c) ==
  /\ c.what \in {"save", "toggle"} /\ c.done
  /\ calls' = (calls \ {c}) \cup {Call("connections", c.what)}
  /\ UNCHANGED pane /\ Idle /\ UNCHANGED acts
TriggerDone(c) ==
  /\ c.what = "trigger"
  /\ \/ calls' = (calls \ {c}) \cup {[c EXCEPT !.what = "refresh"]} /\ UNCHANGED pane
     \/ calls' = calls \ {c} /\ pane' = [pane EXCEPT !.arming = @ /\ c.item # "arm"]
  /\ Idle /\ UNCHANGED acts
Refused(c) ==
  /\ c.what \in Saves \cup Configures
  /\ \/ Failing
     \/ ~c.done /\ Expired(c) /\ UNCHANGED faults
  /\ pane' = [pane EXCEPT !.savingConfig = @ /\ c.what \notin Configures, !.savingProfile = @ /\ c.what # "save-profile",
                          !.savingRole = @ /\ c.what \notin {"save", "toggle"}]
  /\ calls' = calls \ {c}
  /\ UNCHANGED <<past, heard, acts>>

\* Another client writes a role, the profile or the configuration; a Turn begins or ends.
HubMoves ==
  \/ \E k \in Versioned : HubChanges(k, k, Wrote(k, Data[k].version))
  \/ Data["turn"] = "idle" /\ HubChanges("config", "config", Wrote("config", Data["config"].version))
  \/ HubChanges("turn", "turn", IF Data["turn"] = "idle" THEN "running" ELSE "idle")

InspectorNext ==
  \/ HubMoves \/ Hear
  \/ openInspector \/ setConfigOpen \/ setConfigSection \/ select
  \/ editConfig \/ editProfile \/ startMembership \/ editMembership \/ setMembershipDraft
  \/ saveConfig \/ saveProfile \/ saveMembership \/ toggleMembership \/ submit \/ act \/ onRefresh
  \/ \E c \in calls : \/ ProfileAnswered(c) \/ refreshConnections(c) \/ SectionAnswered(c) \/ Unread(c)
                      \/ HubServes(c) \/ Configured(c) \/ ProfileSaved(c) \/ RoleSaved(c) \/ TriggerDone(c) \/ Refused(c)
=============================================================================
