------------------------------- MODULE External -------------------------------
(***************************************************************************)
(* External identities (web/src/IntegrationsPane.tsx): the connections     *)
(* that are listed, the one that is selected, what its platform tells of   *)
(* its account, and the form an account is connected with, or given one    *)
(* more conversation.                                                      *)
(*                                                                         *)
(* Things are accounts of one platform.  Of an account the Hub keeps       *)
(* whether it has its credentials, and its connection.  What a platform    *)
(* tells ("discovery") is of one account, comes late and in any order, and *)
(* there is place for one.                                                 *)
(***************************************************************************)
EXTENDS Pane

Providers == {"lark", "parall", "github"}   \* Slack is as Lark
Identities == {"first", "second"}
NoDiscovery == [of |-> None, ready |-> FALSE, agent |-> None]
NoSetup == [mode |-> "no", chat |-> None, agent |-> None]

\* Parall is asked of one external Agent, once one was chosen.
Discover(x, agent) == [Call("discover", x) EXCEPT !.made = [agent |-> agent]]

\* The page may be opened at the form, which then asks without naming an account.
ExternalInit ==
  \E connected \in BOOLEAN, provider \in Providers, linked \in BOOLEAN :
    /\ linked => provider # "github"
    /\ past = <<[what |-> "start", data |-> [x \in Things |-> [stored |-> connected, conn |-> IF connected THEN "on" ELSE "no"]]]>>
    /\ pane = [kind |-> "external", provider |-> provider, seen |-> NothingSeen({}), known |-> [x \in Things |-> "no"],
               selected |-> None, discovery |-> NoDiscovery, loading |-> linked, create |-> FALSE,
               setup |-> IF linked THEN [NoSetup EXCEPT !.mode = "connect"] ELSE NoSetup, working |-> FALSE, bind |-> None]
    /\ calls = {Call("refresh", None)} \cup IF linked THEN {Discover(None, None)} ELSE {}

Discovers == pane.provider # "github"
Open(p) == p.setup.mode # "no"
Selected(p) == IF p.selected # None /\ p.known[p.selected] # "no" THEN p.selected ELSE None

-----------------------------------------------------------------------------
(* What a platform tells of an account.                                    *)

\* Of the connection that is selected, unless it was told already or a form is open.
Effects(p, C) ==
  LET x == Selected(p)
      asks == /\ Discovers /\ ~Open(p) /\ x # None /\ p.discovery.of # x
              /\ x # Selected(pane) \/ Open(pane)
  IN /\ pane' = [p EXCEPT !.loading = @ \/ asks]
     /\ calls' = IF asks THEN C \cup {Discover(x, None)} ELSE C

\* An external Agent that the answer names, another one than before, is the one chosen now.
Discovered(p, discovery) ==
  [p EXCEPT !.discovery = discovery, !.loading = FALSE,
            !.setup.agent = IF Open(p) /\ discovery.agent \notin {None, p.discovery.agent} THEN discovery.agent ELSE @]
\* Where none is named it is the account of some connection.
Told(c, n) ==
  LET of == IF c.item # None THEN {c.item} ELSE {x \in Things : DataAt(n)[x].conn # "no"}
  IN {[of |-> x, ready |-> DataAt(n)[x].stored, agent |-> c.made.agent] : x \in of}
       \cup IF of = {} THEN {NoDiscovery} ELSE {}
discover(c) ==
  /\ c.what \in {"discover", "discover-run"}
  /\ \/ \E n \in c.asked..Len(past) : \E told \in Told(c, n) : pane' = Discovered(pane, told) /\ UNCHANGED faults
     \/ Failing /\ pane' = Discovered(pane, NoDiscovery)
  /\ calls' = (calls \ {c}) \cup IF c.what = "discover-run" THEN {Call("refresh", "run")} ELSE {}
  /\ UNCHANGED <<past, heard, acts>>

Ready(d) == d.of # None /\ d.ready

-----------------------------------------------------------------------------
(* The list.                                                               *)

Listed(n) == [x \in Things |-> DataAt(n)[x].conn]

\* What is selected stays so while it is listed; the first connection takes its place.
refresh(c) ==
  /\ c.what = "refresh"
  /\ \E n \in c.asked..Len(past) :
       LET known == Listed(n)
           there == {x \in Things : known[x] # "no"}
           p == [pane EXCEPT !.known = known]
       IN \E first \in IF pane.selected \in there THEN {pane.selected} ELSE IF there = {} THEN {None} ELSE there :
            IF c.item \notin {None, "run"}
            THEN Effects([p EXCEPT !.selected = c.item, !.setup = NoSetup], (calls \ {c}) \cup {Call("refresh", "run")})
            ELSE Effects([p EXCEPT !.selected = first, !.working = @ /\ c.item # "run"], calls \ {c})
  /\ UNCHANGED <<past, heard, acts, faults>>
RefreshFailed(c) ==
  /\ c.what = "refresh" /\ Failing
  /\ pane' = [pane EXCEPT !.working = @ /\ c.item = None]
  /\ calls' = calls \ {c}
  /\ UNCHANGED <<past, heard, acts>>

Hear ==
  /\ heard < Len(past)
  /\ \/ /\ heard' = heard + 1 /\ UNCHANGED faults
        /\ Effects([pane EXCEPT !.known = [x \in Things |-> IF past[heard + 1].what = x THEN Listed(heard + 1)[x] ELSE pane.known[x]]], calls)
     \/ heard' = Len(past) /\ heard + 1 < Len(past) /\ Failing /\ calls' = Asked(calls, {"refresh"}) /\ UNCHANGED pane
  /\ UNCHANGED <<past, acts>>

Does(p) == Effects(p, calls) /\ Idle /\ Acts
setSelectedID ==
  ~Open(pane) /\ \E x \in Things : pane.known[x] # "no" /\ x # pane.selected /\ Does([pane EXCEPT !.selected = x])
refreshAll == pane' = pane /\ calls' = Asked(calls, {"refresh"}) /\ Idle /\ Acts
setCreateOpen == Does([pane EXCEPT !.create = ~@, !.setup = NoSetup])

-----------------------------------------------------------------------------
(* The form an account is connected with.                                  *)

\* From what is shown of an account: to add a conversation once it is known to work.
openSetup ==
  /\ Discovers /\ ~Open(pane) /\ Selected(pane) # None
  /\ LET x == Selected(pane)
         mode == IF pane.discovery.of = x /\ Ready(pane.discovery) THEN "add" ELSE "connect"
     IN /\ pane' = [pane EXCEPT !.create = FALSE, !.setup = [NoSetup EXCEPT !.mode = mode], !.loading = TRUE]
        /\ calls' = calls \cup {Discover(x, None)}
  /\ Idle /\ Acts
openNewSetup ==
  /\ Discovers /\ pane.create /\ ~Open(pane) /\ ~pane.working
  /\ Does([pane EXCEPT !.create = FALSE, !.setup = [NoSetup EXCEPT !.mode = "connect"], !.discovery = NoDiscovery])
closeSetup == Open(pane) /\ Does([pane EXCEPT !.setup = NoSetup])
onAdvanced == Open(pane) /\ Does([pane EXCEPT !.setup = NoSetup, !.create = TRUE])

verifyCredentials ==
  /\ Open(pane) /\ ~pane.loading /\ ~Ready(pane.discovery)
  /\ \E x \in Things : calls' = calls \cup {Call("credentials", x)}
  /\ pane' = [pane EXCEPT !.loading = TRUE]
  /\ Idle /\ Acts

Choosing == Open(pane) /\ ~pane.loading /\ Ready(pane.discovery)
onRefreshDiscovery ==
  /\ Choosing
  /\ pane' = [pane EXCEPT !.loading = TRUE]
  /\ calls' = calls \cup {Discover(pane.discovery.of, None)}
  /\ Idle /\ Acts
\* A conversation is one of the account that was told of last.
setChatID == Choosing /\ pane.setup.chat # pane.discovery.of /\ Does([pane EXCEPT !.setup.chat = pane.discovery.of])
selectExternal ==
  /\ Choosing /\ pane.provider = "parall"
  /\ \E agent \in Identities \ {pane.setup.agent} :
       /\ pane' = [pane EXCEPT !.setup.agent = agent, !.loading = TRUE]
       /\ calls' = calls \cup {Discover(pane.discovery.of, agent)}
  /\ Idle /\ Acts

-----------------------------------------------------------------------------
(* Commands, one at a time.                                                *)

Runs(p, what, item, made) ==
  /\ ~pane.working
  /\ pane' = [p EXCEPT !.working = TRUE]
  /\ calls' = calls \cup {[Call(what, item) EXCEPT !.made = made]}
  /\ Idle /\ Acts

\* What was chosen is one of the conversations that are shown.
submit ==
  /\ Choosing
  /\ pane.setup.mode = "add" => pane.setup.chat = pane.discovery.of
  /\ Runs(pane, "setup", pane.discovery.of, <<pane.setup>>)
createConnection ==
  /\ ~Discovers /\ pane.create
  /\ \E x \in Things : Data[x].conn = "no" /\ Runs(pane, "create", x, <<>>)
toggleConnection ==
  ~Open(pane) /\ Selected(pane) # None
    /\ Runs(pane, "toggle", pane.selected, <<IF pane.known[pane.selected] = "on" THEN "off" ELSE "on">>)
restartGateway ==
  /\ pane.provider = "parall" /\ ~Open(pane) /\ Selected(pane) # None
  /\ Runs(pane, "gateway", pane.selected, <<>>)

\* An address of the selected connection, a new one or one that is changed.
startBind ==
  ~Open(pane) /\ Selected(pane) # None /\ \E x \in {"new", pane.selected} : Does([pane EXCEPT !.bind = x])
resetAddressForm == ~Open(pane) /\ pane.bind # None /\ Does([pane EXCEPT !.bind = None])
bindAddress == ~Open(pane) /\ Selected(pane) # None /\ pane.bind # None /\ Runs(pane, "bind", pane.bind, <<>>)
toggleAddress == ~Open(pane) /\ Selected(pane) # None /\ Runs(pane, "toggle-address", pane.selected, <<>>)

Commands == {"setup", "create", "toggle", "gateway", "bind", "toggle-address"}
\* An account is connected before its conversation is looked for.
HubServes(c) ==
  /\ ~c.done /\ c.what \in Commands \cup {"credentials"}
  /\ IF c.what = "credentials" THEN Changed("credentials", c.item, [Data[c.item] EXCEPT !.stored = TRUE])
     ELSE LET conn == CASE c.what = "toggle" -> c.made[1] [] c.what \in {"setup", "create"} -> "on" [] OTHER -> "same"
          IN IF conn = "same" \/ conn = Data[c.item].conn THEN UNCHANGED past
             ELSE Changed(c.item, c.item, [Data[c.item] EXCEPT !.conn = conn])
  /\ calls' = (calls \ {c}) \cup {[c EXCEPT !.done = TRUE]}
  /\ UNCHANGED <<heard, pane, acts, faults>>
Misplaced(c) == c.what = "setup" /\ c.made[1].chat \notin {None, c.item}

\* The form is closed, and the connection selected, once it is listed.
Done(c) ==
  /\ c.what \in Commands /\ c.done /\ ~Misplaced(c)
  /\ LET p == CASE c.what = "create" -> [pane EXCEPT !.selected = c.item, !.create = FALSE]
                [] c.what = "bind" -> [pane EXCEPT !.bind = None]
                [] c.what = "gateway" -> [pane EXCEPT !.loading = TRUE]
                [] OTHER -> pane
         next == CASE c.what = "setup" -> Call("refresh", c.item)
                   [] c.what = "gateway" -> [Discover(c.item, None) EXCEPT !.what = "discover-run"]
                   [] OTHER -> Call("refresh", "run")
     IN Effects(p, (calls \ {c}) \cup {next})
  /\ Idle /\ UNCHANGED acts
Verified(c) ==
  /\ c.what = "credentials" /\ c.done
  /\ pane' = Discovered(pane, [NoDiscovery EXCEPT !.of = c.item, !.ready = TRUE])
  /\ calls' = calls \ {c} /\ Idle /\ UNCHANGED acts
Refused(c) ==
  /\ c.what \in Commands \cup {"credentials"}
  /\ Failing \/ (c.done /\ Misplaced(c) /\ UNCHANGED faults)
  /\ pane' = IF c.what = "credentials" THEN [pane EXCEPT !.loading = FALSE] ELSE [pane EXCEPT !.working = FALSE]
  /\ calls' = calls \ {c}
  /\ UNCHANGED <<past, heard, acts>>

\* Another client enables or disables a connection.
HubMoves == \E x \in {t \in Things : Data[t].conn # "no"} : \E conn \in {"on", "off"} \ {Data[x].conn} : HubChanges(x, x, [Data[x] EXCEPT !.conn = conn])

ExternalNext ==
  \/ HubMoves \/ Hear
  \/ setSelectedID \/ refreshAll \/ setCreateOpen
  \/ openSetup \/ openNewSetup \/ closeSetup \/ onAdvanced \/ verifyCredentials \/ onRefreshDiscovery \/ setChatID \/ selectExternal
  \/ submit \/ createConnection \/ toggleConnection \/ restartGateway \/ startBind \/ resetAddressForm \/ bindAddress \/ toggleAddress
  \/ \E c \in calls : \/ discover(c) \/ refresh(c) \/ RefreshFailed(c) \/ HubServes(c) \/ Done(c) \/ Verified(c) \/ Refused(c)
=============================================================================
