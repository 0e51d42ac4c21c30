---------------------------- MODULE RequestLedger ----------------------------
(***************************************************************************)
(* What the communication ledger promises to the Agents, whatever happens  *)
(* to delivery: a request is open until a reply reaches the Agent that     *)
(* asked, or until one side closes it; "answered" is final, a closed       *)
(* request never opens again, and a reply that arrived is never forgotten. *)
(* AgentDelivery implements this specification.                            *)
(***************************************************************************)
CONSTANTS Msgs, None

VARIABLES
  state,    \* of each message id: unused, open, answered or closed
  replyTo,  \* the request a message replies to, or None
  reached   \* the replies that reached the Agent that asked

ledger == <<state, replyTo, reached>>

States == {"unused", "open", "answered", "closed"}

LedgerTypeOK ==
  /\ state \in [Msgs -> States]
  /\ replyTo \in [Msgs -> Msgs \cup {None}]
  /\ reached \subseteq Msgs

LedgerInit ==
  /\ state = [m \in Msgs |-> "unused"]
  /\ replyTo = [m \in Msgs |-> None]
  /\ reached = {}

(* A message that wants no response is born closed. *)
Send(m) ==
  /\ state[m] = "unused"
  /\ \E s \in {"open", "closed"} : state' = [state EXCEPT ![m] = s]
  /\ UNCHANGED <<replyTo, reached>>

(* The requests that the arrival of the replies S answers. *)
After(st, reply, S) ==
  [m \in Msgs |-> IF st[m] = "open" /\ \E r \in S : reply[r] = m THEN "answered" ELSE st[m]]

(* A reply to the Scheduler arrives the moment it is written. *)
Reply(r, m) ==
  /\ state[r] = "unused" /\ state[m] = "open"
  /\ replyTo' = [replyTo EXCEPT ![r] = m]
  /\ \E S \in SUBSET {r} :
       /\ reached' = reached \cup S
       /\ state' = After([state EXCEPT ![r] = "closed"], replyTo', S)

(* Several replies may arrive at once: a CodexHost exit settles every Turn. *)
Reach(S) ==
  /\ \A r \in S : replyTo[r] # None
  /\ reached' = reached \cup S
  /\ state' = After(state, replyTo, S)
  /\ UNCHANGED replyTo

Close(m) ==
  /\ state[m] = "open"
  /\ state' = [state EXCEPT ![m] = "closed"]
  /\ UNCHANGED <<replyTo, reached>>

LedgerNext ==
  \/ \E m \in Msgs : Send(m) \/ Close(m)
  \/ \E r, m \in Msgs : Reply(r, m)
  \/ \E S \in SUBSET Msgs : Reach(S)

LedgerSpec == LedgerInit /\ [][LedgerNext]_ledger
=============================================================================
