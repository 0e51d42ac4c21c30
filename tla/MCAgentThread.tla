---------------------------- MODULE MCAgentThread ----------------------------
(* Three Threads for AgentThread: a Turn that runs to its end, one that asks *)
(* for an approval, and one that is interrupted and followed by another      *)
(* Agent's request.                                                          *)
EXTENDS AgentThread

Managed(tag) == [text |-> <<Text>>, context |-> [origin |-> "agent", payload |-> <<tag>>]]

Ev(type, id, seq) == [type |-> type, id |-> id, seq |-> seq, ts |-> seq + 1]
Item(type, of, id, seq, text) ==
  [type |-> type, of |-> of, id |-> id, seq |-> seq, ts |-> seq + 1, text |-> text, final |-> TRUE]
User(id, seq, prompt) == [type |-> "loom/user-message", id |-> id, seq |-> seq, ts |-> seq + 1, prompt |-> prompt]
Step(turn, ev) == [turn |-> turn, ev |-> ev, item |-> <<>>]
Kept(turn, ev, kind) ==
  [turn |-> turn, ev |-> ev, item |-> <<[kind |-> kind, id |-> ev.id, ts |-> ev.ts, text |-> ev.text]>>]
KeptUser(turn, ev) ==
  [turn |-> turn, ev |-> ev, item |-> <<[kind |-> "user", id |-> ev.id, ts |-> ev.ts, prompt |-> ev.prompt]>>]

Whole == 2

RunsToItsEnd == <<
  Step(1, Item("delta", "agentMessage", "a1", 1, 1)),
  Step(1, Ev("loom/artifact-published", "f1", 2)),
  Kept(1, Item("item/completed", "agentMessage", "a1", 3, Whole), "answer"),
  Step(1, Ev("loom/turn-completed", "t1", 4)) >>

AsksForApproval == <<
  Step(1, Ev("loom/approval-requested", "p1", 1)),
  Step(1, Ev("loom/approval-resolved", "p1", 2)),
  Kept(1, Item("item/completed", "commandExecution", "c1", 3, Whole), "command") >>

IsInterrupted == <<
  Step(1, Item("delta", "agentMessage", "a1", 1, 1)),
  Step(1, Ev("loom/turn-interrupted", "t1", 2)),
  KeptUser(2, User("u2", 3, Managed("agent_message"))) >>

MCScripts == {RunsToItsEnd, AsksForApproval, IsInterrupted}
MCPastTurns == <<[id |-> 0, ts |-> 1, usage |-> TRUE,
                  items |-> <<[kind |-> "answer", id |-> "a0", ts |-> 1, text |-> Whole]>>]>>
=============================================================================
