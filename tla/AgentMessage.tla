---------------------------- MODULE AgentMessage ----------------------------
(***************************************************************************)
(* The record CodexLoom keeps for one message between Agents, and what the *)
(* Hub does to the message table at each step of delivery and handling     *)
(* (internal/hub/communication.go, hub.go).  Every operator maps a table   *)
(* (or one record) to the table the code commits; the module has no        *)
(* variables.  Two orthogonal lifecycles share the record: "status" and    *)
(* "resolution" say whether the request is answered, "delivery" and        *)
(* "handling" whether it reached the recipient's Codex Thread and what     *)
(* became of the Turn that handles it.                                     *)
(***************************************************************************)
EXTENDS Naturals, Sequences

CONSTANTS Agents,     \* registered Agents
          Msgs,       \* message ids
          Scheduler,  \* the system sender of schedules; never a recipient Turn
          None,       \* absence of a message
          MaxTurnId   \* bound on the Codex Turn ids of a behaviour

ASSUME MessageAssumption ==
  /\ MaxTurnId \in Nat
  /\ Scheduler \notin Agents
  /\ None \notin Msgs

TurnId     == 0..MaxTurnId      \* 0: the Turn id is not known yet
Sender     == Agents \cup {Scheduler}
Outcome    == {"completed", "interrupted", "failed"}
Delivery   == {"absent", "queued", "delivering", "delivered", "failed", "cancelled"}
Resolution == {"none", "reply", "no_reply", "cancelled", "superseded"}
Attempt    == [turn: TurnId, status: {"running"} \cup Outcome]

Message ==
  [from: Sender, to: Sender, response: {"required", "none"},
   replyTo: Msgs \cup {None}, source: TurnId,
   status: {"open", "answered", "closed"}, resolution: Resolution,
   delivery: Delivery, mode: {"none", "turn_start", "turn_steer"}, turn: TurnId,
   handling: {"pending", "running"} \cup Outcome,
   attempts: Seq(Attempt), active: Nat]

NoMessage ==
  [from |-> Scheduler, to |-> Scheduler, response |-> "none", replyTo |-> None,
   source |-> 0, status |-> "closed", resolution |-> "none",
   delivery |-> "absent", mode |-> "none", turn |-> 0, handling |-> "pending",
   attempts |-> <<>>, active |-> 0]

(* A turnState: the message it carries (None for Owner or remote work), the   *)
(* Codex Turn id once known, and the handling attempt it runs.                *)
Turn == [agent: Agents \cup {None}, msg: Msgs \cup {None}, id: TurnId, attempt: Nat,
         confirmed: BOOLEAN, finished: BOOLEAN, interrupting: BOOLEAN]

NoTurn == [agent |-> None, msg |-> None, id |-> 0, attempt |-> 0,
           confirmed |-> FALSE, finished |-> TRUE, interrupting |-> FALSE]

----------------------------------------------------------------------------
(* New records. *)

NewRequest(from, to, response, source) ==
  [NoMessage EXCEPT !.from = from, !.to = to, !.response = response,
     !.source = source, !.delivery = "queued",
     !.status = IF response = "required" THEN "open" ELSE "closed"]

(* A reply to the Scheduler has no Turn to start: it is born delivered. *)
NewReply(orig, root, source) ==
  [NoMessage EXCEPT !.from = root.to, !.to = root.from, !.replyTo = orig,
     !.source = source, !.resolution = "reply",
     !.delivery = IF root.from = Scheduler THEN "delivered" ELSE "queued"]

----------------------------------------------------------------------------
(* Changes of one record. *)

Unsent(msg) == msg.delivery \in {"queued", "delivering"}

Closed(msg, resolution) ==
  [msg EXCEPT !.status = "closed", !.resolution = resolution]

(* Cancel and Resolve take an undelivered message out of the queue as well. *)
Withdrawn(msg, resolution) ==
  [Closed(msg, resolution) EXCEPT !.delivery = IF Unsent(msg) THEN "cancelled" ELSE @]

(* Retry and Continue: the same id goes back to the queue, its handling       *)
(* history is kept.                                                           *)
Requeued(msg) ==
  [msg EXCEPT !.delivery = "queued", !.mode = "none", !.turn = 0,
              !.handling = "pending", !.active = 0]

Delivered(msg, mode, turn) ==
  [msg EXCEPT !.delivery = "delivered", !.mode = mode, !.turn = turn]

(* The attempt that a Turn's start is recorded in: the Turn's own, else the   *)
(* running one, else a new one.                                               *)
AttemptOf(msg, o) ==
  IF o.attempt \in DOMAIN msg.attempts THEN o.attempt
  ELSE IF msg.active \in DOMAIN msg.attempts /\ msg.attempts[msg.active].status = "running"
       THEN msg.active
       ELSE Len(msg.attempts) + 1

StartedAttempts(msg, o) ==
  LET k == AttemptOf(msg, o)
  IN  IF k \notin DOMAIN msg.attempts
      THEN Append(msg.attempts, [turn |-> o.id, status |-> "running"])
      ELSE [msg.attempts EXCEPT ![k].turn = IF @ = 0 THEN o.id ELSE @]

Started(msg, o) ==
  [msg EXCEPT
     !.delivery = "delivered",
     !.mode     = IF msg.delivery = "delivering" THEN "turn_start" ELSE @,
     !.turn     = IF msg.delivery = "delivering" THEN o.id ELSE @,
     !.handling = "running",
     !.attempts = StartedAttempts(msg, o),
     !.active   = AttemptOf(msg, o)]

----------------------------------------------------------------------------
(* Changes of the table. *)

(* Mutant: a reply answers its request as soon as it is written. *)
AnsweredEarly(c, r) ==
  IF c[r].replyTo # None /\ c[c[r].replyTo].status = "open"
  THEN [c EXCEPT ![c[r].replyTo].status = "answered",
                 ![c[r].replyTo].resolution = "reply"]
  ELSE c

(* A delivered reply answers the request it replies to, if still open. *)
Answered(c, r) ==
  IF /\ c[r].replyTo # None
     /\ c[r].delivery = "delivered"
     /\ c[c[r].replyTo].status = "open"
  THEN [c EXCEPT ![c[r].replyTo].status = "answered",
                 ![c[r].replyTo].resolution = "reply"]
  ELSE c

(* Codex confirmed the Turn of o: its message is delivered and handled. *)
Markable(c, o) ==
  /\ o.msg # None
  /\ o.id # 0
  /\ c[o.msg].delivery \in {"delivering", "delivered"}

(* Mutant: the reply's delivery does not answer the request. *)
RunningUnanswered(c, o) ==
  IF Markable(c, o) THEN [c EXCEPT ![o.msg] = Started(@, o)] ELSE c

Running(c, o) ==
  IF ~Markable(c, o) THEN c
  ELSE LET next == [c EXCEPT ![o.msg] = Started(@, o)]
       IN  IF c[o.msg].delivery = "delivering" THEN Answered(next, o.msg) ELSE next

RunningTurn(c, o) ==
  IF Markable(c, o) THEN [o EXCEPT !.attempt = AttemptOf(c[o.msg], o)] ELSE o

(* The attempt that the end of a Turn is recorded in. *)
EndedAttempts(msg, o, status) ==
  LET own == IF o.attempt # 0 THEN {o.attempt}
             ELSE IF msg.active # 0 THEN {msg.active}
             ELSE {k \in DOMAIN msg.attempts : o.id # 0 /\ msg.attempts[k].turn = o.id}
      ks  == own \cap DOMAIN msg.attempts
  IN  IF ks = {} THEN Append(msg.attempts, [turn |-> o.id, status |-> status])
      ELSE [msg.attempts EXCEPT ![CHOOSE k \in ks : \A j \in ks : k <= j].status = status]

(* Turn o is over.  A message whose Turn was never confirmed has failed to    *)
(* deliver; one that was delivered stays so, and its attempt takes the        *)
(* status.  A message that meanwhile belongs to another Turn is left alone.   *)
Ended(c0, o0, status) ==
  LET begun == o0.msg # None /\ o0.id # 0 /\ c0[o0.msg].delivery = "delivering"
      c == IF begun THEN Running(c0, o0) ELSE c0
      o == IF begun THEN RunningTurn(c0, o0) ELSE o0
  IN  IF \/ o.msg = None
         \/ c[o.msg].delivery \notin {"delivering", "delivered"}
         \/ c[o.msg].turn # 0 /\ o.id # 0 /\ c[o.msg].turn # o.id
      THEN c
      ELSE IF c[o.msg].delivery = "delivering"
      THEN [c EXCEPT ![o.msg].delivery = "failed", ![o.msg].handling = "pending"]
      ELSE [c EXCEPT ![o.msg].attempts = EndedAttempts(c[o.msg], o, status),
                     ![o.msg].handling = status,
                     ![o.msg].active = 0]

(* Codex announced id for a Turn reserved under another id, or none. *)
ReboundTurn(c, o, id) == RunningTurn(c, [o EXCEPT !.id = id])

ReboundAttempts(q, k, old, id) ==
  [j \in DOMAIN q |-> IF j = k /\ q[j].turn \in {0, old}
                     THEN [q[j] EXCEPT !.turn = id] ELSE q[j]]

Rebound(c0, o, id) ==
  LET c == Running(c0, [o EXCEPT !.id = id])
      k == IF ReboundTurn(c0, o, id).attempt # 0 THEN ReboundTurn(c0, o, id).attempt
           ELSE IF o.msg = None THEN 0 ELSE c[o.msg].active
  IN  IF o.msg = None THEN c
      ELSE [c EXCEPT
             ![o.msg].turn = IF @ \in {0, o.id} THEN id ELSE @,
             ![o.msg].attempts = ReboundAttempts(@, k, o.id, id)]

----------------------------------------------------------------------------
(* Startup. *)

(* Mutant: a claimed message stays claimed. *)
LoadedClaimed(msg) == msg

(* Mutant: a message in handling is queued again as well. *)
LoadedAgain(msg) ==
  [msg EXCEPT !.delivery = IF @ = "delivering" \/ msg.handling = "running" THEN "queued" ELSE @]

(* What a stored record becomes when the next process loads it: a delivery    *)
(* that was in flight is queued again.                                        *)
Loaded(msg) ==
  [msg EXCEPT !.delivery = IF @ = "delivering" THEN "queued" ELSE @]

(* A stored delivered reply answers its request even if the process died      *)
(* between the two records.                                                   *)
Reconciled(c) ==
  [m \in Msgs |->
     IF /\ c[m].status = "open" /\ c[m].response = "required"
        /\ \E r \in Msgs : /\ c[r].replyTo = m /\ c[r].resolution = "reply"
                           /\ c[r].delivery = "delivered"
     THEN [c[m] EXCEPT !.status = "answered", !.resolution = "reply"]
     ELSE c[m]]
=============================================================================
