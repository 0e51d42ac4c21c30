-------------------------- MODULE DeliveryTurns_proofs --------------------------
(***************************************************************************)
(* Which Turn may still touch which message, for every number of Agents,   *)
(* messages and workers, and what follows from it: a steered reply entered *)
(* the Turn that asked, a message a Turn has taken is not sent again by    *)
(* itself, and delivery implements the ledger the Agents see.              *)
(*                                                                         *)
(* A Turn stands while it is not finished and its Agent is registered: an  *)
(* archived Agent's Turn record survives until its worker lets go, but     *)
(* nothing more happens to it.                                             *)
(***************************************************************************)
EXTENDS AgentDelivery_proofs

Standing(s) == ~turns[s].finished /\ Registered(turns[s].agent)

(* The worker's send began no Turn.                                           *)
Fresh(w) ==
  \/ workers[w].phase \in {"sending", "steering", "steered"}
  \/ workers[w].phase = "returning" /\ workers[w].result = "busy"

(* Nor has it one any more.                                                   *)
Turnless(w) ==
  \/ Fresh(w) \/ workers[w].phase = "lost"
  \/ workers[w].phase = "returning" /\ workers[w].result = "error"

(* A Turn that stands is the current one of its Agent, and only a shutdown     *)
(* leaves a finished one current.                                             *)
Placed ==
  /\ \A s \in Slots : ~turns[s].finished => turns[s].agent \in Agents
  /\ \A s \in Slots : Standing(s) => active[turns[s].agent] = s
  /\ \A a \in Agents : /\ active[a] \in Workers \cup {a, None}
                       /\ active[a] # None => Live(a) \/ stopping
                       /\ Live(a) => TurnOf(a).agent = a /\ Registered(a)

(* Turns and workers carry messages of their Agent.                           *)
Carrying ==
  /\ \A s \in Slots, m \in Msgs : turns[s].msg = m /\ ~turns[s].finished =>
       Known(m) /\ turns[s].agent = comms[m].to
  /\ \A w \in Workers, m \in Msgs : Holding(workers, w, m) => workers[w].agent = comms[m].to

(* A worker and the Turn it reserved.                                         *)
Serves(w) ==
  /\ workers[w].phase # "idle" /\ ~turns[w].finished => turns[w].agent = workers[w].agent
  /\ Turnless(w) => ~Standing(w)
  /\ workers[w].phase = "accepted" => workers[w].turn # 0
  /\ workers[w].phase = "returning" /\ ~Turnless(w) /\ ~turns[w].finished => turns[w].id # 0

Serving == \A w \in Workers : Serves(w)

(* Codex numbers its Turns from 1.                                            *)
Numbered ==
  \A a \in Agents : /\ \A i \in 1..Len(notes[a]) : notes[a][i].id # 0
                    /\ codex[a].status = "running" => codex[a].id # 0

TurnsInv == Placed /\ Carrying /\ Serving /\ Numbered

(* A message no operator sent again twice.                                    *)
Early(m) == comms[m].replyTo # None \/ spent.retries <= 1

(* It is not handled before it is delivered; while a send has it that began    *)
(* no Turn, no Turn has it; and one that a standing Turn carries is not        *)
(* offered to another.                                                        *)
Calm(m) ==
  /\ comms[m].delivery \in {"queued", "delivering"} => comms[m].handling = "pending"
  /\ \A w \in Workers : Holding(workers, w, m) /\ Fresh(w) =>
       /\ comms[m].delivery # "queued" /\ comms[m].handling = "pending"
       /\ \A v \in Workers \ {w} : ~(Holding(workers, v, m) /\ Fresh(v))
       /\ \A s \in Slots : turns[s].msg = m => turns[s].finished
  /\ \A s \in Slots : turns[s].msg = m /\ Standing(s) =>
       /\ comms[m].delivery # "queued"
       /\ turns[s].id # 0 => comms[m].delivery # "delivering"

(* Before the first Retry or Continue a message has one holder, and the Turn   *)
(* that carries it is the one its record names.                               *)
Once(m) ==
  /\ \A w \in Workers : Holding(workers, w, m) =>
       /\ comms[m].delivery # "queued"
       /\ \A v \in Workers \ {w} : ~Holding(workers, v, m)
       /\ Fresh(w) => comms[m].delivery \notin {"delivered", "failed"}
       /\ \A s \in Slots : turns[s].msg = m /\ Standing(s) => s = w
  /\ \A s \in Slots : turns[s].msg = m /\ Standing(s) =>
       /\ comms[m].delivery # "failed" /\ comms[m].handling \in {"pending", "running"}
       /\ comms[m].delivery = "delivered" /\ comms[m].status = "open" =>
            turns[s].id # 0 /\ comms[m].turn = turns[s].id

(* An unused id was never handled; a cancelled request is not open.           *)
Unhandled(m) ==
  /\ comms[m].delivery = "absent" => comms[m].handling = "pending"
  /\ comms[m].delivery = "cancelled" => comms[m].status # "open"

Kept(m) == Unhandled(m) /\ (Early(m) => Calm(m)) /\ (spent.retries = 0 => Once(m))

OrderInv == \A m \in Msgs : Kept(m)

(* A steering worker holds a reply and aims at the Turn that asked; a steered  *)
(* reply is in that Turn and in nobody's hands.                               *)
SteerInv ==
  /\ \A m \in Msgs : comms[m].replyTo # None => Known(comms[m].replyTo)
  /\ \A w \in Workers : workers[w].phase \in {"steering", "steered"} =>
       /\ comms[workers[w].msg].replyTo # None
       /\ workers[w].turn = comms[comms[workers[w].msg].replyTo].source
  /\ \A m \in Msgs : comms[m].mode = "turn_steer" =>
       /\ comms[m].replyTo # None /\ comms[m].delivery = "delivered"
       /\ comms[m].turn = comms[comms[m].replyTo].source
       /\ \A w \in Workers : ~Holding(workers, w, m)
       /\ \A s \in Slots : turns[s].msg = m => turns[s].finished

(* A reply that arrived has closed its request.                               *)
ArrivedAnswers(c) ==
  \A r \in Msgs : c[r].replyTo # None /\ Arrived(c[r]) => c[c[r].replyTo].status # "open"

----------------------------------------------------------------------------
(* Where the Turns are.                                                       *)

(* No Agent comes back from the archive.                                      *)
Archives == \A a \in Agents : meta'[a].status # "archived" => meta[a].status # "archived"

OldTurn(s) ==
  /\ ~turns[s].finished /\ turns'[s].agent = turns[s].agent /\ turns'[s].msg = turns[s].msg
  /\ turns[s].id # 0 => turns'[s].id # 0

(* The Turns that go on are old ones.                                         *)
Fades == \A s \in Slots : ~turns'[s].finished => OldTurn(s)

(* A new one carries no message.                                              *)
Grows == \A s \in Slots : ~turns'[s].finished => OldTurn(s) \/ (s \in Agents /\ turns'[s].msg = None)

LEMMA FadesGrows == Fades => Grows
BY DEF Fades, Grows

LEMMA PlacedFades ==
  ASSUME TypeOK, Placed, Archives, Fades,
         \A s \in Slots : ~turns'[s].finished /\ Registered(turns[s].agent)
           => \/ active'[turns[s].agent] = active[turns[s].agent]
              \/ meta'[turns[s].agent].status = "archived",
         \A a \in Agents : active'[a] # None =>
           /\ active'[a] = active[a]
           /\ Registered(a) => meta'[a].status # "archived"
           /\ stopping \/ turns'[active[a]].finished => stopping'
  PROVE  Placed'
<1>1. ASSUME NEW s \in Slots, ~turns'[s].finished
      PROVE  /\ turns'[s].agent \in Agents
             /\ meta'[turns'[s].agent].status # "archived" => active'[turns'[s].agent] = s
  BY <1>1 DEF Fades, OldTurn, Placed, Archives, Standing, Registered
<1>2. ASSUME NEW a \in Agents, active'[a] # None
      PROVE  /\ active'[a] \in Workers \cup {a, None}
             /\ ~turns'[active'[a]].finished \/ stopping'
  BY <1>2 DEF Placed
<1>3. ASSUME NEW a \in Agents, active'[a] # None, ~turns'[active'[a]].finished
      PROVE  turns'[active'[a]].agent = a /\ meta'[a].status # "archived"
  <2>1. active'[a] = active[a] /\ active[a] \in Slots
    BY <1>3 DEF TypeOK, RuntimeOK
  <2>2. Live(a) /\ turns'[active'[a]].agent = turns[active[a]].agent
    BY <1>3, <2>1 DEF Fades, OldTurn, Live
  <2>3. QED BY <1>3, <2>1, <2>2 DEF Placed, TurnOf
<1>4. ASSUME NEW a \in Agents
      PROVE  active'[a] \in Workers \cup {a, None}
  BY <1>2
<1>5. QED BY <1>1, <1>2, <1>3, <1>4 DEF Placed, Standing, Registered, Live, TurnOf

(* A step that leaves the Turns and their Agents alone.                        *)
LEMMA PlacedQuiet ==
  ASSUME TypeOK, Placed, UNCHANGED <<turns, active>>, stopping => stopping',
         \A a \in Agents : meta'[a].status = "archived" <=> meta[a].status = "archived"
  PROVE  Placed' /\ Archives /\ Fades
<1>1. Archives /\ Fades
  BY DEF Archives, Fades, OldTurn
<1>2. ASSUME NEW a \in Agents, active[a] # None
      PROVE  stopping \/ turns[active[a]].finished => stopping'
  BY <1>2 DEF Placed, Live
<1>3. QED BY <1>1, <1>2, PlacedFades DEF Registered

(* Turns that are confirmed, started or renamed.                               *)
LEMMA PlacedSame ==
  ASSUME TypeOK, Placed, UNCHANGED active, stopping => stopping',
         \A a \in Agents : meta'[a].status = "archived" <=> meta[a].status = "archived",
         \A s \in Slots : /\ turns'[s].finished = turns[s].finished
                          /\ turns'[s].agent = turns[s].agent /\ turns'[s].msg = turns[s].msg
                          /\ turns[s].id # 0 => turns'[s].id # 0
  PROVE  Placed' /\ Archives /\ Fades
<1>1. Archives /\ Fades
  BY DEF Archives, Fades, OldTurn
<1>2. ASSUME NEW a \in Agents, active[a] # None
      PROVE  stopping \/ turns'[active[a]].finished => stopping'
  BY <1>2 DEF Placed, Live, TypeOK, RuntimeOK
<1>3. QED BY <1>1, <1>2, PlacedFades DEF Registered

LEMMA SlotNotNone == None \notin Slots
BY DeliveryAssumption DEF Slots

(* The end of an Agent's Turn.                                                *)
LEMMA PlacedFinish ==
  ASSUME TypeOK, Placed, UNCHANGED stopping,
         NEW a \in Agents, Live(a), NEW o \in Turn, NEW status, NEW c,
         FinishTurn(a, o, status, c)
  PROVE  /\ Placed' /\ Archives /\ Fades
         /\ turns'[active[a]].finished /\ \A s \in Slots \ {active[a]} : turns'[s] = turns[s]
<1>1. active[a] \in Slots /\ Registered(a)
  BY LiveTurnType DEF Placed
<1>2. Over(active[a], o).finished
  BY DEF Over, NoTurn, Turn
<1>3. turns'[active[a]].finished /\ \A s \in Slots \ {active[a]} : turns'[s] = turns[s]
  BY <1>1, <1>2 DEF FinishTurn, TypeOK, RuntimeOK
<1>4. active'[a] = None /\ \A b \in Agents \ {a} : active'[b] = active[b]
  BY DEF FinishTurn, TypeOK, RuntimeOK
<1>5. meta'[a] = IdleAgent /\ \A b \in Agents \ {a} : meta'[b] = meta[b]
  BY DEF FinishTurn, TypeOK, RuntimeOK
<1>6. Archives /\ Fades
  BY <1>1, <1>3, <1>5 DEF Archives, Fades, OldTurn, Registered
<1>7. ASSUME NEW s \in Slots, ~turns'[s].finished, Registered(turns[s].agent)
      PROVE  active'[turns[s].agent] = active[turns[s].agent]
  <2>1. ~turns[s].finished /\ s # active[a]
    BY <1>3, <1>6, <1>7 DEF Fades, OldTurn
  <2>2. turns[s].agent \in Agents /\ active[turns[s].agent] = s
    BY <1>7, <2>1 DEF Placed, Standing
  <2>3. QED BY <1>4, <2>1, <2>2
<1>8. ASSUME NEW b \in Agents, active'[b] # None
      PROVE  /\ active'[b] = active[b]
             /\ Registered(b) => meta'[b].status # "archived"
             /\ stopping \/ turns'[active[b]].finished => stopping'
  <2>1. b # a /\ active'[b] = active[b] /\ meta'[b] = meta[b]
    BY <1>4, <1>5, <1>8
  <2>2. CASE stopping
    BY <2>1, <2>2 DEF Registered
  <2>3. CASE ~stopping
    <3>1. Live(b) /\ TurnOf(b).agent = b /\ TurnOf(a).agent = a
      BY <1>8, <2>1, <2>3 DEF Placed
    <3>2. active[b] # active[a] /\ active[b] \in Slots
      BY <2>1, <3>1, LiveTurnType DEF TurnOf
    <3>3. ~turns'[active[b]].finished
      BY <1>3, <3>1, <3>2 DEF Live
    <3>4. QED BY <2>1, <2>3, <3>3 DEF Registered
  <2>4. QED BY <2>2, <2>3
<1>9. Placed'
  BY <1>6, <1>7, <1>8, PlacedFades
<1>10. QED BY <1>3, <1>6, <1>9

(* An Agent takes over the Turn Codex runs on its Thread.                      *)
LEMMA PlacedSucceed ==
  ASSUME TypeOK, Placed, UNCHANGED stopping,
         NEW a \in Agents, Registered(a), NEW id, NEW interrupting,
         Succeed(a, id, interrupting)
  PROVE  /\ Placed' /\ Archives /\ Grows
         /\ turns'[a].msg = None /\ (Live(a) => active[a] = a \/ turns'[active[a]].finished)
         /\ \A s \in Slots \ {a} : turns'[s] = turns[s] \/ turns'[s].finished
<1>1. a \in Slots
  BY DEF Slots
<1>2. /\ turns'[a].agent = a /\ turns'[a].msg = None /\ ~turns'[a].finished
  BY <1>1 DEF Succeed, Adopted, NoTurn
<1>3. /\ active'[a] = a /\ \A b \in Agents \ {a} : active'[b] = active[b]
      /\ meta'[a] = RunningAgent(id) /\ \A b \in Agents \ {a} : meta'[b] = meta[b]
  BY DEF Succeed, TypeOK, RuntimeOK
<1>4. Live(a) => Over(active[a], TurnOf(a)).finished
  BY LiveTurnType DEF Over, NoTurn, Turn
<1>5. ASSUME NEW s \in Slots \ {a}
      PROVE  turns'[s] = IF s = active[a] /\ Live(a) THEN Over(s, TurnOf(a)) ELSE turns[s]
  BY <1>5 DEF Succeed
<1>6. Archives
  BY <1>3 DEF Archives, Registered
<1>7. ASSUME NEW s \in Slots, ~turns'[s].finished
      PROVE  /\ turns'[s].agent \in Agents
             /\ meta'[turns'[s].agent].status # "archived" => active'[turns'[s].agent] = s
  <2>1. CASE s = a
    BY <1>2, <1>3, <2>1
  <2>2. CASE s # a
    <3>1. turns'[s] = turns[s] /\ ~(s = active[a] /\ Live(a))
      BY <1>4, <1>5, <1>7, <2>2
    <3>2. turns[s].agent \in Agents
      BY <1>7, <3>1 DEF Placed
    <3>3. CASE Registered(turns[s].agent)
      <4>1. active[turns[s].agent] = s
        BY <1>7, <3>1, <3>3 DEF Placed, Standing
      <4>2. turns[s].agent # a
        BY <1>7, <3>1, <4>1, SlotNotNone DEF Live
      <4>3. QED BY <1>3, <3>1, <3>2, <4>1, <4>2
    <3>4. CASE ~Registered(turns[s].agent)
      BY <1>6, <3>1, <3>2, <3>4 DEF Archives, Registered
    <3>5. QED BY <3>3, <3>4
  <2>3. QED BY <2>1, <2>2
<1>8. ASSUME NEW b \in Agents \ {a}, active'[b] # None
      PROVE  /\ active'[b] = active[b] /\ active[b] \in Workers \cup {b}
             /\ active[b] \in Slots \ {a} /\ meta'[b] = meta[b]
  <2>1. active'[b] = active[b] /\ active[b] \in Workers \cup {b} /\ meta'[b] = meta[b]
    BY <1>3, <1>8 DEF Placed
  <2>2. QED BY <2>1, DeliveryAssumption DEF Slots
<1>9. ASSUME NEW b \in Agents, active'[b] # None
      PROVE  /\ active'[b] \in Workers \cup {b, None}
             /\ ~turns'[active'[b]].finished \/ stopping'
  <2>1. CASE b = a
    BY <1>2, <1>3, <2>1
  <2>2. CASE b # a /\ stopping
    BY <1>8, <1>9, <2>2
  <2>3. CASE b # a /\ ~stopping
    <3>1. Live(b) /\ TurnOf(b).agent = b
      BY <1>8, <1>9, <2>3 DEF Placed
    <3>2. ~(active[b] = active[a] /\ Live(a))
      BY <2>3, <3>1 DEF Placed, TurnOf
    <3>3. QED BY <1>5, <1>8, <1>9, <2>3, <3>1, <3>2 DEF Live
  <2>4. QED BY <2>1, <2>2, <2>3
<1>10. ASSUME NEW b \in Agents, active'[b] # None, ~turns'[active'[b]].finished
      PROVE  turns'[active'[b]].agent = b /\ meta'[b].status # "archived"
  <2>1. CASE b = a
    BY <1>2, <1>3, <2>1 DEF RunningAgent
  <2>2. CASE b # a
    <3>1. /\ active'[b] = active[b] /\ meta'[b] = meta[b] /\ active[b] \in Slots \ {a}
      BY <1>8, <1>10, <2>2
    <3>2. turns'[active[b]] = turns[active[b]]
      BY <1>4, <1>5, <1>10, <3>1
    <3>3. Live(b)
      BY <1>10, <3>1, <3>2 DEF Live
    <3>4. QED BY <3>1, <3>2, <3>3 DEF Placed, TurnOf, Registered
  <2>3. QED BY <2>1, <2>2
<1>11. \A b \in Agents : active'[b] \in Workers \cup {b, None}
  BY <1>9
<1>12. Placed'
  BY <1>7, <1>9, <1>10, <1>11 DEF Placed, Standing, Registered, Live, TurnOf
<1>13. \A s \in Slots \ {a} : turns'[s] = turns[s] \/ turns'[s].finished
  BY <1>4, <1>5
<1>14. Grows
  BY <1>2, <1>13 DEF Grows, OldTurn
<1>15. Live(a) => active[a] = a \/ turns'[active[a]].finished
  BY <1>4, <1>5, LiveTurnType
<1>16. QED BY <1>2, <1>6, <1>12, <1>13, <1>14, <1>15

(* What is known of a message does not change.                                *)
Kin(c, d) ==
  \A m \in Msgs : c[m].delivery # "absent" =>
    /\ d[m].delivery # "absent" /\ d[m].from = c[m].from /\ d[m].to = c[m].to
    /\ d[m].source = c[m].source /\ d[m].replyTo = c[m].replyTo

(* A worker keeps what it serves until it is idle.                             *)
KeepsJob(w) ==
  workers'[w].phase # "idle" =>
    /\ workers[w].phase # "idle"
    /\ workers'[w].agent = workers[w].agent /\ workers'[w].msg = workers[w].msg

LEMMA CarryingKept ==
  ASSUME SafetyInv, Carrying, Grows, Kin(comms, comms'), \A w \in Workers : KeepsJob(w)
  PROVE  Carrying'
<1>1. ASSUME NEW s \in Slots, NEW m \in Msgs, turns'[s].msg = m, ~turns'[s].finished
      PROVE  comms'[m].delivery # "absent" /\ turns'[s].agent = comms'[m].to
  <2>1. OldTurn(s)
    BY <1>1, MessageAssumption DEF Grows
  <2>2. QED BY <1>1, <2>1 DEF OldTurn, Carrying, Known, Kin
<1>2. ASSUME NEW w \in Workers, NEW m \in Msgs, Holding(workers', w, m)
      PROVE  workers'[w].agent = comms'[m].to
  <2>1. Holding(workers, w, m) /\ workers'[w].agent = workers[w].agent
    BY <1>2 DEF Holding, KeepsJob
  <2>2. comms[m].delivery # "absent"
    BY <2>1 DEF SafetyInv, Sound, Unused
  <2>3. QED BY <2>1, <2>2 DEF Carrying, Kin
<1>3. QED BY <1>1, <1>2 DEF Carrying, Known

LEMMA WorkerNoAgent == \A w \in Workers : w \in Slots /\ w \notin Agents
BY DeliveryAssumption DEF Slots

(* A Turn of a worker that stands after the step stood before.                *)
LEMMA StoodBefore ==
  ASSUME Placed, Placed', Archives, Grows, NEW s \in Slots, Standing(s)', turns'[s].msg # None \/ s \in Workers
  PROVE  OldTurn(s) /\ Standing(s)
<1>1. OldTurn(s)
  BY WorkerNoAgent DEF Grows, Standing
<1>2. turns[s].agent \in Agents
  BY <1>1 DEF Placed, OldTurn
<1>3. QED BY <1>1, <1>2 DEF OldTurn, Standing, Archives, Registered

LEMMA ServesKept ==
  ASSUME Placed, Placed', Archives, Grows, NEW w \in Workers, Serves(w),
         UNCHANGED workers[w]
  PROVE  Serves(w)'
<1>1. workers'[w] = workers[w]
  OBVIOUS
<1>2. ~turns'[w].finished => OldTurn(w)
  BY WorkerNoAgent DEF Grows
<1>3. Standing(w)' => Standing(w)
  BY WorkerNoAgent, StoodBefore
<1>4. Turnless(w)' <=> Turnless(w)
  BY <1>1 DEF Turnless, Fresh
<1>5. QED BY <1>1, <1>2, <1>3, <1>4 DEF Serves, OldTurn

(* One worker takes its next phase.                                           *)
LEMMA ServingStep ==
  ASSUME Placed, Placed', Archives, Grows, Serving, NEW w \in Workers,
         \A v \in Workers \ {w} : UNCHANGED workers[v], Serves(w)'
  PROVE  Serving'
BY ServesKept DEF Serving

LEMMA ServingKept ==
  ASSUME Placed, Placed', Archives, Grows, Serving, UNCHANGED workers
  PROVE  Serving'
BY ServesKept DEF Serving

LEMMA NumberedKept ==
  ASSUME Numbered, UNCHANGED <<codex, notes>>
  PROVE  Numbered'
BY DEF Numbered

(* Commands and other steps that leave the runtime alone.                     *)
LEMMA TurnsQuiet ==
  ASSUME TypeOK, SafetyInv, TurnsInv, Kin(comms, comms'),
         UNCHANGED <<turns, active, workers, codex, notes>>, stopping => stopping',
         \A a \in Agents : meta'[a].status = "archived" <=> meta[a].status = "archived"
  PROVE  TurnsInv' /\ Archives /\ Fades
<1>1. Placed' /\ Archives /\ Fades /\ Grows
  BY PlacedQuiet, FadesGrows DEF TurnsInv
<1>2. Carrying'
  BY <1>1, CarryingKept DEF TurnsInv, KeepsJob
<1>3. QED BY <1>1, <1>2, ServingKept, NumberedKept DEF TurnsInv

----------------------------------------------------------------------------
(* The steps of a worker.                                                     *)

LEMMA KinRecord ==
  ASSUME NEW c \in Table, NEW m \in Msgs, NEW new,
         new.delivery # "absent", new.from = c[m].from, new.to = c[m].to,
         new.source = c[m].source, new.replyTo = c[m].replyTo
  PROVE  Kin(c, [c EXCEPT ![m] = new])
BY DEF Kin, Table

LEMMA KinDelivery ==
  ASSUME NEW c \in Table, NEW m \in Msgs, NEW d, d # "absent"
  PROVE  Kin(c, [c EXCEPT ![m].delivery = d])
BY DEF Kin, Table, Message

LEMMA KinAnswered ==
  ASSUME NEW c \in Table, NEW d \in Table, NEW r \in Msgs, Kin(c, d)
  PROVE  Kin(c, Answered(d, r))
BY AnsweredApart DEF Kin, Apart

LEMMA KinMoves ==
  ASSUME NEW c, NEW d, NEW n, Moves(c, d, n)
  PROVE  Kin(c, d)
BY DEF Kin, Moves, Touched

LEMMA KinReflexive ==
  ASSUME NEW c, NEW d, d = c
  PROVE  Kin(c, d)
BY DEF Kin

LEMMA ClaimTurns ==
  ASSUME TypeOK, SafetyInv, TurnsInv, NEW w \in Workers, NEW a \in Agents,
         NEW m \in Msgs \cup {None},
         \/ m \in Msgs /\ (ClaimNext(w, a, m) \/ ClaimSteer(w, a, m))
         \/ m = None /\ OwnerTask(w, a)
  PROVE  TurnsInv' /\ Archives /\ Fades
<1>1. /\ UNCHANGED <<turns, active, meta, codex, notes, stopping>> /\ Free(w)
      /\ comms' = comms \/ (m \in Msgs /\ comms' = [comms EXCEPT ![m].delivery = "delivering"])
      /\ m # None => m \in Queued(a)
  BY DEF ClaimNext, ClaimSteer, OwnerTask, Start, external, control, First, Startable, Steerable
<1>2. Kin(comms, comms')
  <2>1. CASE comms' = comms
    BY <2>1, KinReflexive
  <2>2. CASE m \in Msgs /\ comms' = [comms EXCEPT ![m].delivery = "delivering"]
    <3>1. comms \in Table
      BY DEF TypeOK, LedgerOK, Table
    <3>2. Kin(comms, [comms EXCEPT ![m].delivery = "delivering"])
      BY <2>2, <3>1, KinDelivery
    <3>3. QED BY <2>2, <3>2
  <2>3. QED BY <1>1, <2>1, <2>2
<1>3. /\ workers'[w].agent = a /\ workers'[w].msg = m
      /\ workers'[w].phase \in {"sending", "steering"}
      /\ \A v \in Workers \ {w} : workers'[v] = workers[v]
  <2>1. workers \in [Workers -> Worker]
    BY DEF TypeOK, RuntimeOK
  <2>2. CASE Start(w, a, m, "sending")
    BY <2>1, <2>2 DEF Start, Idle
  <2>3. CASE ClaimSteer(w, a, m)
    BY <2>1, <2>3 DEF ClaimSteer, Idle
  <2>4. QED BY <2>2, <2>3 DEF ClaimNext, OwnerTask
<1>4. Placed' /\ Archives /\ Fades /\ Grows
  BY <1>1, PlacedQuiet, FadesGrows DEF TurnsInv
<1>5. Carrying'
  <2>1. ASSUME NEW s \in Slots, NEW n \in Msgs, turns[s].msg = n, ~turns[s].finished
        PROVE  comms'[n].delivery # "absent" /\ turns[s].agent = comms'[n].to
    BY <1>2, <2>1 DEF TurnsInv, Carrying, Known, Kin
  <2>2. ASSUME NEW v \in Workers, NEW n \in Msgs, Holding(workers', v, n)
        PROVE  workers'[v].agent = comms'[n].to
    <3>1. CASE v = w
      <4>1. n = m /\ comms[n].delivery = "queued" /\ comms[n].to = a
        BY <1>1, <1>3, <2>2, <3>1, MessageAssumption DEF Holding, Queued
      <4>2. QED BY <1>2, <1>3, <3>1, <4>1 DEF Kin
    <3>2. CASE v # w
      <4>1. Holding(workers, v, n) /\ workers'[v].agent = workers[v].agent
        BY <1>3, <2>2, <3>2 DEF Holding
      <4>2. comms[n].delivery # "absent"
        BY <4>1 DEF SafetyInv, Sound, Unused
      <4>3. QED BY <1>2, <4>1, <4>2 DEF TurnsInv, Carrying, Kin
    <3>3. QED BY <3>1, <3>2
  <2>3. QED BY <1>1, <2>1, <2>2 DEF Carrying, Known
<1>6. Serves(w)'
  BY <1>1, <1>3 DEF Serves, Free, Standing
<1>7. Serving'
  BY <1>3, <1>4, <1>6, ServingStep DEF TurnsInv
<1>8. QED BY <1>1, <1>4, <1>5, <1>7, NumberedKept DEF TurnsInv

(* sendTask gives up before it reserves a Turn, or a steer is taken.           *)
LEMMA SendTurns ==
  ASSUME TypeOK, SafetyInv, TurnsInv, NEW w \in Workers,
         SendRefused(w) \/ SendFailed(w) \/ SteerAccepted(w)
  PROVE  /\ TurnsInv' /\ Archives /\ Fades
         /\ Fresh(w) /\ \A v \in Workers \ {w} : workers'[v] = workers[v]
<1>1. /\ UNCHANGED <<comms, turns, active, meta, codex, notes, stopping>>
      /\ workers'[w].agent = workers[w].agent /\ workers'[w].msg = workers[w].msg
      /\ workers[w].phase \in {"sending", "steering"}
      /\ workers'[w].phase \in {"returning", "steered"}
      /\ workers'[w].phase = "returning" => workers'[w].result \in {"busy", "error"}
      /\ \A v \in Workers \ {w} : workers'[v] = workers[v]
  BY DEF SendRefused, SendFailed, SteerAccepted, Return, external, control, TypeOK, RuntimeOK, Worker
<1>2. Placed' /\ Archives /\ Fades /\ Grows
  BY <1>1, PlacedQuiet, FadesGrows DEF TurnsInv
<1>3. Carrying'
  BY <1>1, <1>2, CarryingKept, KinReflexive DEF TurnsInv, KeepsJob
<1>4. Serves(w)'
  BY <1>1 DEF TurnsInv, Serving, Serves, Turnless, Fresh, Standing, Registered
<1>5. Serving'
  BY <1>1, <1>2, <1>4, ServingStep DEF TurnsInv
<1>6. QED BY <1>1, <1>2, <1>3, <1>5, NumberedKept DEF TurnsInv, Fresh

(* A worker reserves the Turn of its Agent: its old one is over.               *)
LEMMA ReserveTurns ==
  ASSUME TypeOK, SafetyInv, TurnsInv, NEW w \in Workers, ReserveTurn(w)
  PROVE  /\ TurnsInv' /\ Archives
         /\ turns'[w].msg = workers[w].msg /\ turns'[w].id = 0
         /\ \A s \in Slots \ {w} : turns'[s] = turns[s]
         /\ \A v \in Workers \ {w} : workers'[v] = workers[v]
         /\ workers'[w].phase = "starting" /\ workers'[w].msg = workers[w].msg
<1> DEFINE a == workers[w].agent
           o == [NoTurn EXCEPT !.agent = a, !.msg = workers[w].msg, !.finished = FALSE]
<1>1. /\ UNCHANGED <<comms, codex, notes, stopping>> /\ ~stopping /\ Registered(a) /\ ~Live(a)
      /\ workers[w].phase = "sending"
      /\ turns' = [turns EXCEPT ![w] = o] /\ active' = [active EXCEPT ![a] = w]
      /\ workers' = [workers EXCEPT ![w].phase = "starting"]
  BY DEF ReserveTurn, external, control
<1>2. a \in Agents /\ w \in Slots
  BY <1>1, WorkerFields
<1>3. /\ turns'[w] = o /\ \A s \in Slots \ {w} : turns'[s] = turns[s]
      /\ active'[a] = w /\ \A b \in Agents \ {a} : active'[b] = active[b]
  BY <1>1, <1>2 DEF TypeOK, RuntimeOK
<1>4. \A b \in Agents : (meta'[b].status = "archived") = (meta[b].status = "archived")
  BY <1>1, <1>2 DEF ReserveTurn, TypeOK, RuntimeOK, Registered
<1>5. /\ workers'[w].agent = a /\ workers'[w].msg = workers[w].msg
      /\ workers'[w].phase = "starting" /\ \A v \in Workers \ {w} : workers'[v] = workers[v]
  BY <1>1 DEF TypeOK, RuntimeOK, Worker
<1>6. ~Standing(w)
  BY <1>1 DEF TurnsInv, Serving, Serves, Turnless, Fresh
<1>7. o.agent = a /\ o.msg = workers[w].msg /\ ~o.finished /\ o.id = 0
  BY DEF NoTurn
<1>8. ASSUME NEW b \in Agents \ {a}, active'[b] # None
      PROVE  /\ active'[b] = active[b] /\ active[b] \in Slots \ {w} /\ Live(b)
             /\ active[b] \in Workers \cup {b} /\ TurnOf(b).agent = b /\ Registered(b)
  <2>1. active'[b] = active[b] /\ Live(b)
    BY <1>1, <1>3, <1>8 DEF TurnsInv, Placed
  <2>2. active[b] \in Slots /\ active[b] \in Workers \cup {b} /\ TurnOf(b).agent = b /\ Registered(b)
    BY <2>1, LiveTurnType DEF TurnsInv, Placed, Live
  <2>3. active[b] # w
    BY <1>6, <2>1, <2>2 DEF Standing, Live, TurnOf
  <2>4. QED BY <2>1, <2>2, <2>3
<1>9. ASSUME NEW s \in Slots, ~turns'[s].finished
      PROVE  /\ turns'[s].agent \in Agents
             /\ meta'[turns'[s].agent].status # "archived" => active'[turns'[s].agent] = s
  <2>1. CASE s = w
    BY <1>2, <1>3, <1>7, <2>1
  <2>2. CASE s # w
    <3>1. turns'[s] = turns[s] /\ turns[s].agent \in Agents
      BY <1>3, <1>9, <2>2 DEF TurnsInv, Placed
    <3>2. CASE Registered(turns[s].agent)
      <4>1. active[turns[s].agent] = s
        BY <1>9, <3>1, <3>2 DEF TurnsInv, Placed, Standing
      <4>2. turns[s].agent # a
        BY <1>1, <1>9, <3>1, <4>1, SlotNotNone DEF Live
      <4>3. QED BY <1>3, <3>1, <4>1, <4>2
    <3>3. CASE ~Registered(turns[s].agent)
      BY <1>4, <3>1, <3>3 DEF Registered
    <3>4. QED BY <3>2, <3>3
  <2>3. QED BY <2>1, <2>2
<1>10. ASSUME NEW b \in Agents
      PROVE  /\ active'[b] \in Workers \cup {b, None}
             /\ active'[b] # None => ~turns'[active'[b]].finished
             /\ active'[b] # None => turns'[active'[b]].agent = b /\ meta'[b].status # "archived"
  <2>1. CASE b = a
    <3>1. active'[b] = w
      BY <1>3, <2>1
    <3>2. turns'[w].agent = a /\ ~turns'[w].finished
      BY <1>3, <1>7
    <3>3. meta'[b].status # "archived"
      BY <1>1, <1>4, <2>1 DEF Registered
    <3>4. QED BY <2>1, <3>1, <3>2, <3>3
  <2>2. CASE b # a /\ active'[b] # None
    <3>1. turns'[active'[b]] = turns[active[b]]
      BY <1>3, <1>8, <2>2
    <3>2. QED BY <1>4, <1>8, <2>2, <3>1 DEF Live, TurnOf, Registered
  <2>3. QED BY <2>1, <2>2
<1>11. Placed'
  BY <1>9, <1>10 DEF Placed, Standing, Registered, Live, TurnOf
<1>12. Archives
  BY <1>4 DEF Archives
<1>13. Carrying'
  <2>1. ASSUME NEW v \in Workers, NEW n \in Msgs, Holding(workers', v, n)
        PROVE  Holding(workers, v, n) /\ workers'[v].agent = workers[v].agent
    BY <1>1, <1>5, <2>1 DEF Holding
  <2>2. ASSUME NEW n \in Msgs, turns'[w].msg = n
        PROVE  comms[n].delivery # "absent" /\ a = comms[n].to
    <3>1. Holding(workers, w, n)
      BY <1>1, <1>3, <1>7, <2>2 DEF Holding
    <3>2. QED BY <3>1 DEF TurnsInv, Carrying, SafetyInv, Sound, Unused
  <2>3. ASSUME NEW s \in Slots \ {w}, NEW n \in Msgs, turns'[s].msg = n, ~turns'[s].finished
        PROVE  comms[n].delivery # "absent" /\ turns'[s].agent = comms[n].to
    BY <1>3, <2>3 DEF TurnsInv, Carrying, Known
  <2>4. ASSUME NEW s \in Slots, NEW n \in Msgs, turns'[s].msg = n, ~turns'[s].finished
        PROVE  comms'[n].delivery # "absent" /\ turns'[s].agent = comms'[n].to
    <3>1. comms' = comms
      BY <1>1
    <3>2. CASE s = w
      <4>1. turns'[w].msg = n /\ turns'[w].agent = a
        BY <1>3, <1>7, <2>4, <3>2
      <4>2. QED BY <2>2, <3>1, <3>2, <4>1
    <3>3. CASE s # w
      BY <2>3, <2>4, <3>1, <3>3
    <3>4. QED BY <3>2, <3>3
  <2>5. \A v \in Workers, n \in Msgs : Holding(workers', v, n) => workers'[v].agent = comms'[n].to
    BY <1>1, <2>1 DEF TurnsInv, Carrying
  <2>6. QED BY <2>4, <2>5 DEF Carrying, Known
<1>14. Serving'
  <2>1. Serves(w)'
    BY <1>3, <1>5, <1>7 DEF Serves, Turnless, Fresh
  <2>2. ASSUME NEW v \in Workers \ {w} PROVE Serves(v)'
    <3>1. turns'[v] = turns[v] /\ workers'[v] = workers[v] /\ Serves(v)
      BY <1>3, <1>5, WorkerNoAgent DEF TurnsInv, Serving
    <3>2. ~turns[v].finished => turns[v].agent \in Agents
      BY WorkerNoAgent DEF TurnsInv, Placed
    <3>3. QED BY <1>12, <3>1, <3>2 DEF Serves, Standing, Turnless, Fresh, Archives, Registered
  <2>3. QED BY <2>1, <2>2 DEF Serving
<1>15. Numbered'
  BY <1>1, NumberedKept DEF TurnsInv
<1>16. QED BY <1>3, <1>5, <1>7, <1>11, <1>12, <1>13, <1>14, <1>15 DEF TurnsInv

(* Marking a Turn as running changes neither what it carries nor its state.    *)
LEMMA TurnFields ==
  ASSUME NEW c, NEW o \in Turn, NEW id \in TurnId
  PROVE  /\ RunningTurn(c, o).agent = o.agent /\ RunningTurn(c, o).msg = o.msg
         /\ RunningTurn(c, o).id = o.id /\ RunningTurn(c, o).finished = o.finished
         /\ ReboundTurn(c, o, id).agent = o.agent /\ ReboundTurn(c, o, id).msg = o.msg
         /\ ReboundTurn(c, o, id).id = id /\ ReboundTurn(c, o, id).finished = o.finished
<1>1. ASSUME NEW p \in Turn
      PROVE  /\ RunningTurn(c, p).agent = p.agent /\ RunningTurn(c, p).msg = p.msg
             /\ RunningTurn(c, p).id = p.id /\ RunningTurn(c, p).finished = p.finished
  BY DEF RunningTurn, Turn
<1>2. /\ [o EXCEPT !.id = id] \in Turn /\ [o EXCEPT !.id = id].id = id
      /\ [o EXCEPT !.id = id].agent = o.agent /\ [o EXCEPT !.id = id].msg = o.msg
      /\ [o EXCEPT !.id = id].finished = o.finished
  BY DEF Turn
<1>3. QED BY <1>1, <1>2 DEF ReboundTurn

(* Codex announces a Turn, or its end.                                        *)
LEMMA NoteNumbers ==
  ASSUME TypeOK, Numbered, NEW a \in Agents, NEW e \in Event, e.id # 0,
         notes' = [notes EXCEPT ![a] = Append(@, e)],
         \A b \in Agents : codex'[b].status = "running" => codex'[b].id # 0
  PROVE  Numbered'
<1>1. notes \in [Agents -> Seq(Event)]
  BY DEF TypeOK, ExternalOK
<1>2. notes'[a] = Append(notes[a], e) /\ \A b \in Agents \ {a} : notes'[b] = notes[b]
  BY <1>1
<1>3. ASSUME NEW b \in Agents, NEW i \in 1..Len(notes'[b])
      PROVE  notes'[b][i].id # 0
  <2>1. CASE b = a
    <3>1. notes[a] \in Seq(Event)
      BY <1>1
    <3>2. i \in 1..(Len(notes[a]) + 1)
      BY <1>2, <1>3, <2>1, <3>1
    <3>3. CASE i = Len(notes[a]) + 1
      BY <1>2, <2>1, <3>1, <3>3
    <3>4. CASE i \in 1..Len(notes[a])
      <4>1. notes'[b][i] = notes[a][i]
        BY <1>2, <2>1, <3>1, <3>4
      <4>2. QED BY <3>4, <4>1 DEF Numbered
    <3>5. QED BY <3>1, <3>2, <3>3, <3>4
  <2>2. CASE b # a
    BY <1>2, <1>3, <2>2 DEF Numbered
  <2>3. QED BY <2>1, <2>2
<1>4. QED BY <1>3 DEF Numbered

LEMMA BeginNumbers ==
  ASSUME TypeOK, Numbered, NEW a \in Agents, NEW m, Begin(a, m)
  PROVE  Numbered'
<1> DEFINE e == [kind |-> "started", id |-> LastId + 1, status |-> "none"]
<1>1. LastId \in Nat /\ LastId + 1 \in TurnId /\ LastId + 1 # 0
  BY MessageAssumption DEF Begin, LastId, TypeOK, ExternalOK, TurnId
<1>2. e \in Event /\ e.id # 0
  BY <1>1 DEF Event
<1>3. ASSUME NEW b \in Agents, codex'[b].status = "running"
      PROVE  codex'[b].id # 0
  BY <1>1, <1>3 DEF Begin, Numbered, TypeOK, ExternalOK
<1>4. notes' = [notes EXCEPT ![a] = Append(@, e)]
  BY DEF Begin
<1>5. QED BY <1>2, <1>3, <1>4, NoteNumbers

LEMMA EndNumbers ==
  ASSUME TypeOK, Numbered, NEW a \in Agents, NEW status \in Outcome, End(a, status)
  PROVE  Numbered'
<1> DEFINE e == [kind |-> "ended", id |-> codex[a].id, status |-> status]
<1>1. codex[a].id \in TurnId /\ codex[a].id # 0
  BY DEF End, Numbered, TypeOK, ExternalOK, CodexTurn
<1>2. e \in Event /\ e.id # 0
  BY <1>1 DEF Event
<1>3. ASSUME NEW b \in Agents, codex'[b].status = "running"
      PROVE  codex'[b].id # 0
  BY <1>1, <1>3 DEF End, Numbered, TypeOK, ExternalOK, CodexTurn
<1>4. notes' = [notes EXCEPT ![a] = Append(@, e)]
  BY DEF End
<1>5. QED BY <1>2, <1>3, <1>4, NoteNumbers

(* Codex begins the Turn of a worker.                                         *)
LEMMA AcceptsTurns ==
  ASSUME TypeOK, SafetyInv, TurnsInv, NEW w \in Workers, CodexAccepts(w)
  PROVE  /\ TurnsInv' /\ Archives /\ Fades
         /\ workers[w].phase = "starting" /\ workers'[w].phase = "accepted"
         /\ workers'[w].msg = workers[w].msg
         /\ \A v \in Workers \ {w} : workers'[v] = workers[v]
<1>1. /\ UNCHANGED <<comms, turns, active, meta, stopping>>
      /\ workers'[w].agent = workers[w].agent /\ workers'[w].msg = workers[w].msg
      /\ workers[w].phase = "starting" /\ workers'[w].phase = "accepted"
      /\ workers'[w].turn = LastId + 1 /\ Begin(workers[w].agent, workers[w].msg)
      /\ \A v \in Workers \ {w} : workers'[v] = workers[v]
  BY DEF CodexAccepts, control, TypeOK, RuntimeOK, Worker
<1>2. LastId + 1 # 0
  BY DEF LastId, TypeOK, ExternalOK
<1>3. Placed' /\ Archives /\ Fades /\ Grows
  BY <1>1, PlacedQuiet, FadesGrows DEF TurnsInv
<1>4. Carrying'
  BY <1>1, <1>3, CarryingKept, KinReflexive DEF TurnsInv, KeepsJob
<1>5. Serves(w)'
  BY <1>1, <1>2 DEF TurnsInv, Serving, Serves, Turnless, Fresh
<1>6. Serving'
  BY <1>1, <1>3, <1>5, ServingStep DEF TurnsInv
<1>7. Numbered'
  BY <1>1, <1>2, BeginNumbers, WorkerFields DEF TurnsInv
<1>8. QED BY <1>1, <1>3, <1>4, <1>6, <1>7 DEF TurnsInv

(* The worker learns that its Turn began.                                     *)
LEMMA AnsweredTurns ==
  ASSUME TypeOK, SafetyInv, TurnsInv, NEW w \in Workers, StartAnswered(w)
  PROVE  /\ TurnsInv' /\ Archives /\ Fades
         /\ workers[w].phase = "accepted" /\ workers'[w].phase = "returning"
         /\ workers'[w].result = "ok" /\ workers'[w].msg = workers[w].msg
         /\ \A v \in Workers \ {w} : workers'[v] = workers[v]
         /\ \A s \in Slots \ {w} : turns'[s] = turns[s]
<1> DEFINE o == turns[w]
           o1 == [o EXCEPT !.id = IF o.id = 0 THEN workers[w].turn ELSE o.id]
<1>1. /\ w \in Slots /\ o \in Turn /\ workers[w].turn \in TurnId /\ workers[w].turn # 0
      /\ workers[w].phase = "accepted" /\ workers[w].agent \in Agents
  BY WorkerFields DEF StartAnswered, TurnsInv, Serving, Serves
<1>2. o1 \in Turn /\ o1.id # 0 /\ o1.agent = o.agent /\ o1.msg = o.msg /\ o1.finished = o.finished
  BY <1>1 DEF Turn
<1>3. /\ RunningTurn(comms, o1).id = o1.id /\ RunningTurn(comms, o1).agent = o.agent
      /\ RunningTurn(comms, o1).msg = o.msg /\ RunningTurn(comms, o1).finished = o.finished
  <2> HIDE DEF o, o1
  <2>1. QED BY <1>2, TurnFields, ConstantTypes
<1>4. /\ workers'[w].agent = workers[w].agent /\ workers'[w].msg = workers[w].msg
      /\ workers'[w].phase = "returning" /\ workers'[w].result = "ok"
      /\ \A v \in Workers \ {w} : workers'[v] = workers[v]
      /\ UNCHANGED <<active, codex, notes, stopping>>
  BY DEF StartAnswered, external, control, TypeOK, RuntimeOK, Worker
<1>5. /\ \A s \in Slots \ {w} : turns'[s] = turns[s]
      /\ turns'[w] = o \/ turns'[w] = RunningTurn(comms, o1)
      /\ ~turns'[w].finished => turns'[w] = RunningTurn(comms, o1)
  BY <1>1 DEF StartAnswered, TypeOK, RuntimeOK
<1>6. \A s \in Slots : /\ turns'[s].finished = turns[s].finished
                       /\ turns'[s].agent = turns[s].agent /\ turns'[s].msg = turns[s].msg
                       /\ turns[s].id # 0 => turns'[s].id # 0
  BY <1>2, <1>3, <1>5
<1>7. \A a \in Agents : meta'[a].status = "archived" <=> meta[a].status = "archived"
  BY <1>1 DEF StartAnswered, TypeOK, RuntimeOK, Agent
<1>8. Placed' /\ Archives /\ Fades /\ Grows
  BY <1>4, <1>6, <1>7, PlacedSame, FadesGrows DEF TurnsInv
<1>9. Kin(comms, comms')
  <2> HIDE DEF o, o1
  <2>1. CASE comms' = comms
    BY <2>1, KinReflexive
  <2>2. CASE comms' = Running(comms, o1)
    BY <1>2, <2>2, RunningMoves, KinMoves DEF TypeOK, LedgerOK, Table
  <2>3. QED BY <2>1, <2>2 DEF StartAnswered, o1, o
<1>10. Carrying'
  BY <1>4, <1>8, <1>9, CarryingKept, <1>1 DEF TurnsInv, KeepsJob
<1>11. Serves(w)'
  BY <1>1, <1>2, <1>3, <1>4, <1>5 DEF TurnsInv, Serving, Serves, Turnless, Fresh
<1>12. Serving'
  BY <1>4, <1>8, <1>11, ServingStep DEF TurnsInv
<1>13. QED BY <1>1, <1>4, <1>5, <1>8, <1>10, <1>12, NumberedKept DEF TurnsInv

LEMMA FailedTurns ==
  ASSUME TypeOK, SafetyInv, TurnsInv, NEW w \in Workers, StartFailed(w)
  PROVE  /\ TurnsInv' /\ Archives /\ Fades
         /\ workers[w].phase \in {"starting", "accepted", "lost"}
         /\ workers'[w].phase = "returning" /\ workers'[w].result = "error"
         /\ workers'[w].msg = workers[w].msg
         /\ \A v \in Workers \ {w} : workers'[v] = workers[v]
<1> DEFINE a == workers[w].agent
<1>1. /\ workers[w].phase \in {"starting", "accepted", "lost"} /\ a \in Agents
      /\ workers'[w].agent = workers[w].agent /\ workers'[w].msg = workers[w].msg
      /\ workers'[w].phase = "returning" /\ workers'[w].result = "error"
      /\ \A v \in Workers \ {w} : workers'[v] = workers[v]
      /\ UNCHANGED <<codex, notes, stopping>>
  <2>1. workers \in [Workers -> Worker] /\ UNCHANGED <<codex, notes, stopping>>
    BY DEF StartFailed, external, control, TypeOK, RuntimeOK
  <2>2. workers' = [workers EXCEPT ![w].phase = "returning", ![w].result = "error"]
    BY DEF StartFailed
  <2>3. workers[w].phase \in {"starting", "accepted", "lost"} /\ a \in Agents
    BY WorkerFields DEF StartFailed
  <2>4. QED BY <2>1, <2>2, <2>3 DEF Worker
<1>2. ASSUME workers[w].phase # "lost" /\ Registered(a) /\ Live(a)
      PROVE  /\ Placed' /\ Archives /\ Fades /\ Grows
             /\ Kin(comms, comms') /\ ~Standing(w)'
  <2>1. FinishTurn(a, TurnOf(a), "failed", comms) /\ TurnOf(a) \in Turn
    BY <1>1, <1>2, LiveTurnType DEF StartFailed
  <2>2. Placed' /\ Archives /\ Fades /\ Grows /\ turns'[active[a]].finished
    BY <1>1, <1>2, <2>1, PlacedFinish, FadesGrows DEF TurnsInv
  <2>3. Kin(comms, comms')
    BY <2>1, EndedMoves, KinMoves DEF FinishTurn, Outcome, TypeOK, LedgerOK, Table
  <2>4. ~Standing(w)'
    <3>1. SUFFICES ASSUME Standing(w)' PROVE FALSE
      OBVIOUS
    <3>2. OldTurn(w) /\ Standing(w)
      BY <2>2, <3>1, StoodBefore, WorkerNoAgent DEF TurnsInv
    <3>3. turns[w].agent = a
      BY <1>1, <3>2 DEF TurnsInv, Serving, Serves, OldTurn
    <3>4. active[a] = w
      BY <3>2, <3>3, WorkerNoAgent DEF TurnsInv, Placed
    <3>5. QED BY <2>2, <3>1, <3>4 DEF Standing
  <2>5. QED BY <2>2, <2>3, <2>4
<1>3. ASSUME ~(workers[w].phase # "lost" /\ Registered(a) /\ Live(a))
      PROVE  /\ Placed' /\ Archives /\ Fades /\ Grows
             /\ Kin(comms, comms') /\ ~Standing(w)'
  <2>1. UNCHANGED <<comms, turns, active, meta>>
    BY <1>3 DEF StartFailed
  <2>2. Placed' /\ Archives /\ Fades /\ Grows
    BY <1>1, <2>1, PlacedQuiet, FadesGrows DEF TurnsInv
  <2>3. ~Standing(w)
    <3>1. SUFFICES ASSUME Standing(w) PROVE FALSE
      OBVIOUS
    <3>2. turns[w].agent = a /\ workers[w].phase # "lost"
      BY <1>1, <3>1 DEF TurnsInv, Serving, Serves, Turnless, Standing
    <3>3. active[a] = w /\ w # None
      BY <3>1, <3>2, WorkerNoAgent, SlotNotNone DEF TurnsInv, Placed
    <3>4. QED BY <1>3, <3>1, <3>2, <3>3 DEF Standing, Live
  <2>4. ~Standing(w)'
    BY <2>1, <2>3 DEF Standing, Registered
  <2>5. QED BY <2>1, <2>2, <2>4, KinReflexive
<1>4. Placed' /\ Archives /\ Fades /\ Grows /\ Kin(comms, comms') /\ ~Standing(w)'
  BY <1>2, <1>3
<1>5. Carrying'
  BY <1>1, <1>4, CarryingKept DEF TurnsInv, KeepsJob
<1>6. Serves(w)'
  <2>1. ~turns'[w].finished => turns'[w].agent = workers'[w].agent
    BY <1>1, <1>4, WorkerNoAgent DEF Fades, OldTurn, TurnsInv, Serving, Serves
  <2>2. QED BY <1>1, <1>4, <2>1 DEF Serves, Turnless, Fresh
<1>7. Serving'
  BY <1>1, <1>4, <1>6, ServingStep DEF TurnsInv
<1>8. QED BY <1>1, <1>4, <1>5, <1>7, NumberedKept DEF TurnsInv

(* A worker lets go of its message, and of its Turn's record if it is not the  *)
(* current one.                                                               *)
LEMMA ReleaseTurns ==
  ASSUME TypeOK, SafetyInv, TurnsInv, NEW w \in Workers, workers[w].phase # "idle",
         workers' = [workers EXCEPT ![w] = Idle],
         \/ turns' = turns
         \/ turns' = [turns EXCEPT ![w] = IF active[workers[w].agent] = w THEN @ ELSE NoTurn],
         UNCHANGED <<meta, active, codex, notes, stopping>>, Kin(comms, comms')
  PROVE  TurnsInv' /\ Archives /\ Fades
<1>1. /\ workers'[w].phase = "idle" /\ \A v \in Workers \ {w} : workers'[v] = workers[v]
      /\ workers[w].agent \in Agents /\ w \in Slots
  BY WorkerFields DEF Idle, TypeOK, RuntimeOK
<1>2. /\ \A s \in Slots \ {w} : turns'[s] = turns[s]
      /\ turns'[w] = turns[w] \/ (turns'[w] = NoTurn /\ active[workers[w].agent] # w)
  BY <1>1 DEF TypeOK, RuntimeOK
<1>3. Fades /\ Archives /\ Grows
  <2>1. Fades
    BY <1>2 DEF Fades, OldTurn, NoTurn
  <2>2. QED BY <2>1, FadesGrows DEF Archives
<1>4. ASSUME NEW a \in Agents, active[a] # None
      PROVE  stopping \/ turns'[active[a]].finished => stopping
  <2>1. SUFFICES ASSUME ~stopping PROVE ~turns'[active[a]].finished
    OBVIOUS
  <2>2. Live(a) /\ TurnOf(a).agent = a /\ active[a] \in Slots
    BY <1>4, <2>1, LiveTurnType DEF TurnsInv, Placed
  <2>3. CASE active[a] = w
    <3>1. workers[w].agent = a
      BY <2>2, <2>3 DEF TurnsInv, Serving, Serves, TurnOf, Live
    <3>2. QED BY <1>2, <2>2, <2>3, <3>1 DEF Live
  <2>4. CASE active[a] # w
    BY <1>2, <2>2, <2>4 DEF Live
  <2>5. QED BY <2>3, <2>4
<1>5. Placed'
  BY <1>3, <1>4, PlacedFades DEF TurnsInv, Registered
<1>6. Carrying'
  BY <1>1, <1>3, CarryingKept DEF TurnsInv, KeepsJob
<1>7. Serves(w)'
  BY <1>1 DEF Serves, Turnless, Fresh
<1>8. Serving'
  BY <1>1, <1>3, <1>5, <1>7, ServingStep DEF TurnsInv
<1>9. QED BY <1>3, <1>5, <1>6, <1>8, NumberedKept DEF TurnsInv

LEMMA SettledSame ==
  ASSUME NEW msg \in Message, NEW result, NEW turn \in TurnId, NEW mode \in {"turn_start", "turn_steer"}
  PROVE  /\ \A new \in {Settled(msg, result, turn), Delivered(msg, mode, turn)} :
              /\ new.from = msg.from /\ new.to = msg.to /\ new.replyTo = msg.replyTo
              /\ new.source = msg.source /\ new.status = msg.status
              /\ new.handling = msg.handling /\ new.attempts = msg.attempts
         /\ Settled(msg, result, turn).delivery \in {"queued", "failed", "delivered"}
         /\ Delivered(msg, mode, turn).delivery = "delivered"
         /\ Delivered(msg, mode, turn).mode = mode /\ Delivered(msg, mode, turn).turn = turn
BY DEF Settled, Delivered, Message

LEMMA SettleTurns ==
  ASSUME TypeOK, SafetyInv, TurnsInv, NEW w \in Workers, Settle(w) \/ SteerSettled(w) \/ SteerDeferred(w)
  PROVE  TurnsInv' /\ Archives /\ Fades
<1> DEFINE m == workers[w].msg
<1>1. /\ workers[w].phase # "idle" /\ workers' = [workers EXCEPT ![w] = Idle]
      /\ \/ turns' = turns
         \/ turns' = [turns EXCEPT ![w] = IF active[workers[w].agent] = w THEN @ ELSE NoTurn]
      /\ UNCHANGED <<meta, active, codex, notes, stopping>>
  BY DEF Settle, SteerSettled, SteerDeferred, external, control
<1>2. m \in Msgs \cup {None} /\ workers[w].turn \in TurnId /\ comms \in Table
  BY WorkerFields DEF TypeOK, LedgerOK, Table
<1>3. CASE comms' = comms
  BY <1>1, <1>3, KinReflexive, ReleaseTurns
<1>4. ASSUME m \in Msgs, NEW new \in Message,
             new \in {Settled(comms[m], workers[w].result, workers[w].turn),
                      Delivered(comms[m], "turn_steer", workers[w].turn)},
             comms' = Answered([comms EXCEPT ![m] = new], m)
      PROVE  Kin(comms, comms')
  <2>1. comms[m] \in Message
    BY <1>2, <1>4 DEF Table
  <2>2. /\ new.delivery # "absent" /\ new.from = comms[m].from /\ new.to = comms[m].to
        /\ new.source = comms[m].source /\ new.replyTo = comms[m].replyTo
    BY <1>2, <1>4, <2>1, SettledSame
  <2>3. [comms EXCEPT ![m] = new] \in Table /\ Kin(comms, [comms EXCEPT ![m] = new])
    BY <1>2, <1>4, <2>2, KinRecord DEF Table
  <2> HIDE DEF m
  <2>4. QED BY <1>2, <1>4, <2>3, KinAnswered
<1>5. CASE SteerDeferred(w)
  <2>1. m \in Msgs /\ comms' = [comms EXCEPT ![m].delivery = "queued"]
    BY <1>5, WorkerFields DEF SteerDeferred
  <2>2. Kin(comms, comms')
    BY <1>2, <2>1, KinDelivery
  <2>3. QED BY <1>1, <2>2, ReleaseTurns
<1>6. CASE SteerSettled(w)
  <2>1. m \in Msgs
    BY <1>6, WorkerFields DEF SteerSettled
  <2>2. /\ Delivered(comms[m], "turn_steer", workers[w].turn) \in Message
        /\ comms' = Answered([comms EXCEPT ![m] = Delivered(comms[m], "turn_steer", workers[w].turn)], m)
    BY <1>2, <1>6, <2>1, DeliveredType DEF SteerSettled, Table
  <2>3. QED BY <1>1, <1>4, <2>1, <2>2, ReleaseTurns
<1>7. CASE Settle(w) /\ comms' # comms
  <2>1. /\ m \in Msgs
        /\ comms' = Answered([comms EXCEPT ![m] =
                               Settled(comms[m], workers[w].result, workers[w].turn)], m)
    BY <1>2, <1>7 DEF Settle
  <2>2. Settled(comms[m], workers[w].result, workers[w].turn) \in Message
    <3>1. comms[m] \in Message
      BY <1>2, <2>1 DEF Table
    <3>2. QED BY <1>2, <3>1, DeliveredType, FieldType DEF Settled, Delivery
  <2>3. QED BY <1>1, <1>4, <2>1, <2>2, ReleaseTurns
<1>8. QED BY <1>3, <1>5, <1>6, <1>7

----------------------------------------------------------------------------
(* The ledger.  The Agents see of a step which requests are open and which     *)
(* replies reached the Agent that asked.                                      *)

(* No request is forgotten or opened, no arrival taken back, and a request is  *)
(* answered by a reply that arrived.                                          *)
Advances(c, d) ==
  \A m \in Msgs :
    /\ d[m].replyTo = c[m].replyTo
    /\ d[m].delivery = "absent" <=> c[m].delivery = "absent"
    /\ c[m].replyTo # None /\ Arrived(c[m]) => Arrived(d[m])
    /\ \/ d[m].status = c[m].status
       \/ /\ c[m].status = "open" /\ d[m].status = "answered"
          /\ \E r \in Msgs : c[r].replyTo = m /\ Arrived(d[r])

Heard(c, d) == Advances(c, d) /\ (ArrivedAnswers(c) => ArrivedAnswers(d))

LEMMA HeardReflexive ==
  ASSUME NEW c
  PROVE  Heard(c, c)
BY DEF Heard, Advances

LEMMA HeardTransitive ==
  ASSUME NEW c, NEW d, NEW e, Heard(c, d), Heard(d, e)
  PROVE  Heard(c, e)
<1> SUFFICES ASSUME NEW m \in Msgs
             PROVE  /\ e[m].replyTo = c[m].replyTo
                    /\ e[m].delivery = "absent" <=> c[m].delivery = "absent"
                    /\ c[m].replyTo # None /\ Arrived(c[m]) => Arrived(e[m])
                    /\ \/ e[m].status = c[m].status
                       \/ /\ c[m].status = "open" /\ e[m].status = "answered"
                          /\ \E r \in Msgs : c[r].replyTo = m /\ Arrived(e[r])
  BY DEF Heard, Advances
<1>1. Advances(c, d) /\ Advances(d, e)
  BY DEF Heard
<1>2. ASSUME NEW r \in Msgs, c[r].replyTo = m, Arrived(d[r]) PROVE Arrived(e[r])
  BY <1>1, <1>2, MessageAssumption DEF Advances
<1>3. QED BY <1>1, <1>2 DEF Advances

(* It is enough to look at the replies that arrive.                           *)
LEMMA NewlyArrived ==
  ASSUME NEW c \in Table, NEW d, Advances(c, d),
         \A r \in Msgs : c[r].replyTo # None /\ Arrived(d[r]) /\ ~Arrived(c[r])
           => d[c[r].replyTo].status # "open"
  PROVE  Heard(c, d)
<1>1. ASSUME ArrivedAnswers(c), NEW r \in Msgs, d[r].replyTo # None, Arrived(d[r])
      PROVE  d[d[r].replyTo].status # "open"
  <2>1. d[r].replyTo = c[r].replyTo /\ c[r].replyTo \in Msgs
    BY <1>1, MessageFields DEF Advances, Table
  <2>2. CASE Arrived(c[r])
    BY <1>1, <2>1, <2>2 DEF ArrivedAnswers, Advances
  <2>3. CASE ~Arrived(c[r])
    BY <1>1, <2>1, <2>3
  <2>4. QED BY <2>2, <2>3
<1>2. QED BY <1>1 DEF Heard, ArrivedAnswers

LEMMA ProgressAdvances ==
  ASSUME NEW c, NEW d, Progress(c, d)
  PROVE  Advances(c, d)
<1>1. ASSUME NEW m \in Msgs
      PROVE  d[m].delivery = "absent" <=> c[m].delivery = "absent"
  BY DEF Progress, Advanced
<1>2. ASSUME NEW m \in Msgs, Arrived(c[m]) PROVE Arrived(d[m])
  BY <1>2, ArrivedStays DEF Progress
<1>3. QED BY <1>1, <1>2 DEF Progress, Advances, Advanced, SameAnswer

(* One record changes that arrived before or does not arrive now.             *)
LEMMA RecordHeard ==
  ASSUME NEW c \in Table, NEW m \in Msgs, NEW new,
         new.replyTo = c[m].replyTo, new.status = c[m].status,
         new.delivery = "absent" <=> c[m].delivery = "absent",
         c[m].replyTo # None => (Arrived(new) <=> Arrived(c[m]))
  PROVE  Heard(c, [c EXCEPT ![m] = new])
<1> DEFINE d == [c EXCEPT ![m] = new]
<1>1. d[m] = new /\ \A n \in Msgs \ {m} : d[n] = c[n]
  BY DEF Table
<1> HIDE DEF d
<1>2. Advances(c, d)
  BY <1>1 DEF Advances
<1>3. Heard(c, d)
  BY <1>1, <1>2, NewlyArrived
<1>4. QED BY <1>3 DEF d

(* A message is delivered and, if it is a reply, answers its request.          *)
LEMMA DeliveredHeard ==
  ASSUME NEW c \in Table, NEW m \in Msgs, NEW new \in Message,
         new.replyTo = c[m].replyTo, new.status = c[m].status,
         new.delivery = "delivered", c[m].delivery # "absent"
  PROVE  Heard(c, Answered([c EXCEPT ![m] = new], m))
<1> DEFINE next == [c EXCEPT ![m] = new]
           d == Answered(next, m)
<1>1. next \in Table /\ next[m] = new /\ \A n \in Msgs \ {m} : next[n] = c[n]
  BY DEF Table
<1> HIDE DEF next
<1>2. Progress(next, d)
  BY <1>1, AnsweredProgress
<1>3. Advances(next, d)
  BY <1>2, ProgressAdvances
<1>4. Arrived(new)
  BY DEF Arrived
<1>5. Advances(c, d)
  <2> HIDE DEF d
  <2>1. \A n \in Msgs : /\ next[n].replyTo = c[n].replyTo /\ next[n].status = c[n].status
                        /\ next[n].delivery = "absent" <=> c[n].delivery = "absent"
                        /\ Arrived(c[n]) => Arrived(next[n])
    BY <1>1, <1>4
  <2>2. QED BY <1>3, <2>1 DEF Advances
<1>6. c[m].replyTo # None => d[c[m].replyTo].status # "open"
  <2> DEFINE q == next[m].replyTo
  <2>1. ASSUME c[m].replyTo # None
        PROVE  q = c[m].replyTo /\ q \in Msgs /\ next[q] \in Message /\ next[m].delivery = "delivered"
    BY <1>1, <2>1, MessageFields DEF Table
  <2>2. ASSUME c[m].replyTo # None, next[q].status = "open" PROVE d[q].status = "answered"
    <3>1. d = [next EXCEPT ![q].status = "answered", ![q].resolution = "reply"]
      BY <2>1, <2>2 DEF Answered
    <3>2. q \in Msgs /\ next[q] \in Message
      BY <2>1, <2>2
    <3> HIDE DEF q, d
    <3>3. QED BY <1>1, <3>1, <3>2 DEF Table, Message
  <2>3. ASSUME c[m].replyTo # None, next[q].status # "open" PROVE d[q] = next[q]
    BY <2>3 DEF Answered
  <2>4. QED BY <2>1, <2>2, <2>3
<1>7. ASSUME NEW r \in Msgs \ {m}, Arrived(d[r]) PROVE Arrived(c[r])
  <2>1. Apart(next[r], d[r])
    BY <1>1, AnsweredApart
  <2>2. QED BY <1>1, <1>7, <2>1 DEF Apart, Arrived
<1>8. Heard(c, d)
  <2> HIDE DEF d
  <2> QED BY <1>5, <1>6, <1>7, NewlyArrived
<1>9. QED BY <1>8 DEF next

LEMMA RunningHeard ==
  ASSUME NEW c \in Table, NEW o \in Turn,
         o.msg \in Msgs => c[o.msg].delivery # "absent"
  PROVE  Heard(c, Running(c, o))
<1>1. CASE ~Markable(c, o)
  BY <1>1, HeardReflexive DEF Running
<1>2. CASE Markable(c, o)
  <2> DEFINE m == o.msg
             new == Started(c[m], o)
             next == [c EXCEPT ![m] = new]
  <2>1. m \in Msgs /\ c[m] \in Message /\ c[m].delivery \in {"delivering", "delivered"}
    BY <1>2 DEF Markable, Turn, Table
  <2>2. new \in Message /\ Advanced(c[m], new) /\ SameAnswer(c[m], new)
        /\ new.delivery = "delivered"
    BY <2>1, StartedType, StartedAdvanced
  <2>3. Running(c, o) = IF c[m].delivery = "delivering" THEN Answered(next, m) ELSE next
    BY <1>2 DEF Running
  <2> HIDE DEF new, m
  <2>4. new.replyTo = c[m].replyTo /\ new.status = c[m].status
    BY <2>2 DEF Advanced, SameAnswer
  <2>5. Heard(c, Answered(next, m))
    BY <2>1, <2>2, <2>4, DeliveredHeard
  <2>6. c[m].delivery = "delivered" => Heard(c, next)
    BY <2>1, <2>2, <2>4, RecordHeard DEF Arrived
  <2>7. QED BY <2>1, <2>3, <2>5, <2>6
<1>3. QED BY <1>1, <1>2

LEMMA EndedHeard ==
  ASSUME NEW c0 \in Table, NEW o \in Turn, NEW status \in Outcome,
         o.msg \in Msgs => c0[o.msg].delivery # "absent"
  PROVE  Heard(c0, Ended(c0, o, status))
<1>1. PICK c \in Table :
        /\ c = c0 \/ c = Running(c0, o)
        /\ \/ Ended(c0, o, status) = c
           \/ /\ o.msg \in Msgs
              /\ \E new \in Message : /\ Ended(c0, o, status) = [c EXCEPT ![o.msg] = new]
                                      /\ Closing(c[o.msg], new)
  BY EndedRecord
<1>2. Heard(c0, c)
  BY <1>1, RunningHeard, HeardReflexive
<1>3. CASE Ended(c0, o, status) = c
  BY <1>2, <1>3
<1>4. CASE Ended(c0, o, status) # c
  <2>1. PICK new \in Message : /\ Ended(c0, o, status) = [c EXCEPT ![o.msg] = new]
                               /\ Closing(c[o.msg], new)
    BY <1>1, <1>4
  <2>2. o.msg \in Msgs
    BY <1>1, <1>4
  <2>3. /\ new.replyTo = c[o.msg].replyTo /\ new.status = c[o.msg].status
        /\ Arrived(c[o.msg]) => Arrived(new)
        /\ Arrived(new) => Arrived(c[o.msg])
    BY <2>1, ArrivedStays DEF Closing, Advanced, SameAnswer
  <2>4. c[o.msg].delivery # "absent" /\ new.delivery # "absent"
    <3>1. c[o.msg].delivery # "absent"
      BY <1>2, <2>2 DEF Heard, Advances
    <3>2. QED BY <2>1, <3>1 DEF Closing, Advanced
  <2>5. Heard(c, [c EXCEPT ![o.msg] = new])
    BY <2>2, <2>3, <2>4, RecordHeard
  <2>6. QED BY <1>2, <2>1, <2>5, HeardTransitive
<1>5. QED BY <1>3, <1>4

LEMMA ReboundAttemptsEmpty ==
  ASSUME NEW q \in Seq(Attempt), NEW k, NEW old, NEW id \in TurnId, old \in TurnId
  PROVE  ReboundAttempts(q, k, old, id) = <<>> <=> q = <<>>
<1> DEFINE p == ReboundAttempts(q, k, old, id)
<1>1. p \in Seq(Attempt)
  BY ReboundAttemptsType
<1>2. DOMAIN p = DOMAIN q
  BY DEF ReboundAttempts
<1> HIDE DEF p
<1>3. p # <<>> <=> 1 \in DOMAIN p
  BY <1>1
<1>4. q # <<>> <=> 1 \in DOMAIN q
  OBVIOUS
<1>5. p = <<>> <=> q = <<>>
  BY <1>2, <1>3, <1>4
<1>6. QED BY <1>5 DEF p

LEMMA ReboundHeard ==
  ASSUME NEW c0 \in Table, NEW o \in Turn, NEW id \in TurnId,
         o.msg \in Msgs => c0[o.msg].delivery # "absent"
  PROVE  Heard(c0, Rebound(c0, o, id))
<1> DEFINE o1 == [o EXCEPT !.id = id]
           c == Running(c0, o1)
           k == IF ReboundTurn(c0, o, id).attempt # 0 THEN ReboundTurn(c0, o, id).attempt
                ELSE IF o.msg = None THEN 0 ELSE c[o.msg].active
           turn == IF c[o.msg].turn \in {0, o.id} THEN id ELSE c[o.msg].turn
           tries == ReboundAttempts(c[o.msg].attempts, k, o.id, id)
           new == [c[o.msg] EXCEPT !.turn = turn, !.attempts = tries]
<1>1. c \in Table /\ o1 \in Turn /\ o1.msg = o.msg
  BY ReboundTurnType DEF Turn
<1>2. Heard(c0, c)
  <2> HIDE DEF o1
  <2> QED BY <1>1, RunningHeard
<1>3. CASE o.msg = None
  BY <1>2, <1>3 DEF Rebound
<1>4. CASE o.msg # None
  <2>1. o.msg \in Msgs
    BY <1>4 DEF Turn
  <2>2. c[o.msg] \in Message
    <3> HIDE DEF c
    <3> QED BY <1>1, <2>1 DEF Table
  <2>3. Rebound(c0, o, id) = [c EXCEPT ![o.msg] = new]
    <3>1. Rebound(c0, o, id) = [c EXCEPT ![o.msg].turn = turn, ![o.msg].attempts = tries]
      BY <1>4 DEF Rebound
    <3>2. [c EXCEPT ![o.msg].turn = turn, ![o.msg].attempts = tries]
            = [c EXCEPT ![o.msg] = new]
      <4> HIDE DEF c, turn, tries
      <4> QED BY <1>1, <2>1 DEF Table
    <3>3. QED BY <3>1, <3>2
  <2>4. tries = <<>> <=> c[o.msg].attempts = <<>>
    <3>1. c[o.msg].attempts \in Seq(Attempt) /\ o.id \in TurnId
      <4> HIDE DEF c
      <4> QED BY <2>2, MessageFields DEF Turn
    <3>2. QED
      <4> HIDE DEF c, k
      <4> QED BY <3>1, ReboundAttemptsEmpty
  <2>5. /\ new.replyTo = c[o.msg].replyTo /\ new.status = c[o.msg].status
        /\ new.delivery = c[o.msg].delivery /\ new.attempts = tries
    <3> HIDE DEF c, turn, tries
    <3> QED BY <2>2 DEF Message
  <2>6. Heard(c, [c EXCEPT ![o.msg] = new])
    <3> HIDE DEF c, new, tries
    <3> QED BY <1>1, <2>1, <2>4, <2>5, RecordHeard DEF Arrived
  <2>7. QED
    <3> HIDE DEF c, new
    <3> QED BY <1>2, <2>3, <2>6, HeardTransitive
<1>5. QED BY <1>3, <1>4

----------------------------------------------------------------------------
(* The steps of an Agent's Turn.                                              *)

(* Four things may happen to it: it is looked at or marked, superseded,        *)
(* renamed, or ended, perhaps under the name it is announced with.             *)
Marked ==
  /\ UNCHANGED <<comms, active>>
  /\ \A b \in Agents : meta'[b].status = "archived" <=> meta[b].status = "archived"
  /\ \A s \in Slots : /\ turns'[s].finished = turns[s].finished /\ turns'[s].id = turns[s].id
                      /\ turns'[s].agent = turns[s].agent /\ turns'[s].msg = turns[s].msg

Superseded(a) == Registered(a) /\ \E id \in TurnId, i \in BOOLEAN : Succeed(a, id, i)

Renamed(a) ==
  Live(a) /\ \E id \in TurnId \ {0}, i \in BOOLEAN : Rebind(a, TurnOf(a), id, i)

Closes(a) ==
  /\ Live(a)
  /\ \E status \in Outcome :
       \/ FinishTurn(a, TurnOf(a), status, comms)
       \/ \E id \in TurnId : FinishTurn(a, ReboundTurn(comms, TurnOf(a), id), status,
                                        Rebound(comms, TurnOf(a), id))

AgentMoves(a) == Marked \/ Superseded(a) \/ Renamed(a) \/ Closes(a)

LEMMA UnchangedMarked ==
  ASSUME UNCHANGED <<comms, turns, active>>,
         \A b \in Agents : meta'[b].status = "archived" <=> meta[b].status = "archived"
  PROVE  Marked
BY DEF Marked

(* A flag of the current Turn is set.                                         *)
LEMMA FlagMarked ==
  ASSUME TypeOK, NEW a \in Agents, Live(a), UNCHANGED <<comms, active, meta>>,
         \/ turns' = [turns EXCEPT ![active[a]].confirmed = TRUE]
         \/ turns' = [turns EXCEPT ![active[a]].interrupting = TRUE]
  PROVE  Marked
<1>1. active[a] \in Slots /\ turns \in [Slots -> Turn]
  BY LiveTurnType DEF TypeOK, RuntimeOK
<1>2. ASSUME NEW s \in Slots
      PROVE  /\ turns'[s].finished = turns[s].finished /\ turns'[s].id = turns[s].id
             /\ turns'[s].agent = turns[s].agent /\ turns'[s].msg = turns[s].msg
  BY <1>1 DEF Turn
<1>3. QED BY <1>2 DEF Marked

LEMMA HeadNote ==
  ASSUME TypeOK, Numbered, NEW a \in Agents, notes[a] # <<>>, notes' = [notes EXCEPT ![a] = Tail(@)],
         UNCHANGED codex
  PROVE  /\ Head(notes[a]) \in Event /\ Head(notes[a]).id \in TurnId \ {0} /\ Numbered'
<1>1. notes \in [Agents -> Seq(Event)] /\ notes[a] \in Seq(Event)
  BY DEF TypeOK, ExternalOK
<1>2. Len(notes[a]) \in Nat /\ 1 \in 1..Len(notes[a]) /\ Head(notes[a]) = notes[a][1]
  BY <1>1
<1>3. Head(notes[a]) \in Event /\ Head(notes[a]).id # 0
  BY <1>1, <1>2 DEF Numbered
<1>4. Head(notes[a]).id \in TurnId
  BY <1>3 DEF Event
<1>5. ASSUME NEW b \in Agents, NEW i \in 1..Len(notes'[b])
      PROVE  notes'[b][i].id # 0
  <2>1. CASE b = a
    <3>1. notes'[a] = Tail(notes[a])
      BY <1>1
    <3>2. i + 1 \in 1..Len(notes[a]) /\ notes'[b][i] = notes[a][i + 1]
      BY <1>1, <1>2, <1>5, <2>1, <3>1
    <3>3. QED BY <3>2 DEF Numbered
  <2>2. CASE b # a
    BY <1>1, <1>5, <2>2 DEF Numbered
  <2>3. QED BY <2>1, <2>2
<1>6. QED BY <1>3, <1>4, <1>5 DEF Numbered

LEMMA AgentActs ==
  ASSUME TypeOK, TurnsInv, NEW a \in Agents, Notify(a) \/ Interrupt(a) \/ ForceFinish(a)
  PROVE  /\ AgentMoves(a) /\ Numbered'
         /\ UNCHANGED <<workers, stopping, draining, commOrder>> /\ spent'.retries = spent.retries
<1>1. CASE Notify(a)
  <2> DEFINE e == Head(notes[a])
  <2>1. /\ notes[a] # <<>> /\ notes' = [notes EXCEPT ![a] = Tail(@)]
        /\ UNCHANGED <<commOrder, workers, codex, stopping, draining, spent>>
    BY <1>1 DEF Notify, control
  <2>2. e \in Event /\ e.id \in TurnId \ {0} /\ Numbered'
    BY <2>1, HeadNote DEF TurnsInv
  <2>3. CASE UNCHANGED <<comms, turns, active, meta>>
    BY <2>1, <2>2, <2>3, UnchangedMarked DEF AgentMoves
  <2>4. CASE Registered(a) /\ e.kind = "started" /\ TurnStarted(a, e.id)
    <3>1. CASE Succeed(a, e.id, FALSE)
      BY <2>1, <2>2, <2>4, <3>1 DEF AgentMoves, Superseded
    <3>2. CASE Live(a) /\ UNCHANGED <<comms, active, meta>>
               /\ turns' = [turns EXCEPT ![active[a]].confirmed = TRUE]
      BY <2>1, <2>2, <3>2, FlagMarked DEF AgentMoves
    <3>3. CASE Live(a) /\ Rebind(a, TurnOf(a), e.id, TurnOf(a).interrupting)
      <4>1. TurnOf(a).interrupting \in BOOLEAN
        BY <3>3, LiveTurnType DEF Turn
      <4>2. QED BY <2>1, <2>2, <3>3, <4>1 DEF AgentMoves, Renamed
    <3>4. QED BY <2>4, <3>1, <3>2, <3>3 DEF TurnStarted
  <2>5. CASE Registered(a) /\ e.kind # "started" /\ TurnEnded(a, e.id, e.status)
    <3>1. e.status \in Outcome
      BY <2>2, <2>5 DEF Event
    <3>2. CASE UNCHANGED <<comms, turns, active, meta>>
      BY <2>1, <2>2, <3>2, UnchangedMarked DEF AgentMoves
    <3>3. CASE Live(a) /\ FinishTurn(a, TurnOf(a), e.status, comms)
      BY <2>1, <2>2, <3>1, <3>3 DEF AgentMoves, Closes
    <3>4. CASE Live(a) /\ FinishTurn(a, ReboundTurn(comms, TurnOf(a), e.id), e.status,
                                     Rebound(comms, TurnOf(a), e.id))
      BY <2>1, <2>2, <3>1, <3>4 DEF AgentMoves, Closes
    <3>5. QED BY <2>5, <3>2, <3>3, <3>4 DEF TurnEnded
  <2>6. QED BY <1>1, <2>3, <2>4, <2>5 DEF Notify
<1>2. CASE Interrupt(a)
  <2>1. /\ UNCHANGED <<workers, stopping, draining, commOrder>> /\ spent'.retries = spent.retries
    BY <1>2 DEF Interrupt, control, Command, Spend, TypeOK, ControlOK
  <2>2. CASE ~Live(a)
    <3>1. /\ meta[a].status = "running" /\ meta' = [meta EXCEPT ![a] = IdleAgent]
          /\ UNCHANGED <<comms, active, turns, codex, notes>>
      BY <1>2, <2>2 DEF Interrupt
    <3>2. \A b \in Agents : meta'[b].status = "archived" <=> meta[b].status = "archived"
      BY <3>1 DEF IdleAgent, TypeOK, RuntimeOK
    <3>3. QED BY <2>1, <3>1, <3>2, UnchangedMarked, NumberedKept DEF AgentMoves, TurnsInv
  <2>3. CASE Live(a)
    <3>1. /\ End(a, "interrupted")
          /\ \/ /\ turns' = [turns EXCEPT ![active[a]].interrupting = TRUE]
                /\ UNCHANGED <<comms, active, meta>>
             \/ Rebind(a, TurnOf(a), codex[a].id, TRUE)
             \/ Succeed(a, codex[a].id, TRUE)
      BY <1>2, <2>3 DEF Interrupt
    <3>2. codex[a].id \in TurnId \ {0} /\ Registered(a)
      BY <2>3, <3>1 DEF End, TurnsInv, Numbered, Placed, TypeOK, ExternalOK, CodexTurn
    <3>3. Numbered'
      BY <3>1, EndNumbers DEF Outcome, TurnsInv
    <3>4. AgentMoves(a)
      BY <2>3, <3>1, <3>2, FlagMarked DEF AgentMoves, Renamed, Superseded
    <3>5. QED BY <2>1, <3>3, <3>4
  <2>4. QED BY <2>2, <2>3
<1>3. CASE ForceFinish(a)
  <2>1. /\ UNCHANGED <<workers, stopping, draining, commOrder, spent, codex, notes>>
        /\ Live(a) /\ FinishTurn(a, TurnOf(a), "interrupted", comms)
    BY <1>3 DEF ForceFinish, control, external
  <2>2. Closes(a)
    BY <2>1 DEF Closes, Outcome
  <2>3. QED BY <2>1, <2>2, NumberedKept DEF AgentMoves, TurnsInv
<1>4. QED BY <1>1, <1>2, <1>3

(* The table a Turn leaves, and the message it is about.                      *)
LEMMA AgentTables ==
  ASSUME TypeOK, Carrying, NEW a \in Agents, AgentMoves(a)
  PROVE  /\ Progress(comms, comms') /\ Heard(comms, comms')
         /\ comms' = comms \/ (Live(a) /\ Moves(comms, comms', TurnOf(a).msg))
<1>1. comms \in Table /\ "interrupted" \in Outcome
  BY DEF TypeOK, LedgerOK, Table, Outcome
<1>2. CASE comms' = comms
  BY <1>2, ProgressReflexive, HeardReflexive
<1>3. CASE Live(a) /\ comms' # comms
  <2> DEFINE o == TurnOf(a)
  <2>1. /\ o \in Turn
        /\ o.msg \in Msgs => comms[o.msg].delivery # "absent"
    BY <1>3, LiveTurnType DEF Carrying, Known, TurnOf, Live
  <2> HIDE DEF o
  <2>2. ASSUME NEW status \in Outcome, comms' = Ended(comms, o, status)
        PROVE  Heard(comms, comms') /\ Progress(comms, comms') /\ Moves(comms, comms', o.msg)
    BY <1>1, <2>1, <2>2, EndedProgress, EndedMoves, EndedHeard
  <2>3. ASSUME NEW id \in TurnId
        PROVE  /\ Progress(comms, Rebound(comms, o, id))
               /\ Moves(comms, Rebound(comms, o, id), o.msg)
               /\ Heard(comms, Rebound(comms, o, id))
    BY <1>1, <2>1, ReboundProgress, ReboundMoves, ReboundHeard
  <2>4. ASSUME NEW status \in Outcome, NEW id \in TurnId,
               comms' = Ended(Rebound(comms, o, id), ReboundTurn(comms, o, id), status)
        PROVE  Heard(comms, comms') /\ Progress(comms, comms') /\ Moves(comms, comms', o.msg)
    <3>1. /\ Rebound(comms, o, id) \in Table /\ ReboundTurn(comms, o, id) \in Turn
          /\ ReboundTurn(comms, o, id).msg = o.msg
      <4>1. Rebound(comms, o, id) \in Table
        BY <1>1, <2>1, ReboundType
      <4>2. ReboundTurn(comms, o, id) \in Turn
        BY <1>1, <2>1, ReboundTurnType
      <4>3. ReboundTurn(comms, o, id).msg = o.msg
        BY <2>1, TurnFields
      <4>4. QED BY <4>1, <4>2, <4>3
    <3>2. /\ Progress(Rebound(comms, o, id), comms')
          /\ Moves(Rebound(comms, o, id), comms', o.msg)
      BY <2>4, <3>1, EndedProgress, EndedMoves
    <3>3. o.msg \in Msgs => Rebound(comms, o, id)[o.msg].delivery # "absent"
      BY <2>1, <2>3 DEF Heard, Advances
    <3>4. Heard(Rebound(comms, o, id), comms')
      BY <2>4, <3>1, <3>3, EndedHeard
    <3>5. Heard(comms, comms')
      BY <2>3, <3>4, HeardTransitive
    <3>6. QED BY <2>3, <3>2, <3>5, ProgressTransitive, MovesTransitive
  <2>5. \/ \E status \in Outcome : comms' = Ended(comms, o, status)
        \/ \E id \in TurnId : comms' = Rebound(comms, o, id)
        \/ \E status \in Outcome, id \in TurnId :
             comms' = Ended(Rebound(comms, o, id), ReboundTurn(comms, o, id), status)
    <3>1. CASE Superseded(a)
      BY <1>1, <1>3, <3>1 DEF Superseded, Succeed, o
    <3>2. CASE Renamed(a)
      BY <3>2 DEF Renamed, Rebind, o
    <3>3. CASE Closes(a)
      BY <3>3 DEF Closes, FinishTurn, o
    <3>4. QED BY <1>3, <3>1, <3>2, <3>3 DEF AgentMoves, Marked
  <2>6. Heard(comms, comms') /\ Progress(comms, comms') /\ Moves(comms, comms', o.msg)
    BY <2>2, <2>3, <2>4, <2>5
  <2>7. QED BY <1>3, <2>6 DEF o
<1>4. CASE ~Live(a)
  BY <1>2, <1>4 DEF AgentMoves, Marked, Superseded, Succeed, Renamed, Closes
<1>5. QED BY <1>2, <1>3, <1>4

(* Where the Turns are afterwards.                                            *)
LEMMA AgentPlaced ==
  ASSUME TypeOK, Placed, UNCHANGED stopping, NEW a \in Agents, AgentMoves(a)
  PROVE  Placed' /\ Archives /\ Grows
<1>1. CASE Marked
  BY <1>1, PlacedSame, FadesGrows DEF Marked
<1>2. CASE Superseded(a)
  BY <1>2, PlacedSucceed DEF Superseded
<1>3. CASE Renamed(a)
  <2>1. PICK id \in TurnId \ {0}, i \in BOOLEAN : Rebind(a, TurnOf(a), id, i)
    BY <1>3 DEF Renamed
  <2> DEFINE o == TurnOf(a)
             t == ReboundTurn(comms, o, id)
  <2>2. o \in Turn /\ active[a] \in Slots /\ Live(a) /\ Registered(a)
    BY <1>3, LiveTurnType DEF Renamed, Placed
  <2>3. t \in Turn /\ t.agent = o.agent /\ t.msg = o.msg /\ t.finished = o.finished /\ t.id = id
    <3> HIDE DEF o
    <3>1. t \in Turn
      BY <2>1, <2>2, ReboundTurnType DEF TypeOK, LedgerOK, Table
    <3>2. id \in TurnId
      BY <2>1
    <3> HIDE DEF t
    <3>3. o \in Turn
      BY <2>2
    <3>4. /\ ReboundTurn(comms, o, id).agent = o.agent /\ ReboundTurn(comms, o, id).msg = o.msg
          /\ ReboundTurn(comms, o, id).finished = o.finished
          /\ ReboundTurn(comms, o, id).id = id
      BY <3>2, <3>3, TurnFields
    <3>5. QED BY <3>1, <3>4 DEF t
  <2>4. turns' = [turns EXCEPT ![active[a]] = [t EXCEPT !.confirmed = TRUE, !.interrupting = i]]
    BY <2>1 DEF Rebind
  <2>5. ASSUME NEW s \in Slots
        PROVE  /\ turns'[s].finished = turns[s].finished
               /\ turns'[s].agent = turns[s].agent /\ turns'[s].msg = turns[s].msg
               /\ turns[s].id # 0 => turns'[s].id # 0
    <3>1. CASE s = active[a]
      <4>1. turns'[s] = [t EXCEPT !.confirmed = TRUE, !.interrupting = i] /\ turns[s] = o
        BY <2>2, <2>4, <3>1 DEF TypeOK, RuntimeOK, TurnOf
      <4> HIDE DEF t, o
      <4>2. QED BY <2>1, <2>3, <4>1 DEF Turn
    <3>2. CASE s # active[a]
      BY <2>2, <2>4, <3>2 DEF TypeOK, RuntimeOK
    <3>3. QED BY <3>1, <3>2
  <2>6. \A b \in Agents : meta'[b].status = "archived" <=> meta[b].status = "archived"
    BY <2>1, <2>2 DEF Rebind, RunningAgent, TypeOK, RuntimeOK, Registered
  <2>7. QED BY <2>1, <2>5, <2>6, PlacedSame, FadesGrows DEF Rebind
<1>4. CASE Closes(a)
  <2>1. TurnOf(a) \in Turn /\ comms \in Table
    BY <1>4, LiveTurnType DEF Closes, TypeOK, LedgerOK, Table
  <2>2. \A id \in TurnId : ReboundTurn(comms, TurnOf(a), id) \in Turn
    BY <2>1, ReboundTurnType
  <2>3. Live(a) /\ \E o \in Turn : \E status, c : FinishTurn(a, o, status, c)
    BY <1>4, <2>1, <2>2 DEF Closes
  <2>4. QED BY <2>3, PlacedFinish, FadesGrows
<1>5. QED BY <1>1, <1>2, <1>3, <1>4 DEF AgentMoves

LEMMA AgentTurns ==
  ASSUME TypeOK, SafetyInv, TurnsInv, NEW a \in Agents,
         Notify(a) \/ Interrupt(a) \/ ForceFinish(a)
  PROVE  TurnsInv' /\ Archives /\ Grows
<1>1. AgentMoves(a) /\ Numbered' /\ UNCHANGED <<workers, stopping>>
  BY AgentActs
<1>2. Placed' /\ Archives /\ Grows
  BY <1>1, AgentPlaced DEF TurnsInv
<1>3. Kin(comms, comms')
  BY <1>1, AgentTables, KinMoves, KinReflexive DEF TurnsInv
<1>4. Carrying'
  BY <1>1, <1>2, <1>3, CarryingKept DEF TurnsInv, KeepsJob
<1>5. QED BY <1>1, <1>2, <1>4, ServingKept DEF TurnsInv

(* An Agent is archived.                                                      *)
LEMMA ArchiveTurns ==
  ASSUME TypeOK, SafetyInv, TurnsInv, NEW a \in Agents, ArchiveAgent(a)
  PROVE  TurnsInv' /\ Archives /\ Fades
<1>1. /\ UNCHANGED <<comms, workers, codex, notes, stopping>> /\ Registered(a)
      /\ \A s \in Slots : turns'[s] = turns[s] \/ (s = active[a] /\ turns'[s] = NoTurn)
      /\ active'[a] = None /\ \A b \in Agents \ {a} : active'[b] = active[b]
      /\ meta'[a].status = "archived" /\ \A b \in Agents \ {a} : meta'[b] = meta[b]
  BY DEF ArchiveAgent, external, control, TypeOK, RuntimeOK, IdleAgent
<1>2. Fades /\ Archives /\ Grows
  <2>1. Fades
    BY <1>1 DEF Fades, OldTurn, NoTurn
  <2>2. Archives
    BY <1>1 DEF Archives
  <2>3. QED BY <2>1, <2>2, FadesGrows
<1>3. ASSUME NEW s \in Slots, ~turns'[s].finished, Registered(turns[s].agent)
      PROVE  \/ active'[turns[s].agent] = active[turns[s].agent]
             \/ meta'[turns[s].agent].status = "archived"
  <2>1. turns[s].agent \in Agents
    BY <1>2, <1>3 DEF Fades, OldTurn, TurnsInv, Placed
  <2>2. QED BY <1>1, <2>1
<1>4. ASSUME NEW b \in Agents, active'[b] # None
      PROVE  /\ active'[b] = active[b]
             /\ Registered(b) => meta'[b].status # "archived"
             /\ stopping \/ turns'[active[b]].finished => stopping'
  <2>1. b # a /\ active'[b] = active[b] /\ meta'[b] = meta[b]
    BY <1>1, <1>4
  <2>2. CASE stopping
    BY <1>1, <2>1, <2>2 DEF Registered
  <2>3. CASE ~stopping
    <3>1. Live(b) /\ TurnOf(b).agent = b /\ active[b] \in Slots
      BY <1>4, <2>1, <2>3, LiveTurnType DEF TurnsInv, Placed
    <3>2. active[b] # active[a]
      BY <1>4, <2>1, <2>3, <3>1 DEF TurnsInv, Placed, TurnOf
    <3>3. QED BY <1>1, <2>1, <2>3, <3>1, <3>2 DEF Live, Registered
  <2>4. QED BY <2>2, <2>3
<1>5. Placed'
  BY <1>2, <1>3, <1>4, PlacedFades DEF TurnsInv
<1>6. Carrying'
  BY <1>1, <1>2, CarryingKept, KinReflexive DEF TurnsInv, KeepsJob
<1>7. QED BY <1>1, <1>2, <1>5, <1>6, ServingKept, NumberedKept DEF TurnsInv

----------------------------------------------------------------------------
(* The CodexHost's exit, shutdown and the next process.                       *)

(* An exit or a shutdown ends every current Turn: none stands.                *)
LEMMA NoneStands ==
  ASSUME Placed, Placed', Archives, Fades,
         \A s \in Slots : (\E a \in Agents : Live(a) /\ active[a] = s) => turns'[s].finished
  PROVE  \A s \in Slots : ~Standing(s)'
<1> SUFFICES ASSUME NEW s \in Slots, Standing(s)' PROVE FALSE
  OBVIOUS
<1>1. OldTurn(s) /\ ~turns'[s].finished
  BY DEF Fades, Standing
<1>2. turns[s].agent \in Agents /\ Registered(turns[s].agent)
  BY <1>1 DEF OldTurn, Placed, Standing, Archives, Registered
<1>3. active[turns[s].agent] = s /\ s # None
  BY <1>1, <1>2, SlotNotNone DEF OldTurn, Placed, Standing
<1>4. Live(turns[s].agent)
  BY <1>1, <1>3 DEF Live, OldTurn
<1>5. QED BY <1>1, <1>2, <1>3, <1>4

LEMMA HostExitTurns ==
  ASSUME TypeOK, SafetyInv, TurnsInv, HostExit
  PROVE  /\ TurnsInv' /\ Archives /\ Fades
         /\ \A s \in Slots : ~Standing(s)'
         /\ \A w \in Workers :
              /\ workers'[w].msg = workers[w].msg
              /\ workers'[w].phase = "idle" <=> workers[w].phase = "idle"
              /\ workers'[w].phase \in {"steering", "steered"} => workers'[w] = workers[w]
              /\ Fresh(w)' => Fresh(w)
<1>1. /\ active' = [a \in Agents |-> None] /\ stopping' = stopping
      /\ meta' = [a \in Agents |-> IF Live(a) THEN IdleAgent ELSE meta[a]]
      /\ turns' = [s \in Slots |-> IF \E a \in Agents : Live(a) /\ active[a] = s
                                   THEN Over(s, turns[s]) ELSE turns[s]]
      /\ codex' = Orphaned /\ notes' = [a \in Agents |-> <<>>]
  BY DEF HostExit, control
<1>2. ASSUME NEW s \in Slots
      PROVE  /\ (\E a \in Agents : Live(a) /\ active[a] = s) => turns'[s].finished
             /\ turns'[s].finished \/ turns'[s] = turns[s]
  <2>1. Over(s, turns[s]).finished
    BY DEF Over, NoTurn, TypeOK, RuntimeOK, Turn
  <2>2. QED BY <1>1, <2>1
<1>3. Fades /\ Archives /\ Grows
  <2>1. Fades
    BY <1>2 DEF Fades, OldTurn
  <2>2. Archives
    BY <1>1 DEF Archives, IdleAgent, TurnsInv, Placed, Registered
  <2>3. QED BY <2>1, <2>2, FadesGrows
<1>4. ASSUME NEW s \in Slots, ~turns'[s].finished, Registered(turns[s].agent)
      PROVE  FALSE
  <2>1. ~turns[s].finished /\ turns[s].agent \in Agents /\ active[turns[s].agent] = s
    BY <1>3, <1>4 DEF Fades, OldTurn, TurnsInv, Placed, Standing
  <2>2. Live(turns[s].agent)
    BY <2>1, SlotNotNone DEF Live
  <2>3. QED BY <1>2, <1>4, <2>1, <2>2
<1>5. \A a \in Agents : active'[a] = None
  BY <1>1
<1>6. Placed'
  BY <1>3, <1>4, <1>5, PlacedFades DEF TurnsInv
<1>7. \A s \in Slots : ~Standing(s)'
  BY <1>2, <1>3, <1>6, NoneStands DEF TurnsInv
<1>8. PICK S \in SUBSET {w \in Workers : workers[w].phase \in {"sending", "accepted"}} :
        workers' = [w \in Workers |->
          CASE w \in S /\ workers[w].phase = "sending" ->
                 [workers[w] EXCEPT !.phase = "returning", !.result = "busy"]
            [] \/ w \in S /\ workers[w].phase = "accepted"
               \/ workers[w].phase = "starting" -> [workers[w] EXCEPT !.phase = "lost"]
            [] OTHER -> workers[w]]
  BY DEF HostExit
<1>9. ASSUME NEW w \in Workers
      PROVE  /\ workers'[w].agent = workers[w].agent /\ workers'[w].msg = workers[w].msg
             /\ workers'[w].phase = "idle" <=> workers[w].phase = "idle"
             /\ workers'[w].phase \in {"steering", "steered"} => workers'[w] = workers[w]
             /\ workers'[w] = workers[w] \/ workers'[w].phase = "lost"
                \/ /\ workers[w].phase = "sending"
                   /\ workers'[w].phase = "returning" /\ workers'[w].result = "busy"
  <2>1. workers[w] \in Worker
    BY WorkerFields
  <2>2. CASE w \in S /\ workers[w].phase = "sending"
    <3>1. workers'[w] = [workers[w] EXCEPT !.phase = "returning", !.result = "busy"]
      BY <1>8, <2>2
    <3>2. QED BY <2>1, <2>2, <3>1 DEF Worker
  <2>3. CASE \/ w \in S /\ workers[w].phase = "accepted"
             \/ workers[w].phase = "starting"
    <3>1. workers'[w] = [workers[w] EXCEPT !.phase = "lost"]
      BY <1>8, <2>3
    <3>2. QED BY <2>1, <2>3, <3>1 DEF Worker
  <2>4. CASE ~(\/ w \in S /\ workers[w].phase \in {"sending", "accepted"}
               \/ workers[w].phase = "starting")
    <3>1. workers'[w] = workers[w]
      BY <1>8, <2>4
    <3>2. QED BY <3>1
  <2>5. QED BY <1>8, <2>2, <2>3, <2>4
<1>10. Kin(comms, comms')
  <2>1. ASSUME NEW m \in Msgs
        PROVE  \/ comms'[m] = comms[m]
               \/ \E a \in Agents : /\ Live(a) /\ TurnOf(a).msg = m
                                    /\ comms'[m] = Ended(comms, TurnOf(a), "interrupted")[m]
    BY DEF HostExit
  <2>2. ASSUME NEW m \in Msgs, NEW a \in Agents, Live(a)
        PROVE  Touched(comms[m], Ended(comms, TurnOf(a), "interrupted")[m])
    <3>1. TurnOf(a) \in Turn /\ comms \in Table /\ "interrupted" \in Outcome
      BY <2>2, LiveTurnType DEF TypeOK, LedgerOK, Table, Outcome
    <3>2. QED BY <3>1, EndedMoves DEF Moves
  <2>3. QED BY <2>1, <2>2 DEF Kin, Touched
<1>11. Carrying'
  BY <1>3, <1>9, <1>10, CarryingKept DEF TurnsInv, KeepsJob
<1>12. Serving'
  <2>1. ASSUME NEW w \in Workers PROVE Serves(w)'
    <3>1. /\ ~Standing(w)' /\ Serves(w) /\ (~turns'[w].finished => turns'[w] = turns[w])
      BY <1>2, <1>7, WorkerNoAgent DEF TurnsInv, Serving
    <3>2. QED BY <1>9, <3>1 DEF Serves, Turnless, Fresh
  <2>2. QED BY <2>1 DEF Serving
<1>13. Numbered'
  <2>1. ASSUME NEW a \in Agents PROVE codex'[a].status # "running" /\ notes'[a] = <<>>
    BY <1>1 DEF Orphaned, TypeOK, ExternalOK, CodexTurn
  <2>2. QED BY <2>1 DEF Numbered
<1>14. \A w \in Workers : Fresh(w)' => Fresh(w)
  BY <1>9 DEF Fresh
<1>15. QED BY <1>3, <1>6, <1>7, <1>9, <1>11, <1>12, <1>13, <1>14 DEF TurnsInv

LEMMA ShutdownTurns ==
  ASSUME TypeOK, SafetyInv, TurnsInv, Shutdown
  PROVE  /\ TurnsInv' /\ Archives /\ Fades /\ \A s \in Slots : ~Standing(s)'
<1>1. /\ UNCHANGED <<comms, meta, active, workers, codex, notes>> /\ stopping' = TRUE
      /\ turns' = [s \in Slots |-> IF \E a \in Agents : Live(a) /\ active[a] = s
                                   THEN [turns[s] EXCEPT !.finished = TRUE] ELSE turns[s]]
  BY DEF Shutdown, external
<1>2. ASSUME NEW s \in Slots
      PROVE  /\ (\E a \in Agents : Live(a) /\ active[a] = s) => turns'[s].finished
             /\ turns'[s].finished \/ turns'[s] = turns[s]
  BY <1>1 DEF TypeOK, RuntimeOK, Turn
<1>3. Fades /\ Archives /\ Grows
  <2>1. Fades
    BY <1>2 DEF Fades, OldTurn
  <2>2. QED BY <1>1, <2>1, FadesGrows DEF Archives
<1>4. Placed'
  BY <1>1, <1>3, PlacedFades DEF TurnsInv, Registered
<1>5. Carrying'
  BY <1>1, <1>3, CarryingKept, KinReflexive DEF TurnsInv, KeepsJob
<1>6. QED BY <1>1, <1>2, <1>3, <1>4, <1>5, NoneStands, ServingKept, NumberedKept DEF TurnsInv

(* A new process has no Turns and no workers.                                 *)
LEMMA ReopenTurns ==
  ASSUME TypeOK, Crash \/ Restart
  PROVE  /\ TurnsInv' /\ Archives /\ \A s \in Slots : turns'[s] = NoTurn
         /\ \A w \in Workers : workers'[w] = Idle
<1>1. /\ active' = [a \in Agents |-> None] /\ turns' = [s \in Slots |-> NoTurn]
      /\ workers' = [w \in Workers |-> Idle] /\ codex' = Orphaned
      /\ notes' = [a \in Agents |-> <<>>] /\ meta' = [a \in Agents |-> RecoveredAgent(a)]
  BY DEF Crash, Restart, Reopen
<1>2. /\ \A s \in Slots : turns'[s] = NoTurn /\ turns'[s].finished
      /\ \A w \in Workers : workers'[w] = Idle /\ workers'[w].phase = "idle"
      /\ \A a \in Agents : active'[a] = None
  BY <1>1 DEF NoTurn, Idle
<1>3. Archives
  BY <1>1 DEF Archives, RecoveredAgent, IdleAgent
<1>4. Placed' /\ Carrying'
  BY <1>2 DEF Placed, Carrying, Standing, Live, Holding
<1>5. Serving'
  BY <1>2 DEF Serving, Serves, Turnless, Fresh
<1>6. Numbered'
  <2>1. ASSUME NEW a \in Agents PROVE codex'[a].status # "running" /\ notes'[a] = <<>>
    BY <1>1 DEF Orphaned, TypeOK, ExternalOK, CodexTurn
  <2>2. QED BY <2>1 DEF Numbered
<1>7. QED BY <1>2, <1>3, <1>4, <1>5, <1>6 DEF TurnsInv

(* Codex's own steps, and the drain flag.                                     *)
LEMMA CodexTurns ==
  ASSUME TypeOK, SafetyInv, TurnsInv,
         (\E a \in Agents : RemoteStart(a) \/ CodexEnds(a)) \/ BeginDrain \/ CancelDrain
  PROVE  /\ TurnsInv' /\ Archives /\ Fades
         /\ UNCHANGED <<comms, turns, workers, meta>> /\ spent'.retries = spent.retries
<1>1. /\ UNCHANGED <<comms, runtime, stopping>> /\ spent'.retries = spent.retries
  BY DEF RemoteStart, CodexEnds, BeginDrain, CancelDrain, control, Command, Spend, TypeOK, ControlOK
<1>2. Numbered'
  <2>1. CASE \E a \in Agents : RemoteStart(a)
    BY <2>1, BeginNumbers DEF RemoteStart, TurnsInv
  <2>2. CASE \E a \in Agents : CodexEnds(a)
    BY <2>2, EndNumbers DEF CodexEnds, Outcome, TurnsInv
  <2>3. CASE BeginDrain \/ CancelDrain
    BY <2>3, NumberedKept DEF BeginDrain, CancelDrain, external, TurnsInv
  <2>4. QED BY <2>1, <2>2, <2>3
<1>3. Placed' /\ Archives /\ Fades /\ Grows
  BY <1>1, PlacedQuiet, FadesGrows DEF TurnsInv, runtime
<1>4. Carrying'
  BY <1>1, <1>3, CarryingKept, KinReflexive DEF TurnsInv, KeepsJob, runtime
<1>5. QED BY <1>1, <1>2, <1>3, <1>4, ServingKept DEF TurnsInv, runtime

----------------------------------------------------------------------------
(* What a step may do to one message and keep its order.                      *)

MoreRetries ==
  /\ spent'.retries <= 1 => spent.retries <= 1
  /\ spent'.retries = 0 => spent.retries = 0

SameHands(m) ==
  \A w \in Workers : Holding(workers', w, m) => Holding(workers, w, m) /\ (Fresh(w)' => Fresh(w))

SameIds(m) ==
  \A s \in Slots : turns'[s].msg = m /\ ~turns'[s].finished =>
    \/ turns'[s].id = turns[s].id
    \/ turns[s].id = 0 /\ comms[m].delivery \notin {"delivering", "delivered"}

NotReopened(m) == comms'[m].status = "open" => comms[m].status = "open"

(* A Turn that carries a message afterwards carried it before.                *)
LEMMA CarriedBefore ==
  ASSUME Placed, Placed', Archives, Grows, NEW m \in Msgs, NEW s \in Slots, turns'[s].msg = m
  PROVE  /\ ~turns'[s].finished => OldTurn(s) /\ turns[s].msg = m
         /\ Standing(s)' => Standing(s) /\ turns[s].msg = m
<1>1. ~turns'[s].finished => OldTurn(s) /\ turns[s].msg = m
  BY MessageAssumption DEF Grows, OldTurn
<1>2. Standing(s)' => Standing(s)
  BY StoodBefore, MessageAssumption
<1>3. QED BY <1>1, <1>2 DEF Standing

(* The Turns that carry it carried it before.                                 *)
SameCarriers(m) ==
  \A s \in Slots : turns'[s].msg = m =>
    /\ ~turns'[s].finished => turns[s].msg = m /\ ~turns[s].finished
    /\ Standing(s)' => Standing(s) /\ turns[s].msg = m

(* Its record stays and nobody takes it.                                      *)
LEMMA RecordKept ==
  ASSUME MoreRetries, NEW m \in Msgs, Kept(m), SameCarriers(m),
         Apart(comms[m], comms'[m]), NotReopened(m), SameHands(m), SameIds(m)
  PROVE  Kept(m)'
<1>1. /\ comms'[m].delivery = comms[m].delivery /\ comms'[m].handling = comms[m].handling
      /\ comms'[m].turn = comms[m].turn /\ comms'[m].replyTo = comms[m].replyTo
  BY DEF Apart
<1>2. ASSUME NEW s \in Slots, turns'[s].msg = m
      PROVE  /\ ~turns'[s].finished => turns[s].msg = m /\ ~turns[s].finished
             /\ Standing(s)' => Standing(s) /\ turns[s].msg = m
  BY <1>2 DEF SameCarriers
<1>3. ASSUME NEW w \in Workers, Holding(workers', w, m)
      PROVE  Holding(workers, w, m) /\ (Fresh(w)' => Fresh(w))
  BY <1>3 DEF SameHands
<1>4. ASSUME NEW s \in Slots, turns'[s].msg = m, Standing(s)'
      PROVE  \/ turns'[s].id = turns[s].id
             \/ turns[s].id = 0 /\ comms[m].delivery \notin {"delivering", "delivered"}
  BY <1>4 DEF SameIds, Standing
<1>5. Unhandled(m)'
  BY <1>1 DEF Kept, Unhandled, NotReopened
<1>6. ASSUME Early(m)' PROVE Calm(m)'
  <2>1. Calm(m)
    BY <1>1, <1>6 DEF Kept, Early, MoreRetries
  <2>2. comms'[m].delivery \in {"queued", "delivering"} => comms'[m].handling = "pending"
    BY <1>1, <2>1 DEF Calm
  <2>3. ASSUME NEW w \in Workers, Holding(workers', w, m), Fresh(w)'
        PROVE  /\ comms'[m].delivery # "queued" /\ comms'[m].handling = "pending"
               /\ \A v \in Workers \ {w} : ~(Holding(workers', v, m) /\ Fresh(v)')
               /\ \A s \in Slots : turns'[s].msg = m => turns'[s].finished
    BY <1>1, <1>2, <1>3, <2>1, <2>3 DEF Calm
  <2>4. ASSUME NEW s \in Slots, turns'[s].msg = m, Standing(s)'
        PROVE  /\ comms'[m].delivery # "queued"
               /\ turns'[s].id # 0 => comms'[m].delivery # "delivering"
    BY <1>1, <1>2, <1>4, <2>1, <2>4 DEF Calm
  <2>5. QED BY <2>2, <2>3, <2>4 DEF Calm
<1>7. ASSUME spent'.retries = 0 PROVE Once(m)'
  <2>1. Once(m)
    BY <1>7 DEF Kept, MoreRetries
  <2>2. ASSUME NEW w \in Workers, Holding(workers', w, m)
        PROVE  /\ comms'[m].delivery # "queued"
               /\ \A v \in Workers \ {w} : ~Holding(workers', v, m)
               /\ Fresh(w)' => comms'[m].delivery \notin {"delivered", "failed"}
               /\ \A s \in Slots : turns'[s].msg = m /\ Standing(s)' => s = w
    BY <1>1, <1>2, <1>3, <2>1, <2>2 DEF Once
  <2>3. ASSUME NEW s \in Slots, turns'[s].msg = m, Standing(s)'
        PROVE  /\ comms'[m].delivery # "failed" /\ comms'[m].handling \in {"pending", "running"}
               /\ comms'[m].delivery = "delivered" /\ comms'[m].status = "open" =>
                    turns'[s].id # 0 /\ comms'[m].turn = turns'[s].id
    BY <1>1, <1>2, <1>4, <2>1, <2>3 DEF Once, NotReopened
  <2>4. QED BY <2>2, <2>3 DEF Once
<1>8. QED BY <1>5, <1>6, <1>7 DEF Kept

LEMMA StillKept ==
  ASSUME Placed, Placed', Archives, Grows, MoreRetries, NEW m \in Msgs, Kept(m),
         Apart(comms[m], comms'[m]), NotReopened(m), SameHands(m), SameIds(m)
  PROVE  Kept(m)'
<1>1. SameCarriers(m)
  BY CarriedBefore DEF SameCarriers, OldTurn
<1>2. QED BY <1>1, RecordKept

(* Two Turns that stand do not carry the same message.                        *)
LEMMA OneTurn ==
  ASSUME Placed, Carrying, NEW m \in Msgs, NEW s \in Slots, NEW r \in Slots,
         turns[s].msg = m, ~turns[s].finished, turns[r].msg = m, Standing(r)
  PROVE  r = s
<1>1. turns[s].agent = comms[m].to /\ turns[r].agent = comms[m].to
  BY DEF Carrying, Standing
<1>2. Standing(s)
  BY <1>1 DEF Standing
<1>3. QED BY <1>1, <1>2 DEF Placed

(* What a Turn leaves of the record of its message stays unhandled.            *)
LEMMA TouchedUnhandled ==
  ASSUME NEW m \in Msgs, Unhandled(m), Touched(comms[m], comms'[m]), NotReopened(m)
  PROVE  Unhandled(m)'
BY DEF Unhandled, Touched, NotReopened

(* The Turn that carried it is over.                                          *)
LEMMA FreedKept ==
  ASSUME MoreRetries, NEW m \in Msgs, Kept(m), Touched(comms[m], comms'[m]), NotReopened(m),
         SameHands(m), NEW s \in Slots, turns[s].msg = m, ~turns[s].finished,
         \A r \in Slots : turns'[r].msg = m => ~Standing(r)'
  PROVE  Kept(m)'
<1>1. /\ comms'[m].delivery = comms[m].delivery
         \/ (comms[m].delivery = "delivering" /\ comms'[m].delivery \in {"delivered", "failed"})
      /\ comms'[m].delivery \in {"queued", "delivering"} => comms'[m].handling = comms[m].handling
      /\ comms'[m].replyTo = comms[m].replyTo
  BY DEF Touched
<1>2. ASSUME Early(m)' PROVE Calm(m) /\ \A w \in Workers : ~(Holding(workers', w, m) /\ Fresh(w)')
  <2>1. Calm(m)
    BY <1>1, <1>2 DEF Kept, Early, MoreRetries
  <2>2. QED BY <2>1 DEF Calm, SameHands
<1>3. ASSUME Early(m)' PROVE Calm(m)'
  <2>1. comms'[m].delivery \in {"queued", "delivering"} => comms'[m].handling = "pending"
    BY <1>1, <1>2, <1>3 DEF Calm
  <2>2. QED BY <1>2, <1>3, <2>1 DEF Calm
<1>4. ASSUME spent'.retries = 0 PROVE Once(m)'
  <2>1. Once(m) /\ Early(m)'
    BY <1>4 DEF Kept, MoreRetries, Early
  <2>2. ASSUME NEW w \in Workers, Holding(workers', w, m)
        PROVE  /\ comms'[m].delivery # "queued"
               /\ \A v \in Workers \ {w} : ~Holding(workers', v, m)
               /\ ~Fresh(w)'
    BY <1>1, <1>2, <2>1, <2>2 DEF Once, SameHands
  <2>3. QED BY <2>2 DEF Once
<1>5. QED BY <1>3, <1>4, TouchedUnhandled DEF Kept

(* The Turn that carries it is started or renamed, and its record follows.     *)
TakenBy(m, s) ==
  /\ turns'[s].id # 0
  /\ comms[m].delivery \in {"delivering", "delivered"} =>
       /\ comms'[m].delivery = "delivered" /\ comms'[m].handling = "running"
       /\ \/ comms[m].delivery = "delivering"
          \/ turns[s].id # 0 /\ comms[m].turn = turns[s].id
          => comms'[m].turn = turns'[s].id

LEMMA TakenKept ==
  ASSUME MoreRetries, NEW m \in Msgs, Kept(m), Touched(comms[m], comms'[m]), NotReopened(m),
         SameHands(m), NEW s \in Slots, turns[s].msg = m, ~turns[s].finished,
         Standing(s)' => Standing(s),
         \A r \in Slots \ {s} : turns'[r].msg = m => ~Standing(r)',
         TakenBy(m, s)
  PROVE  Kept(m)'
<1>1. /\ comms'[m].delivery = comms[m].delivery
         \/ (comms[m].delivery = "delivering" /\ comms'[m].delivery = "delivered")
      /\ comms[m].delivery \notin {"delivering", "delivered"} =>
           comms'[m].handling = comms[m].handling
      /\ comms'[m].delivery # "delivering"
      /\ comms'[m].replyTo = comms[m].replyTo
  BY DEF Touched, TakenBy
<1>2. ASSUME Early(m)' PROVE Calm(m) /\ \A w \in Workers : ~(Holding(workers', w, m) /\ Fresh(w)')
  <2>1. Calm(m)
    BY <1>1, <1>2 DEF Kept, Early, MoreRetries
  <2>2. QED BY <2>1 DEF Calm, SameHands
<1>3. ASSUME Early(m)' PROVE Calm(m)'
  <2>1. comms'[m].delivery \in {"queued", "delivering"} => comms'[m].handling = "pending"
    BY <1>1, <1>2, <1>3 DEF Calm
  <2>2. ASSUME NEW r \in Slots, turns'[r].msg = m, Standing(r)'
        PROVE  comms'[m].delivery # "queued" /\ comms'[m].delivery # "delivering"
    <3>1. r = s /\ Standing(s)
      BY <2>2
    <3>2. QED BY <1>1, <1>2, <1>3, <3>1 DEF Calm
  <2>3. QED BY <1>2, <1>3, <2>1, <2>2 DEF Calm
<1>4. ASSUME spent'.retries = 0 PROVE Once(m)'
  <2>1. Once(m) /\ Early(m)'
    BY <1>4 DEF Kept, MoreRetries, Early
  <2>2. ASSUME NEW w \in Workers, Holding(workers', w, m)
        PROVE  /\ comms'[m].delivery # "queued"
               /\ \A v \in Workers \ {w} : ~Holding(workers', v, m)
               /\ ~Fresh(w)'
               /\ \A r \in Slots : turns'[r].msg = m /\ Standing(r)' => r = w
    <3>1. Holding(workers, w, m)
      BY <2>2 DEF SameHands
    <3>2. Standing(s)' => s = w
      BY <2>1, <3>1 DEF Once
    <3>3. QED BY <1>1, <1>2, <2>1, <2>2, <3>1, <3>2 DEF Once, SameHands
  <2>3. ASSUME NEW r \in Slots, turns'[r].msg = m, Standing(r)'
        PROVE  /\ comms'[m].delivery # "failed" /\ comms'[m].handling \in {"pending", "running"}
               /\ comms'[m].delivery = "delivered" /\ comms'[m].status = "open" =>
                    turns'[r].id # 0 /\ comms'[m].turn = turns'[r].id
    <3>1. r = s /\ Standing(s)
      BY <2>3
    <3>2. /\ comms[m].delivery # "failed" /\ comms[m].handling \in {"pending", "running"}
          /\ comms[m].delivery = "delivered" /\ comms[m].status = "open" =>
               turns[s].id # 0 /\ comms[m].turn = turns[s].id
      BY <2>1, <3>1 DEF Once
    <3>3. QED BY <1>1, <3>1, <3>2 DEF NotReopened, TakenBy
  <2>4. QED BY <2>2, <2>3 DEF Once
<1>5. QED BY <1>3, <1>4, TouchedUnhandled DEF Kept

(* Nobody holds it any more, and no Turn that stands carries it.              *)
LEMMA LooseKept ==
  ASSUME NEW m \in Msgs, Unhandled(m)',
         \A w \in Workers : Early(m)' => ~(Holding(workers', w, m) /\ Fresh(w)'),
         \A w \in Workers : spent'.retries = 0 => ~Holding(workers', w, m),
         \A s \in Slots : Early(m)' /\ turns'[s].msg = m => ~Standing(s)',
         Early(m)' /\ comms'[m].delivery \in {"queued", "delivering"} =>
           comms'[m].handling = "pending"
  PROVE  Kept(m)'
<1>1. spent'.retries = 0 => Early(m)'
  BY DEF Early
<1>2. Early(m)' => Calm(m)'
  BY DEF Calm
<1>3. spent'.retries = 0 => Once(m)'
  BY <1>1 DEF Once
<1>4. QED BY <1>2, <1>3 DEF Kept

----------------------------------------------------------------------------
(* What keeps steered replies where they are.                                 *)

(* A worker that steers has been steering.                                    *)
SameSteers ==
  \A w \in Workers : workers'[w].phase \in {"steering", "steered"} =>
    /\ workers[w].phase \in {"steering", "steered"}
    /\ workers'[w].msg = workers[w].msg /\ workers'[w].turn = workers[w].turn

(* A steered record has been steered, as it is now.                           *)
SteeredBefore(m) ==
  comms'[m].mode = "turn_steer" =>
    /\ comms[m].mode = "turn_steer"
    /\ comms'[m].delivery = comms[m].delivery /\ comms'[m].turn = comms[m].turn

(* A worker begins to steer a reply towards the Turn that asked.               *)
SteersRight(w) ==
  /\ workers'[w].msg \in Msgs /\ comms[workers'[w].msg].replyTo # None
  /\ workers'[w].turn = comms[comms[workers'[w].msg].replyTo].source

(* A steered reply has arrived there.                                         *)
SteeredRight(m) ==
  /\ comms[m].replyTo # None /\ comms'[m].delivery = "delivered"
  /\ comms'[m].turn = comms[comms[m].replyTo].source

LEMMA SteerStep ==
  ASSUME TypeOK, SafetyInv, SteerInv, Kin(comms, comms'),
         \A m \in Msgs : comms'[m].replyTo # comms[m].replyTo =>
           comms[m].delivery = "absent" /\ comms'[m].replyTo \in Msgs /\ Known(comms'[m].replyTo),
         \A w \in Workers : workers'[w].phase \in {"steering", "steered"} => SteersRight(w),
         \A m \in Msgs : comms'[m].mode = "turn_steer" =>
           /\ SteeredRight(m)
           /\ \A w \in Workers : ~Holding(workers', w, m)
           /\ \A s \in Slots : turns'[s].msg = m => turns'[s].finished
  PROVE  SteerInv'
<1>1. ASSUME NEW m \in Msgs, comms[m].replyTo # None
      PROVE  /\ comms[m].replyTo \in Msgs /\ Known(comms[m].replyTo) /\ Known(m)
             /\ comms'[m].replyTo = comms[m].replyTo
             /\ comms'[comms[m].replyTo].source = comms[comms[m].replyTo].source
             /\ comms'[comms[m].replyTo].delivery # "absent"
  <2>1. comms[m].replyTo \in Msgs
    BY <1>1, MessageFields DEF TypeOK, LedgerOK
  <2>2. Known(comms[m].replyTo) /\ Known(m)
    BY <1>1 DEF SteerInv, Known, SafetyInv, Sound, Unused
  <2>3. QED BY <2>1, <2>2 DEF Kin, Known
<1>2. ASSUME NEW m \in Msgs, comms'[m].replyTo # None
      PROVE  comms'[comms'[m].replyTo].delivery # "absent"
  <2>1. CASE comms'[m].replyTo = comms[m].replyTo
    BY <1>1, <1>2, <2>1
  <2>2. CASE comms'[m].replyTo # comms[m].replyTo
    BY <2>2 DEF Kin, Known
  <2>3. QED BY <2>1, <2>2
<1>3. ASSUME NEW w \in Workers, workers'[w].phase \in {"steering", "steered"}
      PROVE  /\ comms'[workers'[w].msg].replyTo # None
             /\ workers'[w].turn = comms'[comms'[workers'[w].msg].replyTo].source
  BY <1>1, <1>3 DEF SteersRight
<1>4. ASSUME NEW m \in Msgs, comms'[m].mode = "turn_steer"
      PROVE  /\ comms'[m].replyTo # None /\ comms'[m].delivery = "delivered"
             /\ comms'[m].turn = comms'[comms'[m].replyTo].source
             /\ \A w \in Workers : ~Holding(workers', w, m)
             /\ \A s \in Slots : turns'[s].msg = m => turns'[s].finished
  BY <1>1, <1>4 DEF SteeredRight
<1>5. QED BY <1>2, <1>3, <1>4 DEF SteerInv, Known

LEMMA SteersOn ==
  ASSUME TypeOK, SteerInv, NEW w \in Workers, workers'[w].phase \in {"steering", "steered"},
         workers[w].phase \in {"steering", "steered"},
         workers'[w].msg = workers[w].msg, workers'[w].turn = workers[w].turn
  PROVE  SteersRight(w)
<1>1. workers[w].msg \in Msgs
  BY WorkerFields
<1>2. QED BY <1>1 DEF SteerInv, SteersRight

LEMMA SteeredOn ==
  ASSUME SteerInv, NEW m \in Msgs, comms'[m].mode = "turn_steer", SteeredBefore(m)
  PROVE  /\ SteeredRight(m)
         /\ \A w \in Workers : ~Holding(workers, w, m)
         /\ \A s \in Slots : turns[s].msg = m => turns[s].finished
BY DEF SteerInv, SteeredRight, SteeredBefore

LEMMA SteerKept ==
  ASSUME TypeOK, SafetyInv, SteerInv, Kin(comms, comms'), Grows, SameSteers,
         \A m \in Msgs : comms'[m].replyTo # comms[m].replyTo =>
           comms[m].delivery = "absent" /\ comms'[m].replyTo \in Msgs /\ Known(comms'[m].replyTo),
         \A m \in Msgs : SteeredBefore(m), \A m \in Msgs : SameHands(m)
  PROVE  SteerInv'
<1>1. ASSUME NEW w \in Workers, workers'[w].phase \in {"steering", "steered"}
      PROVE  SteersRight(w)
  BY <1>1, SteersOn DEF SameSteers
<1>2. ASSUME NEW m \in Msgs, comms'[m].mode = "turn_steer"
      PROVE  /\ SteeredRight(m)
             /\ \A w \in Workers : ~Holding(workers', w, m)
             /\ \A s \in Slots : turns'[s].msg = m => turns'[s].finished
  <2>1. /\ SteeredRight(m)
        /\ \A w \in Workers : ~Holding(workers, w, m)
        /\ \A s \in Slots : turns[s].msg = m => turns[s].finished
    BY <1>2, SteeredOn
  <2>2. \A w \in Workers : ~Holding(workers', w, m)
    BY <2>1 DEF SameHands
  <2>3. \A s \in Slots : turns'[s].msg = m => turns'[s].finished
    BY <2>1, MessageAssumption DEF Grows, OldTurn
  <2>4. QED BY <2>1, <2>2, <2>3
<1>3. QED BY <1>1, <1>2, SteerStep

----------------------------------------------------------------------------
(* Steps: the order, the steered replies, and no message sent again by itself. *)

(* NoAutomaticRedelivery of one step.                                         *)
Unrepeated ==
  \A m \in Msgs :
    /\ comms[m].handling # "pending"
    /\ comms[m].delivery # "queued" /\ comms'[m].delivery = "queued"
    => \/ spent'.retries > spent.retries
       \/ comms[m].replyTo = None /\ spent.retries >= 2

Orderly == OrderInv' /\ SteerInv' /\ Unrepeated

LEMMA RetriesKept ==
  ASSUME TypeOK, Fault \/ Stop \/ Command \/ UNCHANGED spent
  PROVE  spent'.retries = spent.retries /\ MoreRetries
<1>1. spent'.retries = spent.retries
  BY DEF Fault, Stop, Command, Spend, TypeOK, ControlOK
<1>2. QED BY <1>1 DEF MoreRetries

LEMMA NotEarly ==
  ASSUME TypeOK, NEW m \in Msgs, ~Early(m)
  PROVE  comms[m].replyTo = None /\ spent.retries >= 2
<1>1. spent.retries \in Nat
  BY DeliveryAssumption DEF TypeOK, ControlOK
<1>2. QED BY <1>1 DEF Early

(* Nothing happens to any message.                                            *)
LEMMA Quietly ==
  ASSUME TypeOK, SafetyInv, TurnsInv, TurnsInv', Archives, Grows, MoreRetries,
         OrderInv, SteerInv, UNCHANGED comms, SameSteers,
         \A m \in Msgs : SameHands(m) /\ SameIds(m)
  PROVE  Orderly
<1>1. ASSUME NEW m \in Msgs PROVE Kept(m)'
  <2>1. Apart(comms[m], comms'[m]) /\ NotReopened(m)
    BY DEF Apart, NotReopened
  <2>2. QED BY <2>1, StillKept DEF TurnsInv, OrderInv
<1>2. SteerInv'
  <2>1. \A m \in Msgs : SteeredBefore(m)
    BY DEF SteeredBefore
  <2>2. QED BY <2>1, SteerKept, KinReflexive
<1>3. QED BY <1>1, <1>2 DEF Orderly, OrderInv, Unrepeated

(* One Turn is over, or is started or renamed.                                *)
LEMMA OneTurnMoves ==
  ASSUME TypeOK, SafetyInv, TurnsInv, TurnsInv', Archives, Grows, MoreRetries,
         OrderInv, SteerInv, SameSteers, \A m \in Msgs : SameHands(m),
         Progress(comms, comms'), NEW s \in Slots, ~turns[s].finished,
         Moves(comms, comms', turns[s].msg),
         \A r \in Slots \ {s} : ~turns'[r].finished /\ turns'[r].msg # None =>
           turns'[r].id = turns[r].id,
         turns[s].msg \in Msgs =>
           turns'[s].finished \/ turns'[s].msg = None \/ TakenBy(turns[s].msg, s)
  PROVE  Orderly
<1> DEFINE n == turns[s].msg
<1>1. ASSUME NEW m \in Msgs
      PROVE  /\ Touched(comms[m], comms'[m]) /\ (m # n => Apart(comms[m], comms'[m]))
             /\ NotReopened(m)
  BY DEF Moves, Progress, SameAnswer, NotReopened
<1>2. ASSUME NEW m \in Msgs \ {n} PROVE Kept(m)'
  <2>1. ASSUME NEW r \in Slots, turns'[r].msg = m, ~turns'[r].finished
        PROVE  turns'[r].id = turns[r].id
    <3>1. turns[r].msg = m
      BY <2>1, CarriedBefore DEF TurnsInv
    <3>2. QED BY <2>1, <3>1, MessageAssumption
  <2>2. SameIds(m)
    BY <2>1 DEF SameIds
  <2>3. QED BY <1>1, <2>2, StillKept DEF TurnsInv, OrderInv
<1>3. ASSUME NEW m \in Msgs, m = n PROVE Kept(m)'
  <2>1. ASSUME NEW r \in Slots, turns'[r].msg = m, Standing(r)' PROVE r = s /\ Standing(s)
    <3>1. Standing(r) /\ turns[r].msg = m
      BY <1>3, <2>1, CarriedBefore DEF TurnsInv
    <3>2. QED BY <1>3, <3>1, OneTurn DEF TurnsInv
  <2>2. Kept(m) /\ SameHands(m) /\ Touched(comms[m], comms'[m]) /\ NotReopened(m)
    BY <1>1, <1>3 DEF OrderInv
  <2>3. CASE turns'[s].finished \/ turns'[s].msg = None
    <3>1. \A r \in Slots : turns'[r].msg = m => ~Standing(r)'
      BY <1>3, <2>1, <2>3, MessageAssumption DEF Standing
    <3>2. QED BY <1>3, <2>2, <3>1, FreedKept
  <2>4. CASE ~(turns'[s].finished \/ turns'[s].msg = None)
    <3>1. \A r \in Slots \ {s} : turns'[r].msg = m => ~Standing(r)'
      BY <2>1
    <3>2. Standing(s)' => Standing(s)
      BY <2>4, StoodBefore DEF TurnsInv
    <3>3. TakenBy(m, s)
      BY <1>3, <2>4
    <3>4. QED BY <1>3, <2>2, <3>1, <3>2, <3>3, TakenKept
  <2>5. QED BY <2>3, <2>4
<1>4. SteerInv'
  <2>1. Kin(comms, comms')
    BY KinMoves
  <2>2. ASSUME NEW m \in Msgs PROVE SteeredBefore(m) /\ comms'[m].replyTo = comms[m].replyTo
    <3>1. comms[m].mode = "turn_steer" => m # n
      BY DEF SteerInv
    <3>2. QED BY <1>1, <3>1 DEF SteeredBefore, Touched, Apart
  <2>3. QED BY <2>1, <2>2, SteerKept
<1>5. Unrepeated
  BY <1>1 DEF Unrepeated, Touched
<1>6. \A m \in Msgs : Kept(m)'
  BY <1>2, <1>3
<1>7. QED BY <1>4, <1>5, <1>6 DEF Orderly, OrderInv

LEMMA WorkersStay ==
  ASSUME UNCHANGED workers
  PROVE  SameSteers /\ \A m \in Msgs : SameHands(m)
BY DEF SameSteers, SameHands, Fresh

LEMMA AgentOrder ==
  ASSUME TypeOK, SafetyInv, TurnsInv, OrderInv, SteerInv, NEW a \in Agents,
         Notify(a) \/ Interrupt(a) \/ ForceFinish(a)
  PROVE  Orderly
<1>1. /\ AgentMoves(a) /\ UNCHANGED <<workers, stopping>> /\ MoreRetries
      /\ TurnsInv' /\ Archives /\ Grows
  BY AgentActs, AgentTurns DEF MoreRetries
<1>2. SameSteers /\ \A m \in Msgs : SameHands(m)
  BY <1>1, WorkersStay
<1>3. ASSUME UNCHANGED comms,
             \A r \in Slots : ~turns'[r].finished /\ turns'[r].msg # None =>
               turns'[r].id = turns[r].id
      PROVE  Orderly
  <2>1. \A m \in Msgs : SameIds(m)
    BY <1>3, MessageAssumption DEF SameIds
  <2>2. QED BY <1>1, <1>2, <1>3, <2>1, Quietly
<1>4. ASSUME Live(a), Progress(comms, comms'), Moves(comms, comms', TurnOf(a).msg),
             \A r \in Slots \ {active[a]} : ~turns'[r].finished /\ turns'[r].msg # None =>
               turns'[r].id = turns[r].id,
             TurnOf(a).msg \in Msgs =>
               \/ turns'[active[a]].finished \/ turns'[active[a]].msg = None
               \/ TakenBy(TurnOf(a).msg, active[a])
      PROVE  Orderly
  <2>1. active[a] \in Slots /\ ~turns[active[a]].finished
    BY <1>4, LiveTurnType DEF Live
  <2>2. ASSUME NEW s \in Slots, s = active[a] PROVE Orderly
    BY <1>1, <1>2, <1>4, <2>1, <2>2, OneTurnMoves DEF TurnOf
  <2>3. QED BY <2>1, <2>2
<1>5. CASE Marked
  BY <1>3, <1>5 DEF Marked
<1>6. CASE Superseded(a)
  <2>1. /\ turns'[a].msg = None /\ (Live(a) => active[a] = a \/ turns'[active[a]].finished)
        /\ \A s \in Slots \ {a} : turns'[s] = turns[s] \/ turns'[s].finished
    BY <1>1, <1>6, PlacedSucceed DEF Superseded, TurnsInv
  <2>2. \A r \in Slots : ~turns'[r].finished /\ turns'[r].msg # None =>
          turns'[r].id = turns[r].id
    BY <2>1
  <2>3. CASE comms' = comms
    BY <1>3, <2>2, <2>3
  <2>4. CASE comms' # comms
    <3>1. Live(a) /\ Progress(comms, comms') /\ Moves(comms, comms', TurnOf(a).msg)
      BY <1>1, <2>4, AgentTables DEF TurnsInv
    <3>2. turns'[active[a]].finished \/ turns'[active[a]].msg = None
      BY <2>1, <3>1
    <3>3. QED BY <1>4, <2>2, <3>1, <3>2
  <2>5. QED BY <2>3, <2>4
<1>7. CASE Closes(a)
  <2>1. TurnOf(a) \in Turn /\ comms \in Table
    BY <1>7, LiveTurnType DEF Closes, TypeOK, LedgerOK, Table
  <2>2. \A id \in TurnId : ReboundTurn(comms, TurnOf(a), id) \in Turn
    BY <2>1, ReboundTurnType
  <2>3. Live(a) /\ \E o \in Turn : \E status, c : FinishTurn(a, o, status, c)
    BY <1>7, <2>1, <2>2 DEF Closes
  <2>4. turns'[active[a]].finished /\ \A s \in Slots \ {active[a]} : turns'[s] = turns[s]
    BY <1>1, <2>3, PlacedFinish DEF TurnsInv
  <2>5. CASE comms' = comms
    <3>1. \A r \in Slots : ~turns'[r].finished => turns'[r].id = turns[r].id
      BY <2>4
    <3>2. QED BY <1>3, <2>5, <3>1
  <2>6. CASE comms' # comms
    <3>1. Progress(comms, comms') /\ Moves(comms, comms', TurnOf(a).msg)
      BY <1>1, <2>6, AgentTables DEF TurnsInv
    <3>2. QED BY <1>4, <2>3, <2>4, <3>1
  <2>7. QED BY <2>5, <2>6
<1>8. CASE Renamed(a)
  <2>1. PICK id \in TurnId \ {0}, i \in BOOLEAN : Rebind(a, TurnOf(a), id, i)
    BY <1>8 DEF Renamed
  <2>2. TurnOf(a) \in Turn /\ active[a] \in Slots /\ Live(a) /\ comms \in Table
    BY <1>8, LiveTurnType DEF Renamed, TypeOK, LedgerOK, Table
  <2>3. /\ turns'[active[a]] = [ReboundTurn(comms, TurnOf(a), id) EXCEPT
                                  !.confirmed = TRUE, !.interrupting = i]
        /\ \A r \in Slots \ {active[a]} : turns'[r] = turns[r]
        /\ comms' = Rebound(comms, TurnOf(a), id)
    BY <2>1, <2>2 DEF Rebind, TypeOK, RuntimeOK
  <2>4. turns'[active[a]].id = id
    <3>1. id \in TurnId
      BY <2>1
    <3>2. ReboundTurn(comms, TurnOf(a), id) \in Turn
      BY <2>2, <3>1, ReboundTurnType
    <3>3. ReboundTurn(comms, TurnOf(a), id).id = id
      BY <2>2, <3>1, TurnFields
    <3>4. QED BY <2>3, <3>2, <3>3 DEF Turn
  <2>5. Progress(comms, comms') /\ Moves(comms, comms', TurnOf(a).msg)
    BY <2>1, <2>2, <2>3, ReboundProgress, ReboundMoves
  <2>6. TurnOf(a).msg \in Msgs => TakenBy(TurnOf(a).msg, active[a])
    <3> DEFINE o == TurnOf(a)
    <3>1. /\ o \in Turn /\ comms \in Table /\ id \in TurnId /\ id # 0
          /\ comms' = Rebound(comms, o, id) /\ turns'[active[a]].id = id
          /\ turns[active[a]].id = o.id
      BY <2>1, <2>2, <2>3, <2>4 DEF TurnOf
    <3> HIDE DEF o
    <3>2. o.msg \in Msgs /\ comms[o.msg].delivery \in {"delivering", "delivered"} =>
            /\ comms'[o.msg].delivery = "delivered" /\ comms'[o.msg].handling = "running"
            /\ comms[o.msg].delivery = "delivering" \/ comms[o.msg].turn \in {0, o.id}
                 => comms'[o.msg].turn = id
      BY <3>1, ReboundMoves
    <3>3. o.msg \in Msgs => TakenBy(o.msg, active[a])
      BY <3>1, <3>2 DEF TakenBy
    <3>4. QED BY <3>3 DEF o
  <2>7. QED BY <1>4, <2>2, <2>3, <2>5, <2>6
<1>9. QED BY <1>1, <1>5, <1>6, <1>7, <1>8 DEF AgentMoves

(* Steps that leave every message alone.                                      *)
LEMMA SendOrder ==
  ASSUME TypeOK, SafetyInv, TurnsInv, OrderInv, SteerInv, NEW w \in Workers,
         SendRefused(w) \/ SendFailed(w) \/ SteerAccepted(w) \/ CodexAccepts(w)
  PROVE  Orderly
<1>1. /\ UNCHANGED <<comms, turns>> /\ workers[w].phase # "idle"
      /\ workers'[w].msg = workers[w].msg /\ workers'[w].phase # "idle"
      /\ Fresh(w)' => Fresh(w)
      /\ workers'[w].phase = "steered" =>
           workers[w].phase = "steering" /\ workers'[w].turn = workers[w].turn
      /\ workers'[w].phase # "steering"
      /\ \A v \in Workers \ {w} : workers'[v] = workers[v]
  <2>1. workers \in [Workers -> Worker]
    BY DEF TypeOK, RuntimeOK
  <2>2. CASE SendRefused(w) \/ SendFailed(w)
    BY <2>1, <2>2 DEF SendRefused, SendFailed, Return, Worker, Fresh
  <2>3. CASE SteerAccepted(w)
    BY <2>1, <2>3 DEF SteerAccepted, Worker, Fresh
  <2>4. CASE CodexAccepts(w)
    BY <2>1, <2>4 DEF CodexAccepts, Worker, Fresh
  <2>5. QED BY <2>2, <2>3, <2>4
<1>2. TurnsInv' /\ Archives /\ Fades
  BY SendTurns, AcceptsTurns
<1>3. Fault \/ UNCHANGED spent
  BY DEF SendRefused, SendFailed, SteerAccepted, CodexAccepts
<1>4. SameSteers
  BY <1>1 DEF SameSteers
<1>5. ASSUME NEW m \in Msgs PROVE SameHands(m) /\ SameIds(m)
  BY <1>1 DEF SameHands, SameIds, Holding, Fresh
<1>6. QED BY <1>1, <1>2, <1>3, <1>4, <1>5, RetriesKept, FadesGrows, Quietly

LEMMA TaskOrder ==
  ASSUME TypeOK, SafetyInv, TurnsInv, OrderInv, SteerInv, NEW w \in Workers, NEW a \in Agents,
         OwnerTask(w, a)
  PROVE  Orderly
<1>1. /\ UNCHANGED <<comms, turns>> /\ workers'[w].msg = None
      /\ workers'[w].phase = "sending" /\ Command
      /\ \A v \in Workers \ {w} : workers'[v] = workers[v]
  BY DEF OwnerTask, Start, Idle, TypeOK, RuntimeOK
<1>2. TurnsInv' /\ Archives /\ Fades
  BY ClaimTurns
<1>3. SameSteers
  BY <1>1 DEF SameSteers
<1>4. ASSUME NEW m \in Msgs PROVE SameHands(m) /\ SameIds(m)
  BY <1>1, MessageAssumption DEF SameHands, SameIds, Holding, Fresh
<1>5. QED BY <1>1, <1>2, <1>3, <1>4, RetriesKept, FadesGrows, Quietly

LEMMA RegistryOrder ==
  ASSUME TypeOK, SafetyInv, TurnsInv, OrderInv, SteerInv,
         \/ \E a \in Agents : \/ ArchiveAgent(a) \/ DismissInterrupted(a)
                              \/ RemoteStart(a) \/ CodexEnds(a)
         \/ BeginDrain \/ CancelDrain \/ Shutdown
  PROVE  Orderly
<1>1. /\ UNCHANGED <<comms, workers>>
      /\ \A s \in Slots : ~turns'[s].finished => turns'[s] = turns[s]
  <2>1. CASE \E a \in Agents : ArchiveAgent(a)
    BY <2>1 DEF ArchiveAgent, NoTurn
  <2>2. CASE Shutdown
    BY <2>2 DEF Shutdown, TypeOK, RuntimeOK, Turn
  <2>3. CASE \E a \in Agents : DismissInterrupted(a) \/ RemoteStart(a) \/ CodexEnds(a)
    BY <2>3 DEF DismissInterrupted, RemoteStart, CodexEnds, runtime
  <2>4. CASE BeginDrain \/ CancelDrain
    BY <2>4 DEF BeginDrain, CancelDrain, runtime
  <2>5. QED BY <2>1, <2>2, <2>3, <2>4
<1>2. Fault \/ Stop \/ Command \/ UNCHANGED spent
  BY DEF ArchiveAgent, DismissInterrupted, RemoteStart, CodexEnds, BeginDrain, CancelDrain, Shutdown
<1>3. TurnsInv' /\ Archives /\ Fades
  <2>1. CASE \E a \in Agents : DismissInterrupted(a)
    <3>1. /\ UNCHANGED <<comms, turns, active, workers, codex, notes, stopping>>
          /\ \A a \in Agents : meta'[a].status = "archived" <=> meta[a].status = "archived"
      BY <2>1 DEF DismissInterrupted, external, control, IdleAgent, TypeOK, RuntimeOK
    <3>2. QED BY <3>1, KinReflexive, TurnsQuiet
  <2>2. QED BY <2>1, ArchiveTurns, ShutdownTurns, CodexTurns
<1>4. SameSteers /\ \A m \in Msgs : SameHands(m)
  BY <1>1, WorkersStay
<1>5. \A m \in Msgs : SameIds(m)
  BY <1>1 DEF SameIds
<1>6. QED BY <1>1, <1>2, <1>3, <1>4, <1>5, RetriesKept, FadesGrows, Quietly

(* turn/start was answered.                                                   *)
LEMMA AnsweredOrder ==
  ASSUME TypeOK, SafetyInv, TurnsInv, OrderInv, SteerInv, NEW w \in Workers, StartAnswered(w)
  PROVE  Orderly
<1> DEFINE o == turns[w]
           o1 == [o EXCEPT !.id = IF @ = 0 THEN workers[w].turn ELSE @]
<1>1. /\ TurnsInv' /\ Archives /\ Fades /\ Grows /\ MoreRetries
      /\ workers[w].phase = "accepted" /\ workers'[w].phase = "returning"
      /\ workers'[w].result = "ok" /\ workers'[w].msg = workers[w].msg
      /\ \A v \in Workers \ {w} : workers'[v] = workers[v]
      /\ \A s \in Slots \ {w} : turns'[s] = turns[s]
  BY AnsweredTurns, FadesGrows, RetriesKept DEF StartAnswered
<1>2. SameSteers /\ \A m \in Msgs : SameHands(m)
  BY <1>1 DEF SameSteers, SameHands, Holding, Fresh
<1>3. CASE o.finished
  <2>1. UNCHANGED <<comms, turns>>
    BY <1>3 DEF StartAnswered
  <2>2. QED BY <1>1, <1>2, <2>1, Quietly DEF SameIds
<1>4. CASE ~o.finished
  <2>1. /\ w \in Slots /\ o \in Turn /\ comms \in Table
        /\ workers[w].turn \in TurnId /\ workers[w].turn # 0
    BY <1>1, WorkerFields DEF TypeOK, LedgerOK, Table, TurnsInv, Serving, Serves
  <2>2. /\ o1 \in Turn /\ o1.id # 0 /\ o1.msg = o.msg
        /\ o.id # 0 => o1.id = o.id
    BY <2>1 DEF Turn
  <2>3. comms' = Running(comms, o1) /\ turns'[w] = RunningTurn(comms, o1)
    BY <1>4, <2>1 DEF StartAnswered, TypeOK, RuntimeOK
  <2> HIDE DEF o1
  <2>4. turns'[w].id = o1.id
    BY <2>2, <2>3, TurnFields, ConstantTypes
  <2>5. Progress(comms, comms') /\ Moves(comms, comms', o.msg)
    BY <2>1, <2>2, <2>3, RunningProgress, RunningMoves
  <2>6. ASSUME o.msg \in Msgs PROVE TakenBy(o.msg, w)
    <3>1. CASE comms[o.msg].delivery \in {"delivering", "delivered"}
      <4>1. Markable(comms, o1)
        BY <2>2, <2>6, <3>1, MessageAssumption DEF Markable
      <4>2. /\ comms'[o.msg].delivery = "delivered" /\ comms'[o.msg].handling = "running"
            /\ comms[o.msg].delivery = "delivering" => comms'[o.msg].turn = o1.id
            /\ comms[o.msg].delivery # "delivering" => comms'[o.msg].turn = comms[o.msg].turn
        BY <2>1, <2>2, <2>3, <2>6, <4>1, RunningMoves
      <4>3. QED BY <2>2, <2>4, <4>2 DEF TakenBy
    <3>2. CASE comms[o.msg].delivery \notin {"delivering", "delivered"}
      BY <2>2, <2>4, <3>2 DEF TakenBy
    <3>3. QED BY <3>1, <3>2
  <2>7. QED BY <1>1, <1>2, <1>4, <2>1, <2>5, <2>6, OneTurnMoves
<1>5. QED BY <1>3, <1>4

(* turn/start failed.                                                         *)
LEMMA FailedOrder ==
  ASSUME TypeOK, SafetyInv, TurnsInv, OrderInv, SteerInv, NEW w \in Workers, StartFailed(w)
  PROVE  Orderly
<1> DEFINE a == workers[w].agent
<1>1. /\ TurnsInv' /\ Archives /\ Fades /\ Grows
      /\ workers[w].phase \in {"starting", "accepted", "lost"}
      /\ workers'[w].phase = "returning" /\ workers'[w].result = "error"
      /\ workers'[w].msg = workers[w].msg
      /\ \A v \in Workers \ {w} : workers'[v] = workers[v]
  BY FailedTurns, FadesGrows
<1>2. SameSteers /\ \A m \in Msgs : SameHands(m)
  BY <1>1 DEF SameSteers, SameHands, Holding, Fresh
<1>3. MoreRetries
  BY RetriesKept DEF StartFailed
<1>4. a \in Agents
  BY <1>1, WorkerFields
<1>5. CASE UNCHANGED <<comms, turns, active, meta>>
  BY <1>1, <1>2, <1>3, <1>5, Quietly DEF SameIds
<1>6. CASE Live(a) /\ FinishTurn(a, TurnOf(a), "failed", comms)
  <2>1. TurnOf(a) \in Turn /\ active[a] \in Slots /\ comms \in Table /\ "failed" \in Outcome
    BY <1>4, <1>6, LiveTurnType DEF TypeOK, LedgerOK, Table, Outcome
  <2>2. UNCHANGED stopping
    BY DEF StartFailed, control
  <2>3. turns'[active[a]].finished /\ \A s \in Slots \ {active[a]} : turns'[s] = turns[s]
    BY <1>4, <1>6, <2>1, <2>2, PlacedFinish DEF TurnsInv
  <2>4. comms' = Ended(comms, TurnOf(a), "failed")
    BY <1>6 DEF FinishTurn
  <2>5. Progress(comms, comms') /\ Moves(comms, comms', TurnOf(a).msg)
    BY <2>1, <2>4, EndedProgress, EndedMoves
  <2>6. ASSUME NEW s \in Slots, s = active[a] PROVE Orderly
    BY <1>1, <1>2, <1>3, <1>6, <2>3, <2>5, <2>6, OneTurnMoves DEF Live, TurnOf
  <2>7. QED BY <2>1, <2>6
<1>7. QED BY <1>5, <1>6 DEF StartFailed

(* A worker reserves the Turn that will carry its message.                     *)
LEMMA ReserveOrder ==
  ASSUME TypeOK, SafetyInv, TurnsInv, OrderInv, SteerInv, NEW w \in Workers, ReserveTurn(w)
  PROVE  Orderly
<1>1. /\ TurnsInv' /\ Archives
      /\ turns'[w].msg = workers[w].msg /\ turns'[w].id = 0
      /\ \A s \in Slots \ {w} : turns'[s] = turns[s]
      /\ \A v \in Workers \ {w} : workers'[v] = workers[v]
      /\ workers'[w].phase = "starting" /\ workers'[w].msg = workers[w].msg
  BY ReserveTurns
<1>2. UNCHANGED <<comms, spent>> /\ workers[w].phase = "sending" /\ w \in Slots
  BY WorkerNoAgent DEF ReserveTurn
<1>3. \A m \in Msgs : SameHands(m)
  BY <1>1, <1>2 DEF SameHands, Holding, Fresh
<1>4. \A s \in Slots \ {w} : Standing(s)' => Standing(s)
  <2>1. ASSUME NEW s \in Slots \ {w}, Standing(s)' PROVE Standing(s)
    <3>1. turns'[s] = turns[s] /\ turns'[s].agent \in Agents
      BY <1>1, <2>1 DEF TurnsInv, Placed, Standing
    <3>2. QED BY <1>1, <2>1, <3>1 DEF Standing, Archives, Registered
  <2>2. QED BY <2>1
<1>5. ASSUME NEW n \in Msgs, n # workers[w].msg PROVE Kept(n)'
  <2>1. SameCarriers(n) /\ SameIds(n)
    BY <1>1, <1>4, <1>5 DEF SameCarriers, SameIds
  <2>2. Apart(comms[n], comms'[n]) /\ NotReopened(n) /\ MoreRetries
    BY <1>2 DEF Apart, NotReopened, MoreRetries
  <2>3. QED BY <1>3, <2>1, <2>2, RecordKept DEF OrderInv
<1>6. ASSUME NEW m \in Msgs, m = workers[w].msg PROVE Kept(m)'
  <2>1. Kept(m) /\ Holding(workers, w, m) /\ Fresh(w) /\ ~Fresh(w)'
    BY <1>1, <1>2, <1>6 DEF OrderInv, Holding, Fresh
  <2>2. ASSUME Early(m)
        PROVE  /\ Calm(m) /\ comms[m].delivery # "queued" /\ comms[m].handling = "pending"
               /\ \A v \in Workers : ~(Holding(workers', v, m) /\ Fresh(v)')
               /\ \A s \in Slots : turns'[s].msg = m /\ Standing(s)' => s = w
    <3>1. /\ Calm(m) /\ comms[m].delivery # "queued" /\ comms[m].handling = "pending"
          /\ \A v \in Workers \ {w} : ~(Holding(workers, v, m) /\ Fresh(v))
          /\ \A s \in Slots : turns[s].msg = m => turns[s].finished
      BY <2>1, <2>2 DEF Kept, Calm
    <3>2. \A v \in Workers : ~(Holding(workers', v, m) /\ Fresh(v)')
      BY <1>3, <2>1, <3>1 DEF SameHands
    <3>3. \A s \in Slots : turns'[s].msg = m /\ Standing(s)' => s = w
      BY <1>1, <3>1 DEF Standing
    <3>4. QED BY <3>1, <3>2, <3>3
  <2>3. ASSUME Early(m)' PROVE Calm(m)'
    <3>1. Early(m)
      BY <1>2, <2>3 DEF Early
    <3>2. QED BY <1>1, <1>2, <2>2, <3>1 DEF Calm
  <2>4. ASSUME spent'.retries = 0 PROVE Once(m)'
    <3>1. Once(m) /\ Early(m)
      BY <1>2, <2>1, <2>4 DEF Kept, Early
    <3>2. /\ comms[m].delivery \notin {"delivered", "failed"}
          /\ \A v \in Workers \ {w} : ~Holding(workers, v, m)
      BY <2>1, <3>1 DEF Once
    <3>3. \A v \in Workers : Holding(workers', v, m) => v = w
      BY <1>3, <3>2 DEF SameHands
    <3>4. QED BY <1>2, <2>1, <2>2, <3>1, <3>2, <3>3 DEF Once
  <2>5. Unhandled(m)'
    BY <1>2, <2>1 DEF Kept, Unhandled
  <2>6. QED BY <2>3, <2>4, <2>5 DEF Kept
<1>7. SteerInv'
  <2>1. ASSUME NEW v \in Workers, workers'[v].phase \in {"steering", "steered"}
        PROVE  SteersRight(v)
    BY <1>1, <2>1, SteersOn
  <2>2. ASSUME NEW m \in Msgs, comms'[m].mode = "turn_steer"
        PROVE  /\ SteeredRight(m)
               /\ \A v \in Workers : ~Holding(workers', v, m)
               /\ \A s \in Slots : turns'[s].msg = m => turns'[s].finished
    <3>1. /\ SteeredRight(m)
          /\ \A v \in Workers : ~Holding(workers, v, m)
          /\ \A s \in Slots : turns[s].msg = m => turns[s].finished
      BY <1>2, <2>2, SteeredOn DEF SteeredBefore
    <3>2. m # workers[w].msg
      BY <1>2, <3>1 DEF Holding
    <3>3. QED BY <1>1, <1>3, <3>1, <3>2 DEF SameHands
  <2>3. QED BY <1>2, <2>1, <2>2, KinReflexive, SteerStep
<1>8. Unrepeated
  BY <1>2 DEF Unrepeated
<1>9. QED BY <1>5, <1>6, <1>7, <1>8 DEF Orderly, OrderInv

(* A worker claims a message.                                                  *)
LEMMA ClaimOrder ==
  ASSUME TypeOK, SafetyInv, TurnsInv, OrderInv, SteerInv, NEW w \in Workers, NEW a \in Agents,
         NEW m \in Msgs, ClaimNext(w, a, m) \/ ClaimSteer(w, a, m)
  PROVE  Orderly
<1>1. /\ UNCHANGED <<turns, active, meta, spent>> /\ workers[w].phase = "idle"
      /\ comms[m].delivery = "queued" /\ comms[m].to = a /\ Registered(a)
      /\ comms' = [comms EXCEPT ![m].delivery = "delivering"]
  BY DEF ClaimNext, ClaimSteer, Start, Free, First, Startable, Steerable, Queued, Registered, TurnsInv, Placed
<1>2. /\ \A n \in Msgs \ {m} : comms'[n] = comms[n]
      /\ comms'[m] = [comms[m] EXCEPT !.delivery = "delivering"] /\ comms[m] \in Message
      /\ comms'[m].delivery = "delivering" /\ comms'[m].handling = comms[m].handling
      /\ comms'[m].replyTo = comms[m].replyTo /\ comms'[m].mode = comms[m].mode
      /\ comms'[m].from = comms[m].from /\ comms'[m].to = comms[m].to
      /\ comms'[m].source = comms[m].source
  BY <1>1 DEF TypeOK, LedgerOK, Message
<1>3. /\ workers'[w].msg = m /\ workers'[w].phase \in {"sending", "steering"}
      /\ \A v \in Workers \ {w} : workers'[v] = workers[v]
      /\ workers'[w].phase = "steering" => ClaimSteer(w, a, m) /\ workers'[w].turn = TurnOf(a).id
  <2>1. workers \in [Workers -> Worker]
    BY DEF TypeOK, RuntimeOK
  <2>2. CASE ClaimNext(w, a, m)
    BY <2>1, <2>2 DEF ClaimNext, Start, Idle
  <2>3. CASE ClaimSteer(w, a, m)
    BY <2>1, <2>3 DEF ClaimSteer, Idle
  <2>4. QED BY <2>2, <2>3
<1>4. ASSUME NEW n \in Msgs, n # m PROVE Kept(n)'
  <2>1. SameCarriers(n) /\ SameIds(n) /\ SameHands(n)
    BY <1>1, <1>3, <1>4 DEF SameCarriers, SameIds, SameHands, Standing, Registered, Holding, Fresh
  <2>2. Apart(comms[n], comms'[n]) /\ NotReopened(n) /\ MoreRetries
    BY <1>1, <1>2, <1>4 DEF Apart, NotReopened, MoreRetries
  <2>3. QED BY <2>1, <2>2, RecordKept DEF OrderInv
<1>5. Kept(m)'
  <2>1. ASSUME Early(m)'
        PROVE  /\ comms[m].handling = "pending"
               /\ \A v \in Workers : Holding(workers', v, m) /\ Fresh(v)' => v = w
               /\ \A s \in Slots : turns'[s].msg = m => turns'[s].finished
    <3>1. Calm(m)
      BY <1>1, <1>2, <2>1 DEF OrderInv, Kept, Early
    <3>2. ASSUME NEW v \in Workers, Holding(workers', v, m), Fresh(v)' PROVE v = w
      <4>1. ~(Holding(workers, v, m) /\ Fresh(v))
        BY <1>1, <3>1 DEF Calm
      <4>2. QED BY <1>3, <3>2, <4>1 DEF Holding, Fresh
    <3>3. ASSUME NEW s \in Slots, turns[s].msg = m, ~turns[s].finished PROVE FALSE
      <4>1. Standing(s)
        BY <1>1, <3>3 DEF TurnsInv, Carrying, Standing
      <4>2. QED BY <1>1, <3>1, <3>3, <4>1 DEF Calm
    <3>4. QED BY <1>1, <3>1, <3>2, <3>3 DEF Calm
  <2>2. Early(m)' => Calm(m)'
    BY <1>2, <1>3, <2>1 DEF Calm, Standing
  <2>3. ASSUME spent'.retries = 0 PROVE Once(m)'
    <3>1. Once(m) /\ Early(m)'
      BY <1>1, <2>3 DEF OrderInv, Kept, Early
    <3>2. \A v \in Workers : ~Holding(workers, v, m)
      BY <1>1, <3>1 DEF Once
    <3>3. \A v \in Workers : Holding(workers', v, m) => v = w
      BY <1>3, <3>2 DEF Holding
    <3>4. \A s \in Slots : turns'[s].msg = m => ~Standing(s)'
      BY <2>1, <3>1 DEF Standing
    <3>5. QED BY <1>2, <3>3, <3>4 DEF Once
  <2>4. Unhandled(m)'
    BY <1>2 DEF Unhandled
  <2>5. QED BY <2>2, <2>3, <2>4 DEF Kept
<1>6. SteerInv'
  <2>1. ASSUME NEW v \in Workers, workers'[v].phase \in {"steering", "steered"}
        PROVE  SteersRight(v)
    <3>1. CASE v = w
      BY <1>3, <2>1, <3>1 DEF ClaimSteer, First, Steerable, CausalReply, SteersRight
    <3>2. CASE v # w
      BY <1>3, <2>1, <3>2, SteersOn
    <3>3. QED BY <3>1, <3>2
  <2>2. ASSUME NEW n \in Msgs, comms'[n].mode = "turn_steer"
        PROVE  /\ SteeredRight(n)
               /\ \A v \in Workers : ~Holding(workers', v, n)
               /\ \A s \in Slots : turns'[s].msg = n => turns'[s].finished
    <3>1. n # m
      BY <1>1, <1>2, <2>2 DEF SteerInv
    <3>2. /\ SteeredRight(n)
          /\ \A v \in Workers : ~Holding(workers, v, n)
          /\ \A s \in Slots : turns[s].msg = n => turns[s].finished
      BY <1>2, <2>2, <3>1, SteeredOn DEF SteeredBefore
    <3>3. QED BY <1>1, <1>3, <3>1, <3>2 DEF Holding
  <2>3. Kin(comms, comms')
    BY <1>2 DEF Kin
  <2>4. \A n \in Msgs : comms'[n].replyTo = comms[n].replyTo
    BY <1>2
  <2>5. QED BY <2>1, <2>2, <2>3, <2>4, SteerStep
<1>7. Unrepeated
  BY <1>2 DEF Unrepeated
<1>8. QED BY <1>4, <1>5, <1>6, <1>7 DEF Orderly, OrderInv

(* A worker lets go of its message.                                            *)
LEMMA Released ==
  ASSUME TypeOK, NEW w \in Workers, workers' = [workers EXCEPT ![w] = Idle], UNCHANGED meta,
         \/ turns' = turns
         \/ turns' = [turns EXCEPT ![w] = IF active[workers[w].agent] = w THEN @ ELSE NoTurn]
  PROVE  /\ SameSteers /\ \A n \in Msgs : SameHands(n) /\ SameIds(n) /\ SameCarriers(n)
         /\ \A n \in Msgs, v \in Workers : Holding(workers', v, n) =>
              v # w /\ Holding(workers, v, n) /\ (Fresh(v)' => Fresh(v))
         /\ \A s \in Slots : turns'[s] = turns[s] \/ turns'[s].finished
         /\ \A s \in Slots : Standing(s)' => Standing(s) /\ turns'[s] = turns[s]
<1>1. /\ workers'[w].phase = "idle" /\ \A v \in Workers \ {w} : workers'[v] = workers[v]
  BY DEF TypeOK, RuntimeOK, Idle
<1>2. \A s \in Slots : turns'[s] = turns[s] \/ turns'[s].finished
  BY DEF TypeOK, RuntimeOK, NoTurn
<1>3. \A s \in Slots : Standing(s)' => Standing(s) /\ turns'[s] = turns[s]
  BY <1>2 DEF Standing, Registered
<1>4. SameSteers
  BY <1>1 DEF SameSteers
<1>5. \A n \in Msgs, v \in Workers : Holding(workers', v, n) =>
        v # w /\ Holding(workers, v, n) /\ (Fresh(v)' => Fresh(v))
  BY <1>1 DEF Holding, Fresh
<1>6. \A n \in Msgs : SameHands(n)
  BY <1>5 DEF SameHands
<1>7. \A n \in Msgs : SameIds(n) /\ SameCarriers(n)
  BY <1>2, <1>3 DEF SameIds, SameCarriers
<1>8. QED BY <1>2, <1>3, <1>4, <1>5, <1>6, <1>7

LEMMA ReleasedTable ==
  ASSUME NEW c \in Table, NEW m \in Msgs, NEW new \in Message, new.status = c[m].status,
         NEW d, d \in {[c EXCEPT ![m] = new], Answered([c EXCEPT ![m] = new], m)}
  PROVE  /\ \A n \in Msgs \ {m} : Apart(c[n], d[n])
         /\ Apart(new, d[m])
         /\ \A n \in Msgs : d[n].status = "open" => c[n].status = "open"
<1> DEFINE e == [c EXCEPT ![m] = new]
<1>1. e \in Table /\ e[m] = new /\ \A n \in Msgs \ {m} : e[n] = c[n]
  BY DEF Table
<1>2. \A n \in Msgs : Apart(e[n], d[n]) /\ (d[n].status = "open" => e[n].status = "open")
  <2> HIDE DEF e
  <2>1. d \in {e, Answered(e, m)}
    BY DEF e
  <2>2. CASE d = e
    BY <2>2 DEF Apart
  <2>3. CASE d = Answered(e, m)
    BY <1>1, <2>3, AnsweredApart, AnsweredProgress DEF Progress, SameAnswer
  <2>4. QED BY <2>1, <2>2, <2>3
<1>3. QED BY <1>1, <1>2

LEMMA ReleaseOrder ==
  ASSUME TypeOK, SafetyInv, TurnsInv, OrderInv, SteerInv,
         NEW w \in Workers, NEW m \in Msgs, m = workers[w].msg,
         workers' = [workers EXCEPT ![w] = Idle], UNCHANGED meta, MoreRetries,
         \/ turns' = turns
         \/ turns' = [turns EXCEPT ![w] = IF active[workers[w].agent] = w THEN @ ELSE NoTurn],
         \A n \in Msgs \ {m} : Apart(comms[n], comms'[n]),
         \A n \in Msgs : NotReopened(n),
         Kin(comms, comms'), comms'[m].replyTo = comms[m].replyTo, Kept(m)',
         \/ SteeredBefore(m)
         \/ /\ SteeredRight(m) /\ \A v \in Workers : ~Holding(workers', v, m)
            /\ \A s \in Slots : turns[s].msg = m => turns[s].finished
  PROVE  OrderInv' /\ SteerInv'
<1>1. /\ SameSteers /\ \A n \in Msgs : SameHands(n) /\ SameIds(n) /\ SameCarriers(n)
      /\ \A s \in Slots : turns'[s] = turns[s] \/ turns'[s].finished
  BY Released
<1>2. ASSUME NEW n \in Msgs PROVE Kept(n)'
  BY <1>1, RecordKept DEF OrderInv
<1>3. ASSUME NEW v \in Workers, workers'[v].phase \in {"steering", "steered"}
      PROVE  SteersRight(v)
  BY <1>1, <1>3, SteersOn DEF SameSteers
<1>4. ASSUME NEW n \in Msgs, comms'[n].mode = "turn_steer"
      PROVE  /\ SteeredRight(n)
             /\ \A v \in Workers : ~Holding(workers', v, n)
             /\ \A s \in Slots : turns'[s].msg = n => turns'[s].finished
  <2>1. CASE SteeredBefore(n)
    <3>1. /\ SteeredRight(n)
          /\ \A v \in Workers : ~Holding(workers, v, n)
          /\ \A s \in Slots : turns[s].msg = n => turns[s].finished
      BY <1>4, <2>1, SteeredOn
    <3>2. QED BY <1>1, <3>1 DEF SameHands
  <2>2. CASE ~SteeredBefore(n)
    <3>1. n = m
      BY <2>2 DEF Apart, SteeredBefore
    <3>2. QED BY <1>1, <2>2, <3>1
  <2>3. QED BY <2>1, <2>2
<1>5. \A n \in Msgs : comms'[n].replyTo = comms[n].replyTo
  BY DEF Apart
<1>6. SteerInv'
  BY <1>3, <1>4, <1>5, SteerStep
<1>7. QED BY <1>2, <1>6 DEF OrderInv

(* A send that began no Turn gives its message back.                           *)
LEMMA HandedBack ==
  ASSUME TypeOK, TurnsInv, OrderInv, NEW w \in Workers, NEW m \in Msgs,
         Holding(workers, w, m), Fresh(w), workers' = [workers EXCEPT ![w] = Idle], UNCHANGED meta,
         \/ turns' = turns
         \/ turns' = [turns EXCEPT ![w] = IF active[workers[w].agent] = w THEN @ ELSE NoTurn],
         MoreRetries, comms'[m].delivery = "queued",
         comms'[m].handling = comms[m].handling, comms'[m].replyTo = comms[m].replyTo
  PROVE  Kept(m)' /\ (comms[m].handling # "pending" => ~Early(m))
<1>1. ASSUME Early(m)
      PROVE  /\ comms[m].handling = "pending"
             /\ \A v \in Workers \ {w} : ~(Holding(workers, v, m) /\ Fresh(v))
             /\ \A s \in Slots : turns[s].msg = m => turns[s].finished
  BY <1>1 DEF OrderInv, Kept, Calm
<1>2. Early(m)' => Early(m)
  BY DEF Early, MoreRetries
<1>3. Unhandled(m)'
  BY DEF Unhandled
<1>4. \A v \in Workers : Early(m)' => ~(Holding(workers', v, m) /\ Fresh(v)')
  BY <1>1, <1>2, Released
<1>5. ASSUME NEW v \in Workers, spent'.retries = 0, Holding(workers', v, m) PROVE FALSE
  <2>1. Once(m) /\ v # w /\ Holding(workers, v, m)
    BY <1>5, Released DEF OrderInv, Kept, MoreRetries
  <2>2. QED BY <2>1 DEF Once
<1>6. \A s \in Slots : Early(m)' /\ turns'[s].msg = m => ~Standing(s)'
  BY <1>1, <1>2, Released DEF Standing
<1>7. Kept(m)'
  BY <1>1, <1>2, <1>3, <1>4, <1>5, <1>6, LooseKept
<1>8. QED BY <1>1, <1>7

(* sendTask returned: its Turn began, or it failed.                            *)
LEMMA HandedOver ==
  ASSUME TypeOK, SafetyInv, TurnsInv, OrderInv, NEW w \in Workers, NEW m \in Msgs,
         Holding(workers, w, m), workers[w].phase = "returning",
         workers' = [workers EXCEPT ![w] = Idle], UNCHANGED meta,
         \/ turns' = turns
         \/ turns' = [turns EXCEPT ![w] = IF active[workers[w].agent] = w THEN @ ELSE NoTurn],
         MoreRetries, NotReopened(m),
         comms'[m].handling = comms[m].handling, comms'[m].replyTo = comms[m].replyTo,
         \/ workers[w].result = "error" /\ comms'[m].delivery = "failed"
         \/ /\ workers[w].result \notin {"busy", "error"} /\ comms'[m].delivery = "delivered"
            /\ comms[m].delivery \notin {"queued", "failed", "delivered"}
  PROVE  Kept(m)'
<1>1. comms'[m].delivery \in {"failed", "delivered"} /\ Unhandled(m) /\ Unhandled(m)'
  BY DEF OrderInv, Kept, Unhandled
<1>2. ASSUME Early(m)' PROVE Calm(m)'
  <2>1. Calm(m)
    BY <1>2 DEF OrderInv, Kept, Early, MoreRetries
  <2>2. \A v \in Workers : Holding(workers', v, m) /\ Fresh(v)' =>
          /\ comms[m].handling = "pending"
          /\ \A u \in Workers \ {v} : ~(Holding(workers', u, m) /\ Fresh(u)')
          /\ \A s \in Slots : turns'[s].msg = m => turns'[s].finished
    <3>1. ASSUME NEW v \in Workers, Holding(workers', v, m), Fresh(v)'
          PROVE  /\ comms[m].handling = "pending"
                 /\ \A u \in Workers \ {v} : ~(Holding(workers, u, m) /\ Fresh(u))
                 /\ \A s \in Slots : turns[s].msg = m => turns[s].finished
      BY <2>1, <3>1, Released DEF Calm
    <3>2. QED BY <3>1, Released
  <2>3. QED BY <1>1, <2>2 DEF Calm
<1>3. ASSUME spent'.retries = 0 PROVE Once(m)'
  <2>1. Once(m) /\ Calm(m)
    BY <1>3 DEF OrderInv, Kept, Early, MoreRetries
  <2>2. \A v \in Workers : ~Holding(workers', v, m)
    BY <2>1, Released DEF Once
  <2>3. ASSUME NEW s \in Slots, turns'[s].msg = m, Standing(s)'
        PROVE  /\ s = w /\ turns[w].msg = m /\ Standing(w) /\ turns'[w] = turns[w]
               /\ workers[w].result \notin {"busy", "error"} /\ turns[w].id # 0
               /\ comms[m].handling \in {"pending", "running"}
    <3>1. Standing(s) /\ turns[s].msg = m /\ turns'[s] = turns[s]
      BY <2>3, Released
    <3>2. s = w /\ comms[m].handling \in {"pending", "running"}
      BY <2>1, <3>1 DEF Once
    <3>3. ~Turnless(w) /\ ~turns[w].finished
      BY <3>1, <3>2 DEF TurnsInv, Serving, Serves, Standing
    <3>4. QED BY <3>1, <3>2, <3>3 DEF TurnsInv, Serving, Serves, Turnless, Fresh
  <2>4. ASSUME NEW s \in Slots, turns'[s].msg = m, Standing(s)'
        PROVE  comms'[m].delivery = "delivered" /\ comms'[m].status # "open"
    <3>1. w \in Slots /\ comms'[m].delivery = "delivered"
      BY <2>3, <2>4
    <3>2. comms[m].delivery # "delivering"
      BY <2>1, <2>3, <2>4, <3>1 DEF Calm
    <3>3. comms[m].delivery \notin {"absent", "queued", "failed", "delivered"}
      BY <2>3, <2>4 DEF SafetyInv, Sound, Unused
    <3>4. comms[m].delivery = "cancelled"
      <4>1. comms[m].delivery \in Delivery
        BY MessageFields DEF TypeOK, LedgerOK
      <4>2. QED BY <3>2, <3>3, <4>1 DEF Delivery
    <3>5. QED BY <1>1, <3>1, <3>4 DEF Unhandled, NotReopened
  <2>5. QED BY <2>2, <2>3, <2>4 DEF Once
<1>4. QED BY <1>1, <1>2, <1>3 DEF Kept

LEMMA SettleOrder ==
  ASSUME TypeOK, SafetyInv, TurnsInv, OrderInv, SteerInv, NEW w \in Workers,
         Settle(w) \/ SteerSettled(w) \/ SteerDeferred(w)
  PROVE  Orderly
<1> DEFINE m == workers[w].msg
<1>1. /\ workers[w].phase # "idle" /\ workers' = [workers EXCEPT ![w] = Idle]
      /\ \/ turns' = turns
         \/ turns' = [turns EXCEPT ![w] = IF active[workers[w].agent] = w THEN @ ELSE NoTurn]
      /\ UNCHANGED meta
  BY DEF Settle, SteerSettled, SteerDeferred
<1>2. /\ m \in Msgs \cup {None} /\ workers[w].turn \in TurnId /\ comms \in Table
      /\ workers[w].phase \in {"steering", "steered"} => m \in Msgs
  BY WorkerFields DEF TypeOK, LedgerOK, Table
<1>3. MoreRetries
  BY RetriesKept DEF Settle, SteerSettled, SteerDeferred
<1>4. CASE comms' = comms
  <2>1. SameSteers /\ \A n \in Msgs : SameHands(n) /\ SameIds(n)
    BY <1>1, Released
  <2>2. TurnsInv' /\ Archives /\ Grows
    BY SettleTurns, FadesGrows
  <2>3. QED BY <1>3, <1>4, <2>1, <2>2, Quietly
<1>5. ASSUME m \in Msgs, NEW new \in Message,
             new.status = comms[m].status, new.handling = comms[m].handling,
             new.from = comms[m].from, new.to = comms[m].to,
             new.source = comms[m].source, new.replyTo = comms[m].replyTo,
             comms' \in {[comms EXCEPT ![m] = new], Answered([comms EXCEPT ![m] = new], m)},
             \/ new.delivery = "queued" /\ Fresh(w) /\ new.mode = comms[m].mode
             \/ /\ workers[w].phase = "returning" /\ workers[w].result = "error"
                /\ new.delivery = "failed" /\ new.mode = comms[m].mode
             \/ /\ workers[w].phase = "returning" /\ workers[w].result \notin {"busy", "error"}
                /\ new.delivery = "delivered" /\ new.mode = "turn_start"
                /\ comms[m].delivery \notin {"queued", "failed", "delivered"}
             \/ /\ workers[w].phase = "steered" /\ new.delivery = "delivered"
                /\ new.mode = "turn_steer" /\ new.turn = workers[w].turn
      PROVE  Orderly
  <2> SUFFICES ASSUME NEW n \in Msgs, n = m PROVE Orderly
    BY <1>5
  <2>1. Holding(workers, w, n) /\ n = workers[w].msg
    BY <1>1 DEF Holding
  <2> HIDE DEF m
  <2>2. /\ \A k \in Msgs \ {n} : Apart(comms[k], comms'[k])
        /\ Apart(new, comms'[n])
        /\ \A k \in Msgs : NotReopened(k)
    BY <1>2, <1>5, ReleasedTable DEF NotReopened
  <2>3. /\ comms'[n].delivery = new.delivery /\ comms'[n].mode = new.mode
        /\ comms'[n].turn = new.turn /\ comms'[n].handling = comms[n].handling
        /\ comms'[n].replyTo = comms[n].replyTo /\ comms'[n].from = comms[n].from
        /\ comms'[n].to = comms[n].to /\ comms'[n].source = comms[n].source
    BY <1>5, <2>2 DEF Apart
  <2>4. Kin(comms, comms')
    BY <1>5, <2>2, <2>3 DEF Kin, Apart
  <2>5. comms[n].mode # "turn_steer"
    BY <2>1 DEF SteerInv
  <2>6. CASE comms'[n].delivery = "queued" /\ Fresh(w) /\ comms'[n].mode = comms[n].mode
    <3>1. Kept(n)' /\ (comms[n].handling # "pending" => ~Early(n))
      BY <1>1, <1>3, <2>1, <2>3, <2>6, HandedBack
    <3>2. SteeredBefore(n)
      BY <2>5, <2>6 DEF SteeredBefore
    <3>3. OrderInv' /\ SteerInv'
      BY <1>1, <1>3, <2>1, <2>2, <2>3, <2>4, <3>1, <3>2, ReleaseOrder
    <3>4. Unrepeated
      BY <2>2, <3>1, NotEarly DEF Unrepeated, Apart
    <3>5. QED BY <3>3, <3>4 DEF Orderly
  <2>7. CASE /\ workers[w].phase = "returning" /\ comms'[n].mode # "turn_steer"
             /\ \/ workers[w].result = "error" /\ comms'[n].delivery = "failed"
                \/ /\ workers[w].result \notin {"busy", "error"}
                   /\ comms'[n].delivery = "delivered"
                   /\ comms[n].delivery \notin {"queued", "failed", "delivered"}
    <3>1. Kept(n)'
      BY <1>1, <1>3, <2>1, <2>2, <2>3, <2>7, HandedOver
    <3>2. SteeredBefore(n)
      BY <2>7 DEF SteeredBefore
    <3>3. OrderInv' /\ SteerInv'
      BY <1>1, <1>3, <2>1, <2>2, <2>3, <2>4, <3>1, <3>2, ReleaseOrder
    <3>4. Unrepeated
      BY <2>2, <2>7 DEF Unrepeated, Apart
    <3>5. QED BY <3>3, <3>4 DEF Orderly
  <2>8. CASE /\ workers[w].phase = "steered" /\ comms'[n].delivery = "delivered"
             /\ comms'[n].turn = workers[w].turn
    <3>1. comms[n].replyTo # None /\ workers[w].turn = comms[comms[n].replyTo].source
      BY <2>1, <2>8 DEF SteerInv
    <3>2. Calm(n) /\ Fresh(w)
      BY <2>8, <3>1 DEF OrderInv, Kept, Early, Fresh
    <3>3. \A s \in Slots : turns[s].msg = n => turns[s].finished
      BY <2>1, <3>2 DEF Calm
    <3>4. \A v \in Workers : ~Holding(workers', v, n)
      <4>1. \A v \in Workers \ {w} : ~Holding(workers, v, n)
        BY <2>1, <3>1 DEF SafetyInv, Sound, HeldReplies
      <4>2. QED BY <1>1, <4>1, Released
    <3>5. \A s \in Slots : turns'[s].msg = n => ~Standing(s)'
      BY <1>1, <3>3, Released DEF Standing
    <3>6. Unhandled(n)'
      BY <2>8 DEF Unhandled
    <3>7. Kept(n)'
      BY <2>8, <3>4, <3>5, <3>6, LooseKept
    <3>8. SteeredRight(n)
      BY <2>8, <3>1 DEF SteeredRight
    <3>9. OrderInv' /\ SteerInv'
      BY <1>1, <1>3, <2>1, <2>2, <2>3, <2>4, <3>3, <3>4, <3>7, <3>8, ReleaseOrder
    <3>10. Unrepeated
      BY <2>2, <2>8 DEF Unrepeated, Apart
    <3>11. QED BY <3>9, <3>10 DEF Orderly
  <2>9. QED BY <1>5, <2>1, <2>3, <2>5, <2>6, <2>7, <2>8
<1>6. CASE SteerDeferred(w)
  <2> DEFINE new == [comms[m] EXCEPT !.delivery = "queued"]
  <2>1. m \in Msgs /\ comms' = [comms EXCEPT ![m].delivery = "queued"] /\ Fresh(w)
    BY <1>2, <1>6 DEF SteerDeferred, Fresh
  <2>2. comms[m] \in Message /\ comms' = [comms EXCEPT ![m] = new]
    BY <1>2, <2>1 DEF Table
  <2>3. /\ new \in Message /\ new.delivery = "queued" /\ new.mode = comms[m].mode
        /\ new.status = comms[m].status /\ new.handling = comms[m].handling
        /\ new.from = comms[m].from /\ new.to = comms[m].to
        /\ new.source = comms[m].source /\ new.replyTo = comms[m].replyTo
    <3>1. new \in Message
      BY <2>2, FieldType, ConstantTypes
    <3>2. QED BY <2>2, <3>1 DEF Message
  <2> HIDE DEF new, m
  <2>4. QED BY <1>5, <2>1, <2>2, <2>3
<1>7. CASE SteerSettled(w)
  <2> DEFINE new == Delivered(comms[m], "turn_steer", workers[w].turn)
  <2>1. m \in Msgs /\ workers[w].phase = "steered" /\ comms[m] \in Message
    BY <1>2, <1>7 DEF SteerSettled, Table
  <2>2. comms' = Answered([comms EXCEPT ![m] = new], m)
    BY <1>2, <1>7, <2>1 DEF SteerSettled, Table
  <2>3. new \in Message
    BY <1>2, <2>1, DeliveredType
  <2>4. /\ new.delivery = "delivered" /\ new.mode = "turn_steer" /\ new.turn = workers[w].turn
        /\ new.status = comms[m].status /\ new.handling = comms[m].handling
        /\ new.from = comms[m].from /\ new.to = comms[m].to
        /\ new.source = comms[m].source /\ new.replyTo = comms[m].replyTo
    BY <1>2, <2>1, SettledSame
  <2> HIDE DEF new, m
  <2>5. QED BY <1>5, <2>1, <2>2, <2>3, <2>4
<1>8. CASE Settle(w) /\ comms' # comms
  <2> DEFINE new == Settled(comms[m], workers[w].result, workers[w].turn)
  <2>1. /\ m \in Msgs /\ workers[w].phase = "returning"
        /\ comms' = Answered([comms EXCEPT ![m] = new], m) /\ comms[m] # new
    BY <1>2, <1>8 DEF Settle, Table
  <2>2. comms[m] \in Message
    BY <1>2, <2>1 DEF Table
  <2>3. new \in Message
    BY <1>2, <2>2, DeliveredType, FieldType DEF Settled, Delivery
  <2>4. /\ new.status = comms[m].status /\ new.handling = comms[m].handling
        /\ new.from = comms[m].from /\ new.to = comms[m].to
        /\ new.source = comms[m].source /\ new.replyTo = comms[m].replyTo
    BY <1>2, <2>2, SettledSame
  <2>5. \/ new.delivery = "queued" /\ Fresh(w) /\ new.mode = comms[m].mode
        \/ workers[w].result = "error" /\ new.delivery = "failed" /\ new.mode = comms[m].mode
        \/ /\ workers[w].result \notin {"busy", "error"}
           /\ new.delivery = "delivered" /\ new.mode = "turn_start"
           /\ comms[m].delivery \notin {"queued", "failed", "delivered"}
    BY <2>1, <2>2 DEF Settled, Delivered, Message, Fresh
  <2> HIDE DEF new, m
  <2>6. QED BY <1>5, <2>1, <2>3, <2>4, <2>5
<1>9. QED BY <1>4, <1>6, <1>7, <1>8

(* A command changes one record and leaves the runtime alone.                  *)
LEMMA CommandKeeps ==
  ASSUME TypeOK, SafetyInv, TurnsInv, OrderInv, SteerInv, NEW m \in Msgs,
         UNCHANGED <<turns, active, workers, codex, notes>>, stopping => stopping',
         \A a \in Agents : meta'[a].status = "archived" <=> meta[a].status = "archived",
         MoreRetries,
         \A n \in Msgs \ {m} : Apart(comms[n], comms'[n]) /\ NotReopened(n),
         Kept(m)', comms'[m].mode # "turn_steer" \/ SteeredBefore(m),
         comms[m].delivery # "absent" =>
           /\ comms'[m].delivery # "absent" /\ comms'[m].from = comms[m].from
           /\ comms'[m].to = comms[m].to /\ comms'[m].source = comms[m].source
           /\ comms'[m].replyTo = comms[m].replyTo,
         comms'[m].replyTo # comms[m].replyTo =>
           comms'[m].replyTo \in Msgs /\ Known(comms'[m].replyTo),
         \A n \in Msgs : comms'[n].delivery = "queued" =>
           \/ comms[n].delivery = "queued" \/ comms[n].handling = "pending"
           \/ spent'.retries > spent.retries
  PROVE  Orderly /\ TurnsInv'
<1>1. Kin(comms, comms')
  BY DEF Kin, Apart
<1>2. TurnsInv' /\ Archives /\ Grows
  BY <1>1, TurnsQuiet, FadesGrows
<1>3. SameSteers /\ \A n \in Msgs : SameHands(n)
  BY WorkersStay
<1>4. ASSUME NEW n \in Msgs PROVE Kept(n)'
  <2>1. SameIds(n)
    BY DEF SameIds
  <2>2. QED BY <1>2, <1>3, <2>1, StillKept DEF TurnsInv, OrderInv
<1>5. \A n \in Msgs : SteeredBefore(n)
  BY DEF SteeredBefore, Apart
<1>6. \A n \in Msgs : comms'[n].replyTo # comms[n].replyTo =>
        comms[n].delivery = "absent" /\ comms'[n].replyTo \in Msgs /\ Known(comms'[n].replyTo)
  BY DEF Apart
<1>7. SteerInv'
  BY <1>1, <1>2, <1>3, <1>5, <1>6, SteerKept
<1>8. Unrepeated
  BY DEF Unrepeated
<1>9. QED BY <1>2, <1>4, <1>7, <1>8 DEF Orderly, OrderInv

(* An id not used yet is nobody's.                                             *)
LEMMA NewKept ==
  ASSUME SafetyInv, TurnsInv, NEW m \in Msgs, comms[m].delivery = "absent",
         UNCHANGED <<turns, workers, meta>>,
         comms'[m].delivery \in {"queued", "delivered"}, comms'[m].handling = "pending"
  PROVE  Kept(m)'
<1>1. \A w \in Workers : ~Holding(workers', w, m)
  BY DEF SafetyInv, Sound, Unused
<1>2. \A s \in Slots : turns'[s].msg = m => ~Standing(s)'
  BY DEF TurnsInv, Carrying, Known, Standing
<1>3. Unhandled(m)'
  BY DEF Unhandled
<1>4. QED BY <1>1, <1>2, <1>3, LooseKept

(* A withdrawn message leaves the queue.                                       *)
LEMMA WithdrawnKept ==
  ASSUME OrderInv, NEW m \in Msgs, UNCHANGED <<turns, workers, meta, spent>>,
         comms'[m].delivery = "cancelled", comms'[m].status # "open",
         comms'[m].handling = comms[m].handling, comms'[m].replyTo = comms[m].replyTo
  PROVE  Kept(m)'
<1>1. Unhandled(m)' /\ Kept(m)
  BY DEF Unhandled, OrderInv
<1>2. ASSUME Early(m)' PROVE Calm(m)'
  <2>1. Calm(m)
    BY <1>1, <1>2 DEF Kept, Early
  <2>2. QED BY <2>1 DEF Calm, Standing, Registered, Fresh
<1>3. ASSUME spent'.retries = 0 PROVE Once(m)'
  <2>1. Once(m)
    BY <1>1, <1>3 DEF Kept
  <2>2. QED BY <2>1 DEF Once, Standing, Registered, Fresh
<1>4. QED BY <1>1, <1>2, <1>3 DEF Kept

LEMMA CreateOrder ==
  ASSUME TypeOK, SafetyInv, TurnsInv, OrderInv, SteerInv, NEW m \in Msgs, NEW route \in Routes,
         CreateMessage(m, route.from, route.to, route.response)
  PROVE  Orderly /\ TurnsInv'
<1>1. /\ UNCHANGED <<runtime, external, control, spent>> /\ comms[m].delivery = "absent"
      /\ comms' = [comms EXCEPT ![m] =
                     NewRequest(route.from, route.to, route.response, SourceTurn(route.from))]
  BY DEF CreateMessage, Known
<1>2. /\ \A n \in Msgs \ {m} : comms'[n] = comms[n]
      /\ comms'[m].delivery = "queued" /\ comms'[m].handling = "pending"
      /\ comms'[m].mode = "none" /\ comms'[m].replyTo = None
      /\ comms[m].replyTo = None /\ comms[m].handling = "pending"
  <2>1. comms[m].replyTo = None /\ comms[m].handling = "pending"
    BY <1>1 DEF SafetyInv, Sound, Unused, OrderInv, Kept, Unhandled
  <2>2. QED BY <1>1, <2>1 DEF NewRequest, NoMessage, TypeOK, LedgerOK
<1>3. Kept(m)'
  BY <1>1, <1>2, NewKept DEF runtime
<1>4. MoreRetries
  BY <1>1 DEF MoreRetries
<1>5. \A n \in Msgs \ {m} : Apart(comms[n], comms'[n]) /\ NotReopened(n)
  BY <1>2 DEF Apart, NotReopened
<1>6. QED BY <1>1, <1>2, <1>3, <1>4, <1>5, CommandKeeps DEF runtime, external, control

LEMMA ReplyOrder ==
  ASSUME TypeOK, SafetyInv, TurnsInv, OrderInv, SteerInv, NEW r \in Msgs, NEW m \in Msgs,
         ReplyMessage(r, m)
  PROVE  Orderly /\ TurnsInv'
<1> DEFINE source == IF comms[m].from = Scheduler THEN 0 ELSE SourceTurn(comms[m].to)
           new == NewReply(m, comms[m], source)
<1>1. /\ UNCHANGED <<runtime, external, control, spent>> /\ comms[r].delivery = "absent"
      /\ comms' = Answered([comms EXCEPT ![r] = new], r) /\ Known(m) /\ m # r
  BY DEF ReplyMessage, Repliable, Known
<1>2. comms \in Table /\ comms[r] \in Message /\ comms[m] \in Message
  BY DEF TypeOK, LedgerOK, Table
<1>3. new \in Message
  <2>1. SourceTurn(comms[m].to) \in TurnId /\ 0 \in TurnId
    BY <1>2, MessageFields, SourceTurnType, ConstantTypes
  <2>2. QED BY <1>2, <2>1, NewReplyType
<1>4. /\ new.delivery \in {"queued", "delivered"} /\ new.handling = "pending"
      /\ new.mode = "none" /\ new.replyTo = m /\ new.status = "closed"
  BY DEF NewReply, NoMessage
<1>5. comms[r].status = "closed" /\ comms[r].handling = "pending"
  BY <1>1 DEF SafetyInv, Sound, Unused, OrderInv, Kept, Unhandled
<1> HIDE DEF new
<1>6. /\ \A n \in Msgs \ {r} : Apart(comms[n], comms'[n])
      /\ Apart(new, comms'[r])
      /\ \A n \in Msgs : NotReopened(n)
  <2>1. /\ new.status = comms[r].status
        /\ comms' \in {[comms EXCEPT ![r] = new], Answered([comms EXCEPT ![r] = new], r)}
    BY <1>1, <1>4, <1>5
  <2>2. /\ \A n \in Msgs \ {r} : Apart(comms[n], comms'[n])
        /\ Apart(new, comms'[r])
        /\ \A n \in Msgs : comms'[n].status = "open" => comms[n].status = "open"
    BY <1>2, <1>3, <2>1, ReleasedTable
  <2>3. QED BY <2>2 DEF NotReopened
<1>7. /\ comms'[r].delivery \in {"queued", "delivered"} /\ comms'[r].handling = "pending"
      /\ comms'[r].mode = "none" /\ comms'[r].replyTo = m /\ Known(m)
  BY <1>1, <1>4, <1>6 DEF Apart
<1>8. Kept(r)'
  BY <1>1, <1>7, NewKept DEF runtime
<1>9. MoreRetries
  BY <1>1 DEF MoreRetries
<1>10. \A n \in Msgs : comms'[n].delivery = "queued" =>
         comms[n].delivery = "queued" \/ comms[n].handling = "pending"
  BY <1>5, <1>6 DEF Apart
<1>11. QED BY <1>1, <1>6, <1>7, <1>8, <1>9, <1>10, CommandKeeps DEF runtime, external, control

LEMMA CloseOrder ==
  ASSUME TypeOK, SafetyInv, TurnsInv, OrderInv, SteerInv, NEW m \in Msgs,
         CancelMessage(m) \/ ResolveMessage(m) \/ NoReplyMessage(m)
  PROVE  Orderly /\ TurnsInv'
<1>1. /\ UNCHANGED <<runtime, external, control, spent>>
      /\ \/ comms' = [comms EXCEPT ![m] = Withdrawn(@, "cancelled")]
         \/ comms' = [comms EXCEPT ![m] = Withdrawn(@, "superseded")]
         \/ comms' = [comms EXCEPT ![m] = Closed(@, "no_reply")]
  BY DEF CancelMessage, ResolveMessage, NoReplyMessage
<1>2. /\ \A n \in Msgs \ {m} : comms'[n] = comms[n]
      /\ comms'[m].from = comms[m].from /\ comms'[m].to = comms[m].to
      /\ comms'[m].source = comms[m].source /\ comms'[m].replyTo = comms[m].replyTo
      /\ comms'[m].mode = comms[m].mode /\ comms'[m].turn = comms[m].turn
      /\ comms'[m].handling = comms[m].handling /\ comms'[m].attempts = comms[m].attempts
      /\ comms'[m].status = "closed"
      /\ \/ comms'[m].delivery = comms[m].delivery
         \/ Unsent(comms[m]) /\ comms'[m].delivery = "cancelled"
  <2>1. comms[m] \in Message
    BY DEF TypeOK, LedgerOK
  <2>2. \A n \in Msgs \ {m} : comms'[n] = comms[n]
    BY <1>1 DEF TypeOK, LedgerOK
  <2>3. comms'[m] \in {Withdrawn(comms[m], "cancelled"), Withdrawn(comms[m], "superseded"),
                       Closed(comms[m], "no_reply")}
    BY <1>1 DEF TypeOK, LedgerOK
  <2>4. QED BY <2>1, <2>2, <2>3 DEF Withdrawn, Closed, Message
<1>3. MoreRetries /\ SameHands(m) /\ SameIds(m) /\ SameCarriers(m) /\ NotReopened(m)
  BY <1>1, <1>2 DEF MoreRetries, SameHands, SameIds, SameCarriers, NotReopened, runtime,
                    Holding, Fresh, Standing, Registered
<1>4. Kept(m)'
  <2>1. CASE comms'[m].delivery = comms[m].delivery
    <3>1. Apart(comms[m], comms'[m])
      BY <1>2, <2>1 DEF Apart
    <3>2. QED BY <1>3, <3>1, RecordKept DEF OrderInv
  <2>2. CASE comms'[m].delivery = "cancelled"
    BY <1>1, <1>2, <2>2, WithdrawnKept DEF runtime
  <2>3. QED BY <1>2, <2>1, <2>2
<1>5. comms'[m].mode = "turn_steer" => SteeredBefore(m)
  BY <1>2 DEF SteeredBefore, SteerInv, Unsent
<1>6. \A n \in Msgs \ {m} : Apart(comms[n], comms'[n]) /\ NotReopened(n)
  BY <1>2 DEF Apart, NotReopened
<1>7. QED BY <1>1, <1>2, <1>3, <1>4, <1>5, <1>6, CommandKeeps DEF runtime, external, control

LEMMA AgainRetries ==
  ASSUME TypeOK, Again
  PROVE  /\ MoreRetries /\ spent'.retries > spent.retries /\ spent'.retries # 0
         /\ spent'.retries <= 1 => spent.retries = 0
<1>1. spent.retries \in Nat /\ spent'.retries = spent.retries + 1
  BY DeliveryAssumption DEF TypeOK, ControlOK, Again, Spend
<1>2. QED BY <1>1 DEF MoreRetries

LEMMA RequeuedRecord ==
  ASSUME TypeOK, NEW m \in Msgs, comms' = [comms EXCEPT ![m] = Requeued(@)]
  PROVE  /\ \A n \in Msgs \ {m} : comms'[n] = comms[n]
         /\ comms'[m].from = comms[m].from /\ comms'[m].to = comms[m].to
         /\ comms'[m].source = comms[m].source /\ comms'[m].replyTo = comms[m].replyTo
         /\ comms'[m].status = comms[m].status /\ comms'[m].attempts = comms[m].attempts
         /\ comms'[m].mode = "none" /\ comms'[m].delivery = "queued"
         /\ comms'[m].handling = "pending"
<1> DEFINE msg == comms[m]
<1>1. /\ msg \in Message /\ comms'[m] = Requeued(msg)
      /\ \A n \in Msgs \ {m} : comms'[n] = comms[n]
  BY DEF TypeOK, LedgerOK
<1> HIDE DEF msg
<1>2. /\ Requeued(msg).from = msg.from /\ Requeued(msg).to = msg.to
      /\ Requeued(msg).source = msg.source /\ Requeued(msg).replyTo = msg.replyTo
      /\ Requeued(msg).status = msg.status /\ Requeued(msg).attempts = msg.attempts
      /\ Requeued(msg).mode = "none" /\ Requeued(msg).delivery = "queued"
      /\ Requeued(msg).handling = "pending"
  BY <1>1 DEF Requeued, Message
<1>3. QED BY <1>1, <1>2 DEF msg

(* The Owner sends again a message no Turn has: Retry looks at the Turn its    *)
(* record names, and Continue at the outcome of its handling.                  *)
LEMMA RequeuedOrder ==
  ASSUME TypeOK, SafetyInv, TurnsInv, OrderInv, SteerInv, NEW m \in Msgs,
         RetryMessage(m) \/ \E a \in Agents : ContinueInterrupted(a, m)
  PROVE  Orderly /\ TurnsInv'
<1>1. /\ UNCHANGED <<active, turns, workers, external, control>> /\ Again /\ Known(m)
      /\ comms' = [comms EXCEPT ![m] = Requeued(@)]
      /\ \A a \in Agents : meta'[a].status = "archived" <=> meta[a].status = "archived"
  BY DEF RetryMessage, ContinueInterrupted, HeldMessages, First, runtime, IdleAgent, TypeOK, RuntimeOK
<1>2. /\ \A n \in Msgs \ {m} : comms'[n] = comms[n]
      /\ comms'[m].from = comms[m].from /\ comms'[m].to = comms[m].to
      /\ comms'[m].source = comms[m].source /\ comms'[m].replyTo = comms[m].replyTo
      /\ comms'[m].status = comms[m].status
      /\ comms'[m].mode = "none" /\ comms'[m].delivery = "queued"
      /\ comms'[m].handling = "pending"
  BY <1>1, RequeuedRecord
<1>3. /\ MoreRetries /\ spent'.retries > spent.retries /\ spent'.retries # 0
      /\ spent'.retries <= 1 => spent.retries = 0
  BY <1>1, AgainRetries
<1>4. Early(m)' => Early(m) /\ Calm(m)
  BY <1>2, <1>3 DEF Early, MoreRetries, OrderInv, Kept
<1>5. ASSUME Early(m)', NEW w \in Workers, Holding(workers, w, m), Fresh(w) PROVE FALSE
  <2>1. CASE RetryMessage(m)
    <3>1. comms[m].replyTo = None /\ comms[m].delivery \in {"delivered", "failed"}
      BY <2>1 DEF RetryMessage
    <3>2. Once(m)
      BY <1>2, <1>3, <1>5, <3>1 DEF Early, OrderInv, Kept
    <3>3. QED BY <1>5, <3>1, <3>2 DEF Once
  <2>2. CASE \E a \in Agents : ContinueInterrupted(a, m)
    BY <1>4, <1>5, <2>2 DEF ContinueInterrupted, Calm
  <2>3. QED BY <2>1, <2>2
<1>6. ASSUME Early(m)', NEW s \in Slots, turns[s].msg = m, Standing(s) PROVE FALSE
  <2>1. /\ turns[s].agent = comms[m].to /\ turns[s].agent \in Agents
        /\ active[comms[m].to] = s /\ Live(comms[m].to)
    BY <1>6, SlotNotNone DEF TurnsInv, Carrying, Placed, Standing, Live
  <2>2. CASE RetryMessage(m)
    <3>1. /\ comms[m].replyTo = None /\ comms[m].delivery \in {"delivered", "failed"}
          /\ comms[m].status = "open" /\ TurnOf(comms[m].to).id # comms[m].turn
      BY <2>1, <2>2 DEF RetryMessage
    <3>2. Once(m)
      BY <1>2, <1>3, <1>6, <3>1 DEF Early, OrderInv, Kept
    <3>3. QED BY <1>6, <2>1, <3>1, <3>2 DEF Once, TurnOf
  <2>3. CASE \E a \in Agents : ContinueInterrupted(a, m)
    <3>1. comms[m].handling \in {"interrupted", "failed"} /\ comms[m].resolution # "reply"
      BY <2>3 DEF ContinueInterrupted
    <3>2. comms[m].replyTo = None
      BY <3>1 DEF SafetyInv, Sound, ClosedReplies
    <3>3. Once(m)
      BY <1>2, <1>3, <1>6, <3>2 DEF Early, OrderInv, Kept
    <3>4. QED BY <1>6, <3>1, <3>3 DEF Once
  <2>4. QED BY <2>2, <2>3
<1>7. Kept(m)'
  <2>1. Unhandled(m)'
    BY <1>2 DEF Unhandled
  <2>2. \A w \in Workers : Early(m)' => ~(Holding(workers', w, m) /\ Fresh(w)')
    BY <1>1, <1>5 DEF Fresh
  <2>3. \A s \in Slots : Early(m)' /\ turns'[s].msg = m => ~Standing(s)'
    <3>1. ASSUME NEW s \in Slots, Early(m)', turns'[s].msg = m, Standing(s)' PROVE FALSE
      <4>1. turns[s].msg = m /\ turns[s].agent \in Agents
        BY <1>1, <3>1 DEF TurnsInv, Placed, Standing
      <4>2. Standing(s)
        BY <1>1, <3>1, <4>1 DEF Standing, Registered
      <4>3. QED BY <1>6, <3>1, <4>1, <4>2
    <3>2. QED BY <3>1
  <2>4. QED BY <1>2, <1>3, <2>1, <2>2, <2>3, LooseKept
<1>8. \A n \in Msgs \ {m} : Apart(comms[n], comms'[n]) /\ NotReopened(n)
  BY <1>2 DEF Apart, NotReopened
<1>9. QED BY <1>1, <1>2, <1>3, <1>7, <1>8, CommandKeeps DEF external, control

(* The queue of an archived Agent fails.                                       *)
LEMMA FailQueuedOrder ==
  ASSUME TypeOK, SafetyInv, TurnsInv, OrderInv, SteerInv, NEW a \in Agents, FailQueued(a)
  PROVE  Orderly /\ TurnsInv'
<1>1. /\ UNCHANGED <<runtime, external, control, spent>>
      /\ comms' = [m \in Msgs |-> IF m \in Queued(a) THEN [comms[m] EXCEPT !.delivery = "failed"]
                                  ELSE comms[m]]
  BY DEF FailQueued
<1>2. ASSUME NEW m \in Msgs
      PROVE  /\ comms'[m].from = comms[m].from /\ comms'[m].to = comms[m].to
             /\ comms'[m].source = comms[m].source /\ comms'[m].replyTo = comms[m].replyTo
             /\ comms'[m].status = comms[m].status /\ comms'[m].handling = comms[m].handling
             /\ comms'[m].mode = comms[m].mode
             /\ \/ comms'[m] = comms[m]
                \/ comms[m].delivery = "queued" /\ comms'[m].delivery = "failed"
  BY <1>1 DEF Queued, TypeOK, LedgerOK, Message
<1>3. Kin(comms, comms')
  BY <1>2 DEF Kin
<1>4. TurnsInv' /\ Archives /\ Grows
  BY <1>1, <1>3, TurnsQuiet, FadesGrows DEF runtime, external, control
<1>5. SameSteers /\ MoreRetries /\ \A n \in Msgs : SameHands(n)
  BY <1>1, WorkersStay DEF runtime, MoreRetries
<1>6. ASSUME NEW m \in Msgs, comms'[m] = comms[m] PROVE Kept(m)'
  <2>1. SameIds(m) /\ Apart(comms[m], comms'[m]) /\ NotReopened(m)
    BY <1>1, <1>6 DEF SameIds, runtime, Apart, NotReopened
  <2>2. QED BY <1>4, <1>5, <2>1, StillKept DEF TurnsInv, OrderInv
<1>7. ASSUME NEW m \in Msgs, comms[m].delivery = "queued", comms'[m].delivery = "failed"
      PROVE  Kept(m)'
  <2>1. Early(m)' => Early(m) /\ Calm(m)
    BY <1>1, <1>2 DEF Early, OrderInv, Kept
  <2>2. \A w \in Workers : Early(m)' => ~(Holding(workers', w, m) /\ Fresh(w)')
    BY <1>1, <1>7, <2>1 DEF Calm, runtime, Fresh
  <2>3. \A w \in Workers : spent'.retries = 0 => ~Holding(workers', w, m)
    BY <1>1, <1>7 DEF OrderInv, Kept, Once, runtime
  <2>4. \A s \in Slots : Early(m)' /\ turns'[s].msg = m => ~Standing(s)'
    BY <1>1, <1>7, <2>1 DEF Calm, runtime, Standing, Registered
  <2>5. Unhandled(m)'
    BY <1>7 DEF Unhandled
  <2>6. QED BY <1>7, <2>2, <2>3, <2>4, <2>5, LooseKept
<1>8. SteerInv'
  <2>1. \A m \in Msgs : SteeredBefore(m) /\ comms'[m].replyTo = comms[m].replyTo
    BY <1>2 DEF SteeredBefore, SteerInv
  <2>2. QED BY <1>3, <1>4, <1>5, <2>1, SteerKept
<1>9. Unrepeated
  BY <1>2 DEF Unrepeated
<1>10. QED BY <1>2, <1>4, <1>6, <1>7, <1>8, <1>9 DEF Orderly, OrderInv

(* CodexHost exits: every Turn is over.                                        *)
LEMMA HostExitOrder ==
  ASSUME TypeOK, SafetyInv, TurnsInv, OrderInv, SteerInv, HostExit
  PROVE  Orderly
<1>1. /\ TurnsInv' /\ Archives /\ Grows /\ \A s \in Slots : ~Standing(s)'
      /\ \A w \in Workers :
           /\ workers'[w].msg = workers[w].msg
           /\ workers'[w].phase = "idle" <=> workers[w].phase = "idle"
           /\ workers'[w].phase \in {"steering", "steered"} => workers'[w] = workers[w]
           /\ Fresh(w)' => Fresh(w)
  BY HostExitTurns, FadesGrows
<1>2. SameSteers /\ \A m \in Msgs : SameHands(m)
  BY <1>1 DEF SameSteers, SameHands, Holding
<1>3. MoreRetries
  BY RetriesKept DEF HostExit
<1>4. \A s \in Slots : ~turns'[s].finished => turns'[s] = turns[s]
  <2>1. \A s \in Slots : Over(s, turns[s]).finished
    BY DEF Over, NoTurn, TypeOK, RuntimeOK, Turn
  <2>2. QED BY <2>1 DEF HostExit
<1>5. ASSUME NEW m \in Msgs
      PROVE  \/ comms'[m] = comms[m]
             \/ /\ Touched(comms[m], comms'[m]) /\ NotReopened(m)
                /\ \E s \in Slots : turns[s].msg = m /\ ~turns[s].finished
  <2> DEFINE a == comms[m].to
  <2>1. CASE a \in Agents /\ Live(a) /\ TurnOf(a).msg = m
    <3>1. comms'[m] = Ended(comms, TurnOf(a), "interrupted")[m]
      BY <2>1 DEF HostExit
    <3>2. /\ comms \in Table /\ "interrupted" \in Outcome
          /\ TurnOf(a) \in Turn /\ active[a] \in Slots
      BY <2>1, LiveTurnType DEF TypeOK, LedgerOK, Table, Outcome
    <3> DEFINE d == Ended(comms, TurnOf(a), "interrupted")
    <3>3. Moves(comms, d, TurnOf(a).msg) /\ Progress(comms, d)
      BY <3>2, EndedMoves, EndedProgress
    <3> HIDE DEF d
    <3>4. Touched(comms[m], d[m]) /\ (d[m].status = "open" => comms[m].status = "open")
      BY <3>3 DEF Moves, Progress, SameAnswer
    <3>5. QED BY <2>1, <3>1, <3>2, <3>4 DEF NotReopened, d, Live, TurnOf
  <2>2. CASE ~(a \in Agents /\ Live(a) /\ TurnOf(a).msg = m)
    BY <2>2 DEF HostExit
  <2>3. QED BY <2>1, <2>2
<1>6. ASSUME NEW m \in Msgs PROVE Kept(m)'
  <2>1. CASE comms'[m] = comms[m]
    <3>1. SameIds(m) /\ Apart(comms[m], comms'[m]) /\ NotReopened(m)
      BY <1>4, <2>1 DEF SameIds, Apart, NotReopened
    <3>2. QED BY <1>1, <1>2, <1>3, <3>1, StillKept DEF TurnsInv, OrderInv
  <2>2. CASE comms'[m] # comms[m]
    <3>1. PICK s \in Slots : turns[s].msg = m /\ ~turns[s].finished
      BY <1>5, <2>2
    <3>2. Touched(comms[m], comms'[m]) /\ NotReopened(m)
      BY <1>5, <2>2
    <3>3. QED BY <1>1, <1>2, <1>3, <3>1, <3>2, FreedKept DEF OrderInv
  <2>3. QED BY <2>1, <2>2
<1>7. Kin(comms, comms') /\ \A m \in Msgs : comms'[m].replyTo = comms[m].replyTo
  BY <1>5 DEF Kin, Touched
<1>8. \A m \in Msgs : SteeredBefore(m)
  BY <1>5 DEF SteeredBefore, Touched, SteerInv
<1>9. SteerInv'
  BY <1>1, <1>2, <1>7, <1>8, SteerKept
<1>10. Unrepeated
  BY <1>5 DEF Unrepeated, Touched
<1>11. QED BY <1>6, <1>9, <1>10 DEF Orderly, OrderInv

(* The table as the next process loads it, and reconciles it.                  *)
LoadedTable == [m \in Msgs |-> Loaded(comms[m])]
StartTable == Reconciled(LoadedTable)

LEMMA StartRecord ==
  ASSUME TypeOK
  PROVE  /\ StartTable \in Table
         /\ \A m \in Msgs :
              /\ StartTable[m].from = comms[m].from /\ StartTable[m].to = comms[m].to
              /\ StartTable[m].source = comms[m].source
              /\ StartTable[m].replyTo = comms[m].replyTo
              /\ StartTable[m].mode = comms[m].mode /\ StartTable[m].turn = comms[m].turn
              /\ StartTable[m].handling = comms[m].handling
              /\ StartTable[m].attempts = comms[m].attempts
              /\ StartTable[m].delivery = IF comms[m].delivery = "delivering" THEN "queued"
                                          ELSE comms[m].delivery
              /\ \/ StartTable[m].status = comms[m].status
                 \/ /\ comms[m].status = "open" /\ StartTable[m].status = "answered"
                    /\ \E r \in Msgs : comms[r].replyTo = m /\ comms[r].delivery = "delivered"
<1>1. ASSUME NEW m \in Msgs
      PROVE  LoadedTable[m] \in Message /\ LoadedTable[m] = Loaded(comms[m]) /\ comms[m] \in Message
  BY TableStep, DeliveredType, ConstantTypes DEF LoadedTable
<1>2. ASSUME NEW m \in Msgs
      PROVE  /\ LoadedTable[m].from = comms[m].from /\ LoadedTable[m].to = comms[m].to
             /\ LoadedTable[m].source = comms[m].source
             /\ LoadedTable[m].replyTo = comms[m].replyTo
             /\ LoadedTable[m].mode = comms[m].mode /\ LoadedTable[m].turn = comms[m].turn
             /\ LoadedTable[m].handling = comms[m].handling
             /\ LoadedTable[m].attempts = comms[m].attempts
             /\ LoadedTable[m].status = comms[m].status
             /\ LoadedTable[m].delivery = IF comms[m].delivery = "delivering" THEN "queued"
                                          ELSE comms[m].delivery
  BY <1>1 DEF Loaded, Message
<1>3. LoadedTable \in Table
  BY <1>1 DEF Table, LoadedTable
<1>4. StartTable \in Table
  BY <1>3, ReconciledType DEF StartTable
<1>5. ASSUME NEW m \in Msgs, StartTable[m] # LoadedTable[m]
      PROVE  /\ LoadedTable[m].status = "open"
             /\ StartTable[m] = [LoadedTable[m] EXCEPT !.status = "answered", !.resolution = "reply"]
             /\ \E r \in Msgs : LoadedTable[r].replyTo = m /\ LoadedTable[r].delivery = "delivered"
  BY <1>5 DEF StartTable, Reconciled
<1>6. ASSUME NEW m \in Msgs
      PROVE  /\ Apart(LoadedTable[m], StartTable[m])
             /\ \/ StartTable[m].status = LoadedTable[m].status
                \/ LoadedTable[m].status = "open" /\ StartTable[m].status = "answered"
  <2>1. CASE StartTable[m] = LoadedTable[m]
    BY <2>1 DEF Apart
  <2>2. CASE StartTable[m] # LoadedTable[m]
    <3> DEFINE y == LoadedTable[m]
               z == StartTable[m]
    <3>1. /\ y \in Message /\ y.status = "open"
          /\ z = [y EXCEPT !.status = "answered", !.resolution = "reply"]
      BY <1>1, <1>5, <2>2
    <3> HIDE DEF y, z
    <3>2. Apart(y, z) /\ y.status = "open" /\ z.status = "answered"
      BY <3>1 DEF Apart, Message
    <3>3. QED BY <3>2 DEF y, z
  <2>3. QED BY <2>1, <2>2
<1>7. ASSUME NEW m \in Msgs, StartTable[m].status # comms[m].status
      PROVE  \E r \in Msgs : comms[r].replyTo = m /\ comms[r].delivery = "delivered"
  <2>1. PICK r \in Msgs : LoadedTable[r].replyTo = m /\ LoadedTable[r].delivery = "delivered"
    <3>1. StartTable[m] # LoadedTable[m]
      BY <1>2, <1>7
    <3>2. QED BY <1>5, <3>1
  <2>2. QED BY <1>2, <2>1
<1>8. QED BY <1>2, <1>4, <1>6, <1>7 DEF Apart

(* Then the messages of the lost Turns come to their end.                      *)
LEMMA RecoveredRecord ==
  ASSUME TypeOK, NEW m \in Msgs
  PROVE  \/ RecoveredComms[m] = StartTable[m]
         \/ StartTable[m].mode = "turn_start" /\ Closing(StartTable[m], RecoveredComms[m])
<1> DEFINE a == StartTable[m].to
           o == [NoTurn EXCEPT !.msg = m, !.id = LostTurn(a)]
<1>1. \/ RecoveredComms[m] = StartTable[m]
      \/ /\ a \in Agents /\ StartTable[m].mode = "turn_start"
         /\ RecoveredComms[m] = Ended(StartTable, o, LostStatus(a))[m]
  BY DEF RecoveredComms, StartTable, LoadedTable
<1>2. ASSUME a \in Agents
      PROVE  LostTurn(a) \in TurnId /\ LostStatus(a) \in Outcome
  BY <1>2 DEF LostTurn, LostStatus, Outcome, TypeOK, RuntimeOK, ExternalOK, Agent, CodexTurn
<1>3. ASSUME a \in Agents PROVE o \in Turn /\ o.msg = m
  BY <1>2, <1>3, IdleTypes DEF Turn
<1>4. StartTable \in Table /\ StartTable[m].delivery # "delivering"
  BY StartRecord
<1>5. ASSUME a \in Agents, RecoveredComms[m] = Ended(StartTable, o, LostStatus(a))[m],
             RecoveredComms[m] # StartTable[m]
      PROVE  Closing(StartTable[m], RecoveredComms[m])
  <2> DEFINE d == Ended(StartTable, o, LostStatus(a))
  <2>1. o \in Turn /\ o.msg = m /\ LostStatus(a) \in Outcome
    BY <1>2, <1>3, <1>5
  <2> HIDE DEF o
  <2>2. d = StartTable \/ \E new \in Message :
          d = [StartTable EXCEPT ![m] = new] /\ Closing(StartTable[m], new)
    BY <1>4, <2>1, EndedRecord
  <2>3. QED BY <1>4, <1>5, <2>2 DEF Table
<1>6. QED BY <1>1, <1>5

LEMMA ReopenOrder ==
  ASSUME TypeOK, SafetyInv, TurnsInv, OrderInv, SteerInv, Crash \/ Restart
  PROVE  Orderly
<1>1. /\ comms' = RecoveredComms /\ MoreRetries
      /\ \A s \in Slots : turns'[s] = NoTurn
      /\ \A w \in Workers : workers'[w] = Idle
  <2>1. Fault \/ UNCHANGED spent
    BY DEF Crash, Restart
  <2>2. QED BY <2>1, ReopenTurns, RetriesKept DEF Crash, Restart, Reopen
<1>2. ASSUME NEW m \in Msgs
      PROVE  /\ comms'[m].from = comms[m].from /\ comms'[m].to = comms[m].to
             /\ comms'[m].source = comms[m].source /\ comms'[m].replyTo = comms[m].replyTo
             /\ \/ comms'[m].delivery = comms[m].delivery
                \/ comms[m].delivery = "delivering" /\ comms'[m].delivery = "queued"
             /\ comms'[m].delivery # "delivered" => comms'[m].handling = comms[m].handling
             /\ comms'[m].delivery # "delivering"
             /\ NotReopened(m)
  <2>1. /\ StartTable[m].from = comms[m].from /\ StartTable[m].to = comms[m].to
        /\ StartTable[m].source = comms[m].source /\ StartTable[m].replyTo = comms[m].replyTo
        /\ StartTable[m].handling = comms[m].handling
        /\ StartTable[m].delivery = IF comms[m].delivery = "delivering" THEN "queued"
                                    ELSE comms[m].delivery
        /\ StartTable[m].status = "open" => comms[m].status = "open"
    BY StartRecord
  <2>2. comms'[m] = StartTable[m] \/ Closing(StartTable[m], comms'[m])
    BY <1>1, RecoveredRecord
  <2>3. QED BY <2>1, <2>2 DEF Closing, Touched, SameAnswer, NotReopened
<1>3. ASSUME NEW m \in Msgs PROVE SteeredBefore(m)
  <2>1. StartTable[m].mode = comms[m].mode /\ StartTable[m].turn = comms[m].turn
    BY StartRecord
  <2>2. \/ comms'[m] = StartTable[m]
        \/ StartTable[m].mode = "turn_start" /\ Closing(StartTable[m], comms'[m])
    BY <1>1, RecoveredRecord
  <2>3. comms'[m].mode = "turn_steer" => comms[m].mode = "turn_steer" /\ comms'[m].turn = comms[m].turn
    BY <2>1, <2>2 DEF Closing, Touched
  <2>4. QED BY <1>2, <2>3 DEF SteeredBefore, SteerInv
<1>4. ASSUME NEW m \in Msgs PROVE Kept(m)'
  <2>1. Unhandled(m)'
    BY <1>2 DEF OrderInv, Kept, Unhandled, NotReopened
  <2>2. Early(m)' => Calm(m)
    BY <1>1, <1>2 DEF Early, MoreRetries, OrderInv, Kept
  <2>3. \A w \in Workers : ~Holding(workers', w, m)
    BY <1>1 DEF Holding, Idle
  <2>4. \A s \in Slots : turns'[s].msg = m => ~Standing(s)'
    BY <1>1 DEF Standing, NoTurn
  <2>5. QED BY <1>2, <2>1, <2>2, <2>3, <2>4, LooseKept DEF Calm
<1>5. SteerInv'
  <2>1. Kin(comms, comms') /\ \A m \in Msgs : comms'[m].replyTo = comms[m].replyTo
    BY <1>2 DEF Kin
  <2>2. SameSteers /\ Grows /\ \A m \in Msgs : SameHands(m)
    BY <1>1 DEF SameSteers, Grows, SameHands, Holding, Idle, NoTurn
  <2>3. QED BY <1>3, <2>1, <2>2, SteerKept
<1>6. ASSUME NEW m \in Msgs, comms[m].handling # "pending",
             comms[m].delivery # "queued", comms'[m].delivery = "queued"
      PROVE  comms[m].replyTo = None /\ spent.retries >= 2
  <2>1. ~Early(m)
    BY <1>2, <1>6 DEF OrderInv, Kept, Calm
  <2>2. QED BY <2>1, NotEarly
<1>7. QED BY <1>4, <1>5, <1>6 DEF Orderly, OrderInv, Unrepeated

----------------------------------------------------------------------------
(* Every behaviour.                                                           *)

TurnOrder == TurnsInv /\ OrderInv /\ SteerInv

LEMMA InitOrder == Init => TurnOrder
<1> SUFFICES ASSUME Init PROVE TurnOrder
  OBVIOUS
<1>1. /\ \A m \in Msgs : comms[m] = NoMessage
      /\ \A a \in Agents : active[a] = None /\ notes[a] = <<>> /\ codex[a].status = "none"
      /\ \A s \in Slots : turns[s] = NoTurn /\ turns[s].finished
      /\ \A w \in Workers : workers[w] = Idle /\ workers[w].phase = "idle"
  BY DEF Init, NoTurn, Idle
<1>2. Placed /\ Carrying
  BY <1>1 DEF Placed, Carrying, Standing, Live, Holding
<1>3. Serving /\ Numbered
  BY <1>1 DEF Serving, Serves, Turnless, Fresh, Numbered
<1>4. OrderInv
  BY <1>1 DEF OrderInv, Kept, Unhandled, Calm, Once, NoMessage, Holding, Standing
<1>5. SteerInv
  BY <1>1 DEF SteerInv, NoMessage
<1>6. QED BY <1>2, <1>3, <1>4, <1>5 DEF TurnOrder, TurnsInv

LEMMA StillOrderly ==
  ASSUME TypeOK, SafetyInv, TurnOrder, UNCHANGED vars
  PROVE  TurnOrder' /\ Unrepeated
<1>1. TurnOrder'
  <2> USE DEF vars
  <2>1. TurnsInv'
    BY DEF TurnOrder, TurnsInv, Placed, Carrying, Serving, Serves, Numbered, Standing,
           Turnless, Fresh, Live, TurnOf, Registered, Known
  <2>2. OrderInv' /\ SteerInv'
    BY DEF TurnOrder, OrderInv, Kept, Unhandled, Early, Calm, Once, SteerInv, Standing, Fresh,
           Registered, Known
  <2>3. QED BY <2>1, <2>2 DEF TurnOrder
<1>2. QED BY <1>1 DEF vars, Unrepeated

LEMMA NextOrder ==
  ASSUME TypeOK, SafetyInv, TurnOrder, [Next]_vars
  PROVE  TurnOrder' /\ Unrepeated
<1> USE DEF TurnOrder
<1>1. CASE Commands
  <2>1. CASE \E m \in Msgs, route \in Routes :
               CreateMessage(m, route.from, route.to, route.response)
    BY <2>1, CreateOrder DEF Orderly
  <2>2. CASE \E r, m \in Msgs : ReplyMessage(r, m)
    BY <2>2, ReplyOrder DEF Orderly
  <2>3. CASE \E m \in Msgs : CancelMessage(m) \/ ResolveMessage(m) \/ NoReplyMessage(m)
    BY <2>3, CloseOrder DEF Orderly
  <2>4. CASE \E m \in Msgs : RetryMessage(m)
    BY <2>4, RequeuedOrder DEF Orderly
  <2>5. CASE \E w \in Workers, a \in Agents : OwnerTask(w, a)
    <3>1. TurnsInv'
      BY <2>5, ClaimTurns
    <3>2. QED BY <2>5, <3>1, TaskOrder DEF Orderly
  <2>6. CASE \E a \in Agents : Interrupt(a)
    BY <2>6, AgentTurns, AgentOrder DEF Orderly
  <2>7. CASE \E a \in Agents : ArchiveAgent(a)
    BY <2>7, ArchiveTurns, RegistryOrder DEF Orderly
  <2>8. CASE \E a \in Agents : DismissInterrupted(a)
    <3>1. /\ UNCHANGED <<comms, turns, active, workers, codex, notes, stopping>>
          /\ \A a \in Agents : meta'[a].status = "archived" <=> meta[a].status = "archived"
      BY <2>8 DEF DismissInterrupted, external, control, IdleAgent, TypeOK, RuntimeOK
    <3>2. TurnsInv'
      BY <3>1, KinReflexive, TurnsQuiet
    <3>3. QED BY <2>8, <3>2, RegistryOrder DEF Orderly
  <2>9. CASE \E a \in Agents, m \in Msgs : ContinueInterrupted(a, m)
    BY <2>9, RequeuedOrder DEF Orderly
  <2>10. CASE BeginDrain \/ CancelDrain
    BY <2>10, CodexTurns, RegistryOrder DEF Orderly
  <2>11. CASE Shutdown
    BY <2>11, ShutdownTurns, RegistryOrder DEF Orderly
  <2>12. QED BY <1>1, <2>1, <2>2, <2>3, <2>4, <2>5, <2>6, <2>7, <2>8, <2>9, <2>10, <2>11
             DEF Commands
<1>2. CASE Delivering
  <2>1. CASE \E w \in Workers, a \in Agents, m \in Msgs : ClaimNext(w, a, m) \/ ClaimSteer(w, a, m)
    <3>1. TurnsInv'
      BY <2>1, ClaimTurns
    <3>2. QED BY <2>1, <3>1, ClaimOrder DEF Orderly
  <2>2. CASE \E w \in Workers : SendRefused(w) \/ SendFailed(w) \/ SteerAccepted(w)
    BY <2>2, SendTurns, SendOrder DEF Orderly
  <2>3. CASE \E w \in Workers : CodexAccepts(w)
    BY <2>3, AcceptsTurns, SendOrder DEF Orderly
  <2>4. CASE \E w \in Workers : ReserveTurn(w)
    BY <2>4, ReserveTurns, ReserveOrder DEF Orderly
  <2>5. CASE \E w \in Workers : StartAnswered(w)
    BY <2>5, AnsweredTurns, AnsweredOrder DEF Orderly
  <2>6. CASE \E w \in Workers : StartFailed(w)
    BY <2>6, FailedTurns, FailedOrder DEF Orderly
  <2>7. CASE \E w \in Workers : Settle(w)
    BY <2>7, SettleTurns, SettleOrder DEF Orderly
  <2>8. CASE \E w \in Workers : SteerSettled(w) \/ SteerDeferred(w)
    BY <2>8, SettleTurns, SettleOrder DEF Orderly
  <2>9. CASE \E a \in Agents : FailQueued(a)
    BY <2>9, FailQueuedOrder DEF Orderly
  <2>10. QED BY <1>2, <2>1, <2>2, <2>3, <2>4, <2>5, <2>6, <2>7, <2>8, <2>9 DEF Delivering
<1>3. CASE Environment
  <2>1. CASE \E a \in Agents : CodexEnds(a) \/ RemoteStart(a)
    BY <2>1, CodexTurns, RegistryOrder DEF Orderly
  <2>2. CASE \E a \in Agents : Notify(a) \/ ForceFinish(a)
    BY <2>2, AgentTurns, AgentOrder DEF Orderly
  <2>3. CASE HostExit
    BY <2>3, HostExitTurns, HostExitOrder DEF Orderly
  <2>4. CASE Crash \/ Restart
    BY <2>4, ReopenTurns, ReopenOrder DEF Orderly
  <2>5. QED BY <1>3, <2>1, <2>2, <2>3, <2>4 DEF Environment
<1>4. CASE UNCHANGED vars
  BY <1>4, StillOrderly
<1>5. QED BY <1>1, <1>2, <1>3, <1>4 DEF Next

OrderedState == TypeOK /\ SafetyInv /\ TurnOrder

(* Where the Turns stand, which message each may still touch, and that a       *)
(* steered reply is in nobody's hands: the invariant behind the two theorems   *)
(* below (deliverNextQueuedForTarget, sendTask, onNotification).               *)
THEOREM TurnOrderInvariant == Spec => []OrderedState
<1>1. Init => OrderedState
  BY InitType, InitSound, InitOrder DEF OrderedState
<1>2. OrderedState /\ [Next]_vars => OrderedState'
  BY NextType, NextSound, NextOrder DEF OrderedState
<1>3. QED BY <1>1, <1>2, PTL DEF Spec

(* A steered reply entered exactly the Turn that sent the request, whatever    *)
(* Turns ended, were renamed or were taken over while it was on its way        *)
(* (tryDeliverReplyToActiveTurn).                                              *)
THEOREM SteersAreCausal == Spec => []SteerIsCausal
<1>1. OrderedState => SteerIsCausal
  BY DEF OrderedState, TurnOrder, SteerInv, SteerIsCausal
<1>2. QED BY <1>1, TurnOrderInvariant, PTL

(* No worker, notification, crash or restart queues a message again that a     *)
(* Turn has taken: only Retry and Continue do, or a late refusal over the      *)
(* record of a request that was already sent again twice.                      *)
THEOREM NothingResent == Spec => NoAutomaticRedelivery
<1>1. OrderedState /\ [Next]_vars =>
        [\A m \in Msgs :
           /\ comms[m].handling # "pending"
           /\ comms[m].delivery # "queued" /\ comms'[m].delivery = "queued"
           => \/ spent'.retries > spent.retries
              \/ comms[m].replyTo = None /\ spent.retries >= 2]_vars
  BY NextOrder DEF OrderedState, Unrepeated
<1>2. QED BY <1>1, TurnOrderInvariant, PTL DEF Spec, NoAutomaticRedelivery

----------------------------------------------------------------------------
(* The ledger: what the steps of delivery and handling let the Agents hear.    *)

(* The Turn of a message that is known.                                       *)
LEMMA StartHeard ==
  ASSUME TypeOK, TurnsInv, NEW w \in Workers, StartAnswered(w) \/ StartFailed(w)
  PROVE  Heard(comms, comms')
<1> DEFINE o == turns[w]
           o1 == [o EXCEPT !.id = IF o.id = 0 THEN workers[w].turn ELSE o.id]
           a == workers[w].agent
<1>1. /\ comms \in Table /\ o \in Turn /\ workers[w].turn \in TurnId /\ w \in Slots
      /\ "failed" \in Outcome
  BY WorkerFields, WorkerNoAgent DEF TypeOK, LedgerOK, Table, Outcome
<1>2. o1 \in Turn /\ o1.msg = o.msg
  <2>1. o.id \in TurnId
    BY <1>1 DEF Turn
  <2>2. QED
    <3> HIDE DEF o
    <3> QED BY <1>1, <2>1 DEF Turn
<1>3. CASE UNCHANGED comms
  BY <1>3, HeardReflexive
<1>4. CASE ~o.finished /\ comms' = Running(comms, o1)
  <2>1. o1.msg \in Msgs => comms[o1.msg].delivery # "absent"
    BY <1>1, <1>2, <1>4 DEF TurnsInv, Carrying, Known
  <2>2. QED
    <3> HIDE DEF o1
    <3> QED BY <1>1, <1>2, <1>4, <2>1, RunningHeard
<1>5. CASE StartFailed(w) /\ Live(a) /\ comms' = Ended(comms, TurnOf(a), "failed")
  <2>1. a \in Agents
    BY <1>5, WorkerFields DEF StartFailed
  <2>2. TurnOf(a) \in Turn /\ active[a] \in Slots
    BY <1>5, <2>1, LiveTurnType
  <2>3. TurnOf(a).msg \in Msgs => comms[TurnOf(a).msg].delivery # "absent"
    BY <1>5, <2>1, <2>2 DEF TurnsInv, Carrying, Known, TurnOf, Live
  <2>4. QED BY <1>1, <1>5, <2>2, <2>3, EndedHeard
<1>6. QED BY <1>3, <1>4, <1>5 DEF StartAnswered, StartFailed, FinishTurn

(* A worker lets go of its message: where that takes back a delivery, a reply  *)
(* had been taken by a Turn already.                                          *)
LEMMA ReleaseHeard ==
  ASSUME TypeOK, SafetyInv, NEW w \in Workers, NEW m \in Msgs, NEW new \in Message,
         Holding(workers, w, m),
         new.replyTo = comms[m].replyTo, new.status = comms[m].status,
         new.attempts = comms[m].attempts,
         \/ /\ new.delivery = "delivered" /\ comms' = Answered([comms EXCEPT ![m] = new], m)
         \/ /\ new.delivery \in {"queued", "failed"} /\ comms' = [comms EXCEPT ![m] = new]
  PROVE  Heard(comms, comms')
<1>1. comms \in Table /\ comms[m].delivery # "absent"
  BY TableStep DEF SafetyInv, Sound, Unused
<1>2. CASE new.delivery = "delivered" /\ comms' = Answered([comms EXCEPT ![m] = new], m)
  BY <1>1, <1>2, DeliveredHeard
<1>3. CASE new.delivery \in {"queued", "failed"} /\ comms' = [comms EXCEPT ![m] = new]
  <2>1. comms[m].replyTo # None => (Arrived(new) <=> Arrived(comms[m]))
    BY <1>3 DEF Arrived, SafetyInv, Sound, HeldReplies
  <2>2. QED BY <1>1, <1>3, <2>1, RecordHeard
<1>4. QED BY <1>2, <1>3

LEMMA SettleHeard ==
  ASSUME TypeOK, SafetyInv, NEW w \in Workers, Settle(w) \/ SteerSettled(w) \/ SteerDeferred(w)
  PROVE  Heard(comms, comms')
<1> DEFINE m == workers[w].msg
<1>1. /\ workers[w].phase # "idle" /\ workers[w].turn \in TurnId /\ (m = None \/ m \in Msgs)
      /\ SteerSettled(w) \/ SteerDeferred(w) => m \in Msgs
  BY WorkerFields DEF Settle, SteerSettled, SteerDeferred
<1>2. CASE UNCHANGED comms
  BY <1>2, HeardReflexive
<1>3. CASE m \in Msgs /\ comms' # comms
  <2>1. comms[m] \in Message /\ Holding(workers, w, m) /\ m # None
    BY <1>1, <1>3, TableStep, MessageAssumption DEF Holding
  <2>2. CASE Settle(w)
    <3> DEFINE new == Settled(comms[m], workers[w].result, workers[w].turn)
               c == [comms EXCEPT ![m] = new]
    <3>1. new \in Message
      BY <1>1, <2>1, FieldType, DeliveredType, ConstantTypes DEF Settled
    <3>2. /\ new.replyTo = comms[m].replyTo /\ new.status = comms[m].status
          /\ new.attempts = comms[m].attempts
          /\ new.delivery \in {"queued", "failed", "delivered"}
      BY <2>1 DEF Settled, Delivered, Message
    <3>3. c \in Table /\ c[m] = new
      <4> HIDE DEF new
      <4> QED BY <1>3, <3>1, TableStep DEF Table
    <3>4. comms' = Answered(c, m)
      BY <1>3, <2>1, <2>2 DEF Settle
    <3>5. new.delivery # "delivered" => comms' = c
      <4> HIDE DEF new
      <4> QED BY <3>3, <3>4 DEF Answered
    <3>6. QED
      <4> HIDE DEF new
      <4> QED BY <1>3, <2>1, <3>1, <3>2, <3>4, <3>5, ReleaseHeard
  <2>3. CASE SteerSettled(w)
    <3> DEFINE new == Delivered(comms[m], "turn_steer", workers[w].turn)
    <3>1. new \in Message
      BY <1>1, <2>1, DeliveredType
    <3>2. /\ new.replyTo = comms[m].replyTo /\ new.status = comms[m].status
          /\ new.attempts = comms[m].attempts /\ new.delivery = "delivered"
      BY <2>1 DEF Delivered, Message
    <3>3. comms' = Answered([comms EXCEPT ![m] = new], m)
      BY <2>3 DEF SteerSettled
    <3>4. QED
      <4> HIDE DEF new
      <4> QED BY <1>3, <2>1, <3>1, <3>2, <3>3, ReleaseHeard
  <2>4. CASE SteerDeferred(w)
    <3> DEFINE new == [comms[m] EXCEPT !.delivery = "queued"]
    <3>1. /\ new \in Message
          /\ new.replyTo = comms[m].replyTo /\ new.status = comms[m].status
          /\ new.attempts = comms[m].attempts /\ new.delivery = "queued"
      BY <2>1, Redirected, ConstantTypes
    <3>2. comms' = [comms EXCEPT ![m] = new]
      BY <2>4 DEF SteerDeferred
    <3>3. QED
      <4> HIDE DEF new
      <4> QED BY <1>3, <2>1, <3>1, <3>2, ReleaseHeard
  <2>5. QED BY <2>2, <2>3, <2>4
<1>4. CASE m \notin Msgs
  <2>1. Settle(w) /\ m = None
    BY <1>1, <1>4
  <2>2. QED BY <1>2, <2>1 DEF Settle
<1>5. QED BY <1>2, <1>3, <1>4

(* Steps that keep the answers, and the arrival of every reply.               *)
LEMMA SameHeard ==
  ASSUME NEW c \in Table, NEW d,
         \A m \in Msgs : /\ d[m].replyTo = c[m].replyTo /\ d[m].status = c[m].status
                         /\ d[m].delivery = "absent" <=> c[m].delivery = "absent"
                         /\ c[m].replyTo # None => (Arrived(d[m]) <=> Arrived(c[m]))
  PROVE  Heard(c, d)
<1>1. Advances(c, d)
  BY DEF Advances
<1>2. QED BY <1>1, NewlyArrived

(* Claims, the queue of an archived Agent, Retry and Continue.                 *)
LEMMA QueueHeard ==
  ASSUME TypeOK, SafetyInv,
         \/ \E w \in Workers, a \in Agents, m \in Msgs : ClaimNext(w, a, m) \/ ClaimSteer(w, a, m)
         \/ \E a \in Agents : FailQueued(a)
         \/ \E m \in Msgs : RetryMessage(m) \/ \E a \in Agents : ContinueInterrupted(a, m)
  PROVE  Heard(comms, comms')
<1>1. comms \in Table
  BY DEF TypeOK, LedgerOK, Table
<1>2. CASE \E w \in Workers, a \in Agents, m \in Msgs : ClaimNext(w, a, m) \/ ClaimSteer(w, a, m)
  <2>0. PICK w \in Workers, a \in Agents, m \in Msgs : ClaimNext(w, a, m) \/ ClaimSteer(w, a, m)
    BY <1>2
  <2>1. /\ comms' = [comms EXCEPT ![m].delivery = "delivering"]
        /\ comms[m].delivery = "queued"
    <3>1. CASE ClaimNext(w, a, m)
      <4>1. m \in Startable(a)
        BY <3>1 DEF ClaimNext, First
      <4>2. comms[m].delivery = "queued"
        BY <4>1 DEF Startable, Queued
      <4>3. comms' = [comms EXCEPT ![m].delivery = "delivering"]
        BY <3>1 DEF ClaimNext
      <4>4. QED BY <4>2, <4>3
    <3>2. CASE ClaimSteer(w, a, m)
      <4>1. m \in Steerable(a)
        BY <3>2 DEF ClaimSteer, First
      <4>2. comms[m].delivery = "queued"
        BY <4>1 DEF Steerable, Queued
      <4>3. comms' = [comms EXCEPT ![m].delivery = "delivering"]
        BY <3>2 DEF ClaimSteer
      <4>4. QED BY <4>2, <4>3
    <3>3. QED BY <2>0, <3>1, <3>2
  <2> DEFINE new == [comms[m] EXCEPT !.delivery = "delivering"]
  <2>2. comms' = [comms EXCEPT ![m] = new]
    BY <2>1
  <2>3. /\ new.replyTo = comms[m].replyTo /\ new.status = comms[m].status
        /\ new.attempts = comms[m].attempts /\ new.delivery = "delivering"
    BY TableStep, Redirected, ConstantTypes
  <2> HIDE DEF new
  <2>4. /\ new.delivery = "absent" <=> comms[m].delivery = "absent"
        /\ Arrived(new) <=> Arrived(comms[m])
    BY <2>1, <2>3 DEF Arrived
  <2>5. Heard(comms, [comms EXCEPT ![m] = new])
    BY <1>1, <2>3, <2>4, RecordHeard
  <2>6. QED BY <2>2, <2>5
<1>3. CASE \E a \in Agents : FailQueued(a)
  <2>1. ASSUME NEW m \in Msgs
        PROVE  \/ comms'[m] = comms[m]
               \/ /\ comms[m].delivery = "queued"
                  /\ comms'[m] = [comms[m] EXCEPT !.delivery = "failed"]
    BY <1>3 DEF FailQueued, Queued
  <2>2. ASSUME NEW m \in Msgs
        PROVE  /\ comms'[m].replyTo = comms[m].replyTo /\ comms'[m].status = comms[m].status
               /\ comms'[m].delivery = "absent" <=> comms[m].delivery = "absent"
               /\ Arrived(comms'[m]) <=> Arrived(comms[m])
    <3>1. CASE comms'[m] = comms[m]
      BY <3>1
    <3>2. CASE comms'[m] # comms[m]
      <4> DEFINE new == [comms[m] EXCEPT !.delivery = "failed"]
      <4>1. /\ new.replyTo = comms[m].replyTo /\ new.status = comms[m].status
            /\ new.attempts = comms[m].attempts /\ new.delivery = "failed"
        BY TableStep, Redirected, ConstantTypes
      <4>2. comms'[m] = new /\ comms[m].delivery = "queued"
        BY <2>1, <3>2
      <4> HIDE DEF new
      <4>3. QED BY <4>1, <4>2 DEF Arrived
    <3>3. QED BY <3>1, <3>2
  <2>3. QED BY <1>1, <2>2, SameHeard
<1>4. CASE \E m \in Msgs : RetryMessage(m) \/ \E a \in Agents : ContinueInterrupted(a, m)
  <2>1. PICK m \in Msgs : RetryMessage(m) \/ \E a \in Agents : ContinueInterrupted(a, m)
    BY <1>4
  <2>2. /\ comms' = [comms EXCEPT ![m] = Requeued(@)] /\ Known(m)
        /\ comms[m].replyTo = None
    BY <2>1 DEF RetryMessage, ContinueInterrupted, HeldMessages, First, SafetyInv, Sound,
                ClosedReplies
  <2>3. /\ \A n \in Msgs \ {m} : comms'[n] = comms[n]
        /\ comms'[m].replyTo = comms[m].replyTo /\ comms'[m].status = comms[m].status
        /\ comms'[m].delivery = "queued"
    BY <2>2, RequeuedRecord
  <2>4. \A n \in Msgs :
          /\ comms'[n].replyTo = comms[n].replyTo /\ comms'[n].status = comms[n].status
          /\ comms'[n].delivery = "absent" <=> comms[n].delivery = "absent"
          /\ comms[n].replyTo # None => (Arrived(comms'[n]) <=> Arrived(comms[n]))
    BY <2>2, <2>3 DEF Known
  <2>5. QED BY <1>1, <2>4, SameHeard
<1>5. QED BY <1>2, <1>3, <1>4

(* CodexHost exits: a Turn that had begun had delivered its reply already.     *)
LEMMA HostExitHeard ==
  ASSUME TypeOK, SafetyInv, TurnsInv, OrderInv, HostExit
  PROVE  Heard(comms, comms')
<1>1. comms \in Table /\ ClosedReplies(comms) /\ "interrupted" \in Outcome
  BY DEF TypeOK, LedgerOK, Table, SafetyInv, Sound, Outcome
<1>2. ASSUME NEW m \in Msgs
      PROVE  /\ comms'[m].replyTo = comms[m].replyTo /\ comms'[m].status = comms[m].status
             /\ comms'[m].delivery = "absent" <=> comms[m].delivery = "absent"
             /\ comms[m].replyTo # None => (Arrived(comms'[m]) <=> Arrived(comms[m]))
  <2> DEFINE a == comms[m].to
             o == TurnOf(a)
             d == Ended(comms, o, "interrupted")
  <2>1. CASE ~(a \in Agents /\ Live(a) /\ o.msg = m)
    BY <2>1 DEF HostExit
  <2>2. CASE a \in Agents /\ Live(a) /\ o.msg = m
    <3>1. comms'[m] = d[m]
      BY <2>2 DEF HostExit
    <3>2. o \in Turn /\ active[a] \in Slots /\ o = turns[active[a]]
      BY <2>2, LiveTurnType DEF TurnOf
    <3>3. Standing(active[a])
      BY <2>2, <3>2 DEF TurnsInv, Placed, Standing, Live, TurnOf
    <3>4. comms[m].replyTo # None /\ o.id # 0 => comms[m].delivery # "delivering"
      BY <2>2, <3>2, <3>3 DEF OrderInv, Kept, Early, Calm
    <3> HIDE DEF o
    <3>5. Progress(comms, d) /\ SameAnswer(comms[m], d[m])
      BY <1>1, <2>2, <3>2, EndedProgress, EndedOwn DEF ClosedReplies
    <3>6. PICK c \in Table :
            /\ \/ c = comms
               \/ o.id # 0 /\ comms[o.msg].delivery = "delivering"
            /\ \/ d = c
               \/ \E new \in Message : d = [c EXCEPT ![o.msg] = new] /\ Closing(c[o.msg], new)
      BY <1>1, <3>2, EndedRecord
    <3>7. comms[m].replyTo # None => (Arrived(d[m]) => Arrived(comms[m]))
      <4>1. ASSUME comms[m].replyTo # None PROVE c = comms
        BY <2>2, <3>4, <3>6, <4>1
      <4>2. d = c \/ Closing(c[m], d[m])
        BY <2>2, <3>6 DEF Table
      <4>3. QED BY <4>1, <4>2 DEF Closing
    <3>8. Advances(comms, d)
      BY <3>5, ProgressAdvances
    <3> HIDE DEF d
    <3>9. QED BY <3>1, <3>5, <3>7, <3>8 DEF Advances, SameAnswer
  <2>3. QED BY <2>1, <2>2
<1>3. QED BY <1>1, <1>2, SameHeard

(* Startup takes back no arrival, and its reconciliation finds nothing that    *)
(* the deliveries had not answered.                                           *)
LEMMA ReopenHeard ==
  ASSUME TypeOK, Crash \/ Restart
  PROVE  Heard(comms, comms')
<1>1. comms \in Table /\ comms' = RecoveredComms
  BY DEF TypeOK, LedgerOK, Table, Crash, Restart, Reopen
<1>2. ASSUME NEW m \in Msgs
      PROVE  /\ StartTable[m].replyTo = comms[m].replyTo
             /\ StartTable[m].delivery = "absent" <=> comms[m].delivery = "absent"
             /\ Arrived(StartTable[m]) <=> Arrived(comms[m])
             /\ \/ StartTable[m].status = comms[m].status
                \/ /\ comms[m].status = "open" /\ StartTable[m].status = "answered"
                   /\ \E r \in Msgs : comms[r].replyTo = m /\ Arrived(comms[r])
  <2>1. /\ StartTable[m].replyTo = comms[m].replyTo
        /\ StartTable[m].attempts = comms[m].attempts
        /\ StartTable[m].delivery = IF comms[m].delivery = "delivering" THEN "queued"
                                    ELSE comms[m].delivery
        /\ \/ StartTable[m].status = comms[m].status
           \/ /\ comms[m].status = "open" /\ StartTable[m].status = "answered"
              /\ \E r \in Msgs : comms[r].replyTo = m /\ comms[r].delivery = "delivered"
    BY StartRecord
  <2>2. QED BY <2>1 DEF Arrived
<1>3. ASSUME NEW m \in Msgs
      PROVE  /\ comms'[m].replyTo = StartTable[m].replyTo
             /\ comms'[m].status = StartTable[m].status
             /\ comms'[m].delivery = "absent" <=> StartTable[m].delivery = "absent"
             /\ Arrived(comms'[m]) <=> Arrived(StartTable[m])
  <2>1. comms'[m] = StartTable[m] \/ Closing(StartTable[m], comms'[m])
    BY <1>1, RecoveredRecord
  <2>2. CASE Closing(StartTable[m], comms'[m])
    <3>1. Arrived(StartTable[m]) => Arrived(comms'[m])
      BY <2>2, ArrivedStays DEF Closing
    <3>2. Arrived(comms'[m]) => Arrived(StartTable[m])
      BY <2>2 DEF Closing
    <3>3. QED BY <2>2, <3>1, <3>2 DEF Closing, Advanced, SameAnswer, Touched
  <2>3. QED BY <2>1, <2>2
<1>4. Advances(comms, comms')
  BY <1>2, <1>3 DEF Advances
<1>5. \A m \in Msgs : Arrived(comms'[m]) => Arrived(comms[m])
  BY <1>2, <1>3
<1>6. QED BY <1>1, <1>4, <1>5, NewlyArrived

----------------------------------------------------------------------------
(* The refinement.                                                            *)

(* What the Agents hear of a step of delivery is that some replies arrived.    *)
LEMMA HeardReaches ==
  ASSUME TypeOK, ArrivedAnswers(comms), Heard(comms, comms')
  PROVE  \E S \in SUBSET Msgs : Ledger!Reach(S)
<1> DEFINE S == {r \in Msgs : comms'[r].replyTo # None /\ Arrived(comms'[r])}
<1>1. Advances(comms, comms') /\ ArrivedAnswers(comms')
  BY DEF Heard
<1>2. ASSUME NEW m \in Msgs
      PROVE  /\ comms'[m].replyTo = comms[m].replyTo
             /\ comms'[m].delivery = "absent" <=> comms[m].delivery = "absent"
             /\ comms[m].replyTo # None /\ Arrived(comms[m]) => Arrived(comms'[m])
  BY <1>1 DEF Advances
<1>3. {r \in Msgs : comms'[r].replyTo # None /\ Reached(r)'}
        = {r \in Msgs : comms[r].replyTo # None /\ Reached(r)} \cup S
  BY <1>2 DEF Reached, Arrived
<1>4. [m \in Msgs |-> comms'[m].replyTo] = [m \in Msgs |-> comms[m].replyTo]
  BY <1>2
<1>5. \A r \in S : comms[r].replyTo # None
  BY <1>2
<1>6. ASSUME NEW m \in Msgs
      PROVE  (IF Known(m)' THEN comms'[m].status ELSE "unused")
             = (IF /\ (IF Known(m) THEN comms[m].status ELSE "unused") = "open"
                   /\ \E r \in S : comms[r].replyTo = m
                THEN "answered" ELSE IF Known(m) THEN comms[m].status ELSE "unused")
  <2>1. Known(m)' <=> Known(m)
    BY <1>2 DEF Known
  <2>2. CASE comms[m].status = "open" /\ \E r \in S : comms[r].replyTo = m
    <3>1. comms'[m].status # "open"
      BY <1>1, <1>2, <2>2 DEF ArrivedAnswers
    <3>2. comms'[m].status = "answered"
      BY <1>1, <2>2, <3>1 DEF Advances
    <3>3. QED BY <2>1, <2>2, <3>2
  <2>3. CASE comms[m].status = "open" /\ ~\E r \in S : comms[r].replyTo = m
    <3>1. ~\E r \in Msgs : comms[r].replyTo = m /\ Arrived(comms'[r])
      BY <1>2, <2>3, MessageAssumption
    <3>2. comms'[m].status = comms[m].status
      BY <1>1, <3>1 DEF Advances
    <3>3. QED BY <2>1, <2>3, <3>2
  <2>4. CASE comms[m].status # "open"
    <3>1. comms'[m].status = comms[m].status
      BY <1>1, <2>4 DEF Advances
    <3>2. QED BY <2>1, <2>4, <3>1
  <2>5. QED BY <2>2, <2>3, <2>4
<1>7. S \in SUBSET Msgs
  OBVIOUS
<1> HIDE DEF S
<1>8. Ledger!Reach(S)
  BY <1>3, <1>4, <1>5, <1>6, <1>7 DEF Ledger!Reach, Ledger!After
<1>9. QED BY <1>7, <1>8 DEF Ledger!Reach

(* A new request.                                                             *)
LEMMA CreateSends ==
  ASSUME TypeOK, SafetyInv, SteerInv, ArrivedAnswers(comms), NEW m \in Msgs, NEW route \in Routes,
         CreateMessage(m, route.from, route.to, route.response)
  PROVE  Ledger!Send(m) /\ ArrivedAnswers(comms')
<1> DEFINE new == NewRequest(route.from, route.to, route.response, SourceTurn(route.from))
<1>1. /\ comms[m].delivery = "absent" /\ comms[m].replyTo = None
      /\ comms' = [comms EXCEPT ![m] = new]
      /\ \A r \in Msgs : comms[r].replyTo # m
  BY MessageAssumption DEF CreateMessage, Known, SafetyInv, Sound, Unused, SteerInv
<1>2. /\ new.delivery = "queued" /\ new.replyTo = None /\ new.attempts = <<>>
      /\ new.status \in {"open", "closed"}
  BY DEF NewRequest, NoMessage
<1> HIDE DEF new
<1>3. comms'[m] = new /\ \A n \in Msgs \ {m} : comms'[n] = comms[n]
  BY <1>1 DEF TypeOK, LedgerOK
<1>4. ~Known(m) /\ Known(m)' /\ \A n \in Msgs \ {m} : Known(n)' <=> Known(n)
  BY <1>1, <1>2, <1>3 DEF Known
<1>5. [n \in Msgs |-> IF Known(n)' THEN comms'[n].status ELSE "unused"]
        = [[n \in Msgs |-> IF Known(n) THEN comms[n].status ELSE "unused"]
             EXCEPT ![m] = new.status]
  BY <1>3, <1>4
<1>6. [n \in Msgs |-> comms'[n].replyTo] = [n \in Msgs |-> comms[n].replyTo]
  BY <1>1, <1>2, <1>3
<1>7. {r \in Msgs : comms'[r].replyTo # None /\ Reached(r)'}
        = {r \in Msgs : comms[r].replyTo # None /\ Reached(r)}
  BY <1>1, <1>2, <1>3 DEF Reached
<1>8. Ledger!Send(m)
  BY <1>2, <1>4, <1>5, <1>6, <1>7 DEF Ledger!Send
<1>9. ArrivedAnswers(comms')
  <2> SUFFICES ASSUME NEW r \in Msgs, comms'[r].replyTo # None, Arrived(comms'[r])
               PROVE  comms'[comms'[r].replyTo].status # "open"
    BY DEF ArrivedAnswers
  <2>1. r # m /\ comms'[r] = comms[r]
    BY <1>2, <1>3
  <2>2. comms[r].replyTo \in Msgs \ {m}
    BY <1>1, <2>1 DEF TypeOK, LedgerOK, Message
  <2>3. QED BY <1>3, <2>1, <2>2 DEF ArrivedAnswers
<1>10. QED BY <1>8, <1>9

(* One side closes a request, or repeats that it is closed.                    *)
LEMMA CloseCloses ==
  ASSUME TypeOK, SafetyInv, ArrivedAnswers(comms), NEW m \in Msgs,
         CancelMessage(m) \/ ResolveMessage(m) \/ NoReplyMessage(m)
  PROVE  (Ledger!Close(m) \/ Heard(comms, comms')) /\ ArrivedAnswers(comms')
<1>1. /\ Known(m) /\ comms[m].replyTo = None /\ comms[m].status # "answered"
  BY DEF CancelMessage, ResolveMessage, NoReplyMessage, SafetyInv, Sound, ClosedReplies
<1>2. comms \in Table /\ comms[m] \in Message
  BY DEF TypeOK, LedgerOK, Table
<1>3. comms'[m] \in {Withdrawn(comms[m], "cancelled"), Withdrawn(comms[m], "superseded"),
                     Closed(comms[m], "no_reply")}
      /\ \A n \in Msgs \ {m} : comms'[n] = comms[n]
  BY DEF CancelMessage, ResolveMessage, NoReplyMessage, TypeOK, LedgerOK
<1>4. /\ comms'[m].replyTo = comms[m].replyTo /\ comms'[m].status = "closed"
      /\ comms'[m].delivery = "absent" <=> comms[m].delivery = "absent"
  BY <1>2, <1>3 DEF Withdrawn, Closed, Unsent, Message
<1>5. ASSUME comms[m].status = "open" PROVE Ledger!Close(m)
  <2>1. \A n \in Msgs : Known(n)' <=> Known(n)
    BY <1>3, <1>4 DEF Known
  <2>2. [n \in Msgs |-> IF Known(n)' THEN comms'[n].status ELSE "unused"]
          = [[n \in Msgs |-> IF Known(n) THEN comms[n].status ELSE "unused"]
               EXCEPT ![m] = "closed"]
    BY <1>1, <1>3, <1>4, <2>1
  <2>3. [n \in Msgs |-> comms'[n].replyTo] = [n \in Msgs |-> comms[n].replyTo]
    BY <1>3, <1>4
  <2>4. {r \in Msgs : comms'[r].replyTo # None /\ Reached(r)'}
          = {r \in Msgs : comms[r].replyTo # None /\ Reached(r)}
    BY <1>1, <1>3, <1>4 DEF Reached
  <2>5. QED BY <1>1, <1>5, <2>2, <2>3, <2>4 DEF Ledger!Close
<1>6. ASSUME comms[m].status # "open" PROVE Heard(comms, comms')
  <2>1. comms[m].status = "closed"
    BY <1>1, <1>2, <1>6 DEF Message
  <2>2. \A n \in Msgs :
          /\ comms'[n].replyTo = comms[n].replyTo /\ comms'[n].status = comms[n].status
          /\ comms'[n].delivery = "absent" <=> comms[n].delivery = "absent"
          /\ comms[n].replyTo # None => (Arrived(comms'[n]) <=> Arrived(comms[n]))
    BY <1>1, <1>3, <1>4, <2>1
  <2>3. QED BY <1>2, <2>2, SameHeard
<1>7. ASSUME NEW r \in Msgs, comms'[r].replyTo # None, Arrived(comms'[r])
      PROVE  comms'[comms'[r].replyTo].status # "open"
  <2>1. comms'[r] = comms[r] /\ comms[r].replyTo \in Msgs
    BY <1>1, <1>3, <1>4, <1>7 DEF TypeOK, LedgerOK, Message
  <2>2. comms[comms[r].replyTo].status # "open"
    BY <1>7, <2>1 DEF ArrivedAnswers
  <2>3. QED BY <1>3, <1>4, <2>1, <2>2
<1>8. QED BY <1>5, <1>6, <1>7 DEF ArrivedAnswers

(* A reply is written; one to the Scheduler arrives at once.                   *)
LEMMA ReplyReplies ==
  ASSUME TypeOK, SafetyInv, SteerInv, ArrivedAnswers(comms), NEW r \in Msgs, NEW m \in Msgs,
         ReplyMessage(r, m)
  PROVE  Ledger!Reply(r, m) /\ ArrivedAnswers(comms')
<1> DEFINE source == IF comms[m].from = Scheduler THEN 0 ELSE SourceTurn(comms[m].to)
           new == NewReply(m, comms[m], source)
           next == [comms EXCEPT ![r] = new]
           root == comms[m]
           done == [root EXCEPT !.status = "answered", !.resolution = "reply"]
           S == IF new.delivery = "delivered" THEN {r} ELSE {}
<1>1. /\ comms[r].delivery = "absent" /\ comms[r].replyTo = None
      /\ comms' = Answered(next, r)
      /\ Known(m) /\ m # r /\ root.status = "open" /\ root \in Message
      /\ \A n \in Msgs : comms[n].replyTo # r
  BY MessageAssumption DEF ReplyMessage, Repliable, Known, SafetyInv, Sound, Unused, SteerInv,
                           TypeOK, LedgerOK
<1>2. /\ new.delivery \in {"queued", "delivered"} /\ new.replyTo = m /\ new.attempts = <<>>
      /\ new.status = "closed"
  BY DEF NewReply, NoMessage
<1> HIDE DEF new
<1>3. /\ next[r] = new /\ \A n \in Msgs \ {r} : next[n] = comms[n]
      /\ DOMAIN next = Msgs /\ m # None
  BY MessageAssumption DEF TypeOK, LedgerOK
<1> HIDE DEF next, root
<1>4. /\ \A n \in Msgs \ {r, m} : comms'[n] = comms[n]
      /\ comms'[r] = new
      /\ new.delivery = "delivered" => comms'[m] = done
      /\ new.delivery # "delivered" => comms'[m] = root
  <2>1. next[m] = root
    BY <1>1, <1>3 DEF root
  <2>2. CASE new.delivery = "delivered"
    <3>1. comms' = [next EXCEPT ![m].status = "answered", ![m].resolution = "reply"]
      BY <1>1, <1>2, <1>3, <2>1, <2>2 DEF Answered
    <3>2. QED BY <1>1, <1>3, <2>1, <2>2, <3>1
  <2>3. CASE new.delivery # "delivered"
    <3>1. comms' = next
      BY <1>1, <1>3, <2>3 DEF Answered
    <3>2. QED BY <1>1, <1>3, <2>1, <2>3, <3>1
  <2>4. QED BY <2>2, <2>3
<1>5. /\ done.status = "answered" /\ done.replyTo = root.replyTo
      /\ done.delivery = root.delivery /\ done.attempts = root.attempts
  BY <1>1 DEF Message
<1>6. /\ comms'[m].replyTo = comms[m].replyTo
      /\ comms'[m].delivery = comms[m].delivery /\ comms'[m].attempts = comms[m].attempts
      /\ comms'[m].status = (IF new.delivery = "delivered" THEN "answered" ELSE "open")
  <2> HIDE DEF done
  <2>1. comms'[m] = done \/ comms'[m] = root
    BY <1>4
  <2>2. QED BY <1>1, <1>4, <1>5, <2>1 DEF root
<1> HIDE DEF done
<1>7. ~Known(r) /\ Known(r)' /\ \A n \in Msgs \ {r} : Known(n)' <=> Known(n)
  BY <1>1, <1>2, <1>4, <1>6 DEF Known
<1>8. [n \in Msgs |-> comms'[n].replyTo] = [[n \in Msgs |-> comms[n].replyTo] EXCEPT ![r] = m]
  BY <1>2, <1>4, <1>6
<1>9. {n \in Msgs : comms'[n].replyTo # None /\ Reached(n)'}
        = {n \in Msgs : comms[n].replyTo # None /\ Reached(n)} \cup S
  <2>1. Reached(r)' <=> new.delivery = "delivered"
    BY <1>2, <1>4 DEF Reached
  <2>2. \A n \in Msgs \ {r} : (comms'[n].replyTo # None /\ Reached(n)')
                              <=> (comms[n].replyTo # None /\ Reached(n))
    BY <1>4, <1>6 DEF Reached
  <2>3. comms'[r].replyTo # None /\ comms[r].replyTo = None
    BY <1>1, <1>2, <1>3, <1>4
  <2>4. QED BY <2>1, <2>2, <2>3
<1> DEFINE st == [[n \in Msgs |-> IF Known(n) THEN comms[n].status ELSE "unused"]
                    EXCEPT ![r] = "closed"]
<1>10. ASSUME NEW n \in Msgs
       PROVE  (IF Known(n)' THEN comms'[n].status ELSE "unused")
              = (IF st[n] = "open" /\ \E k \in S : comms'[k].replyTo = n
                 THEN "answered" ELSE st[n])
  <2>1. CASE n = r
    BY <1>1, <1>2, <1>4, <1>7, <2>1
  <2>2. CASE n = m
    <3>1. st[n] = "open" /\ Known(n)'
      BY <1>1, <1>7, <2>2 DEF root
    <3>2. (\E k \in S : comms'[k].replyTo = n) <=> new.delivery = "delivered"
      BY <1>2, <1>4, <2>2
    <3>3. QED BY <1>6, <2>2, <3>1, <3>2
  <2>3. CASE n # r /\ n # m
    <3>1. ~\E k \in S : comms'[k].replyTo = n
      BY <1>2, <1>4, <2>3
    <3>2. st[n] = IF Known(n)' THEN comms'[n].status ELSE "unused"
      BY <1>4, <1>7, <2>3
    <3>3. QED BY <3>1, <3>2
  <2>4. QED BY <2>1, <2>2, <2>3
<1>11. S \in SUBSET {r}
  OBVIOUS
<1> HIDE DEF S
<1>12. [n \in Msgs |-> IF Known(n)' THEN comms'[n].status ELSE "unused"]
         = Ledger!After(st, [n \in Msgs |-> comms'[n].replyTo], S)
  <2> HIDE DEF st
  <2>1. \A k \in S : k \in Msgs
    BY <1>11
  <2>2. QED BY <1>10, <2>1 DEF Ledger!After
<1>13. Ledger!Reply(r, m)
  <2>1. ~Known(r) /\ Known(m) /\ comms[m].status = "open"
    BY <1>1, <1>7 DEF root
  <2>2. QED BY <1>8, <1>9, <1>11, <1>12, <2>1 DEF Ledger!Reply
<1>14. ArrivedAnswers(comms')
  <2> SUFFICES ASSUME NEW k \in Msgs, comms'[k].replyTo # None, Arrived(comms'[k])
               PROVE  comms'[comms'[k].replyTo].status # "open"
    BY DEF ArrivedAnswers
  <2>1. CASE k = r
    BY <1>2, <1>4, <1>6, <2>1 DEF Arrived
  <2>2. CASE k # r
    <3>1. comms'[k].replyTo = comms[k].replyTo /\ Arrived(comms[k])
      BY <1>4, <1>6, <2>2 DEF Arrived
    <3>2. comms[k].replyTo \in Msgs \ {r} /\ comms[comms[k].replyTo].status # "open"
      BY <1>1, <3>1 DEF ArrivedAnswers, TypeOK, LedgerOK, Message
    <3>3. comms[k].replyTo # m
      BY <1>1, <3>2 DEF root
    <3>4. QED BY <1>4, <3>1, <3>2, <3>3
  <2>3. QED BY <2>1, <2>2
<1>15. QED BY <1>13, <1>14

(* Every step of delivery is one of the ledger's.                             *)
Follows == Ledger!LedgerNext /\ ArrivedAnswers(comms')

LEMMA HeardFollows ==
  ASSUME TypeOK, ArrivedAnswers(comms), Heard(comms, comms')
  PROVE  Follows
<1>1. \E S \in SUBSET Msgs : Ledger!Reach(S)
  BY HeardReaches
<1>2. Ledger!LedgerNext
  BY <1>1 DEF Ledger!LedgerNext
<1>3. QED BY <1>2 DEF Follows, Heard

LEMMA QuietFollows ==
  ASSUME TypeOK, ArrivedAnswers(comms), UNCHANGED comms
  PROVE  Follows
BY HeardReflexive, HeardFollows

LEMMA NextFollows ==
  ASSUME OrderedState, ArrivedAnswers(comms), [Next]_vars
  PROVE  Follows
<1> USE DEF OrderedState, TurnOrder
<1>1. CASE Commands
  <2>1. CASE \E m \in Msgs, route \in Routes :
               CreateMessage(m, route.from, route.to, route.response)
    BY <2>1, CreateSends DEF Follows, Ledger!LedgerNext
  <2>2. CASE \E r, m \in Msgs : ReplyMessage(r, m)
    BY <2>2, ReplyReplies DEF Follows, Ledger!LedgerNext
  <2>3. CASE \E m \in Msgs : CancelMessage(m) \/ ResolveMessage(m) \/ NoReplyMessage(m)
    <3>1. PICK m \in Msgs : CancelMessage(m) \/ ResolveMessage(m) \/ NoReplyMessage(m)
      BY <2>3
    <3>2. (Ledger!Close(m) \/ Heard(comms, comms')) /\ ArrivedAnswers(comms')
      BY <3>1, CloseCloses
    <3>3. CASE Ledger!Close(m)
      BY <3>2, <3>3 DEF Follows, Ledger!LedgerNext
    <3>4. QED BY <3>2, <3>3, HeardFollows
  <2>4. CASE \/ \E m \in Msgs : RetryMessage(m)
             \/ \E a \in Agents, m \in Msgs : ContinueInterrupted(a, m)
    <3>1. Heard(comms, comms')
      BY <2>4, QueueHeard
    <3>2. QED BY <3>1, HeardFollows
  <2>5. CASE \E a \in Agents : Interrupt(a)
    <3>1. Heard(comms, comms')
      BY <2>5, AgentActs, AgentTables DEF TurnsInv
    <3>2. QED BY <3>1, HeardFollows
  <2>6. CASE \/ \E w \in Workers, a \in Agents : OwnerTask(w, a)
             \/ \E a \in Agents : ArchiveAgent(a) \/ DismissInterrupted(a)
             \/ BeginDrain \/ CancelDrain \/ Shutdown
    <3>1. UNCHANGED comms
      BY <2>6 DEF OwnerTask, ArchiveAgent, DismissInterrupted, BeginDrain, CancelDrain, Shutdown
    <3>2. QED BY <3>1, QuietFollows
  <2>7. QED BY <1>1, <2>1, <2>2, <2>3, <2>4, <2>5, <2>6 DEF Commands
<1>2. CASE Delivering
  <2>1. CASE \/ \E w \in Workers, a \in Agents, m \in Msgs :
                  ClaimNext(w, a, m) \/ ClaimSteer(w, a, m)
             \/ \E a \in Agents : FailQueued(a)
    <3>1. Heard(comms, comms')
      BY <2>1, QueueHeard
    <3>2. QED BY <3>1, HeardFollows
  <2>2. CASE \E w \in Workers : StartAnswered(w) \/ StartFailed(w)
    <3>1. Heard(comms, comms')
      BY <2>2, StartHeard
    <3>2. QED BY <3>1, HeardFollows
  <2>3. CASE \E w \in Workers : Settle(w) \/ SteerSettled(w) \/ SteerDeferred(w)
    <3>1. Heard(comms, comms')
      BY <2>3, SettleHeard
    <3>2. QED BY <3>1, HeardFollows
  <2>4. CASE \E w \in Workers : \/ SendRefused(w) \/ SendFailed(w) \/ ReserveTurn(w)
                                \/ SteerAccepted(w) \/ CodexAccepts(w)
    <3>1. UNCHANGED comms
      BY <2>4 DEF SendRefused, SendFailed, ReserveTurn, SteerAccepted, CodexAccepts
    <3>2. QED BY <3>1, QuietFollows
  <2>5. QED BY <1>2, <2>1, <2>2, <2>3, <2>4 DEF Delivering
<1>3. CASE Environment
  <2>1. CASE \E a \in Agents : Notify(a) \/ ForceFinish(a)
    <3>1. Heard(comms, comms')
      BY <2>1, AgentActs, AgentTables DEF TurnsInv
    <3>2. QED BY <3>1, HeardFollows
  <2>2. CASE \E a \in Agents : CodexEnds(a) \/ RemoteStart(a)
    <3>1. UNCHANGED comms
      BY <2>2 DEF CodexEnds, RemoteStart
    <3>2. QED BY <3>1, QuietFollows
  <2>3. CASE HostExit
    <3>1. Heard(comms, comms')
      BY <2>3, HostExitHeard
    <3>2. QED BY <3>1, HeardFollows
  <2>4. CASE Crash \/ Restart
    <3>1. Heard(comms, comms')
      BY <2>4, ReopenHeard
    <3>2. QED BY <3>1, HeardFollows
  <2>5. QED BY <1>3, <2>1, <2>2, <2>3, <2>4 DEF Environment
<1>4. CASE UNCHANGED vars
  <2>1. UNCHANGED comms
    BY <1>4 DEF vars
  <2>2. QED BY <2>1, QuietFollows
<1>5. QED BY <1>1, <1>2, <1>3, <1>4 DEF Next

LEMMA InitFollows == Init => ArrivedAnswers(comms) /\ Ledger!LedgerInit
<1> SUFFICES ASSUME Init PROVE ArrivedAnswers(comms) /\ Ledger!LedgerInit
  OBVIOUS
<1>1. \A m \in Msgs : comms[m] = NoMessage
  BY DEF Init
<1>2. \A m \in Msgs : /\ comms[m].replyTo = None /\ ~Known(m)
  BY <1>1 DEF NoMessage, Known
<1>3. QED BY <1>2 DEF ArrivedAnswers, Ledger!LedgerInit

(* Delivery implements the ledger: whatever is lost, renamed, superseded or    *)
(* taken up after a crash, a request is open until a reply reaches the Agent   *)
(* that asked or one side closes it, no request opens again, and a reply that  *)
(* arrived stays arrived.                                                     *)
THEOREM LedgerImplemented == Spec => ImplementsLedger
<1>1. Init => ArrivedAnswers(comms) /\ Ledger!LedgerInit
  BY InitFollows
<1>2. OrderedState /\ ArrivedAnswers(comms) /\ [Next]_vars
        => ArrivedAnswers(comms)' /\ [Ledger!LedgerNext]_(Ledger!ledger)
  BY NextFollows DEF Follows
<1>3. Spec => []OrderedState
  BY TurnOrderInvariant
<1>4. QED BY <1>1, <1>2, <1>3, PTL DEF Spec, ImplementsLedger, Ledger!LedgerSpec
=============================================================================
