----------------------------- MODULE ThreadFeed -----------------------------
(***************************************************************************)
(* web/src/feed.ts: how one pane turns the events of an Agent's Thread,    *)
(* the pages of its history and the published artifacts into the blocks it *)
(* shows.  Operators only: the pane that feeds them is AgentThread.        *)
(*                                                                         *)
(* A block keeps what ordering and identity depend on; its text is the     *)
(* number of pieces of the item it shows.  "open" is "streaming" of an     *)
(* agent block and "not done" of a thinking block.                         *)
(***************************************************************************)
EXTENDS Integers, Sequences, FiniteSets, SequencesExt

NoTime == 0

Block(kind, id, ts, text, open) ==
  [kind |-> kind, id |-> id, ts |-> ts, text |-> text, open |-> open]

emptyFeed == [blocks |-> <<>>, index |-> [k \in {} |-> 0], approvals |-> {}, approvalsSeq |-> -1]

Known(feed, key) == key \in DOMAIN feed.index

push(feed, block) == [feed EXCEPT !.blocks = Append(@, block)]

PushKeyed(feed, block, key) ==
  [feed EXCEPT !.blocks = Append(@, block),
               !.index = [k \in DOMAIN @ \cup {key} |-> IF k = key THEN Len(feed.blocks) + 1 ELSE @[k]]]

\* The block of a key, replaced by Change of it when it is of the kind expected.
update(feed, key, kind, Change(_)) ==
  IF Known(feed, key) /\ feed.blocks[feed.index[key]].kind = kind
    THEN [feed EXCEPT !.blocks[feed.index[key]] = Change(@)]
    ELSE feed

-----------------------------------------------------------------------------
(* Artifacts among the trajectory.                                         *)

\* The members of places, which are among the first n, in their order.
InOrder(n, places) ==
  LET upto[i \in 0..n] ==
        IF i = 0 THEN <<>> ELSE IF i \in places THEN Append(upto[i - 1], i) ELSE upto[i - 1]
  IN upto[n]
PlacesOf(blocks) == {p \in DOMAIN blocks : blocks[p].kind = "artifact"}

\* Before the first later block, at the end if there is none or p has no time.
PutIn(blocks, order, p) ==
  LET later == {i \in DOMAIN order : blocks[p].ts # NoTime /\ blocks[order[i]].ts > blocks[p].ts}
  IN IF later = {} THEN Append(order, p)
     ELSE InsertAt(order, CHOOSE i \in later : \A j \in later : i <= j, p)

\* Of the artifacts left the earliest, those without a time last.
Earliest(blocks, left) ==
  LET timed == {p \in left : blocks[p].ts # NoTime}
      first == IF timed = {} THEN left ELSE timed
  IN CHOOSE p \in first : \A q \in first :
       blocks[p].ts < blocks[q].ts \/ (blocks[p].ts = blocks[q].ts /\ p <= q)

\* The order in which the blocks are shown, as positions in "blocks": the
\* trajectory as it is, every artifact before the first later block.
interleaveArtifacts(blocks) ==
  LET placed[n \in 0..Len(blocks)] ==
        IF n = 0 THEN InOrder(Len(blocks), DOMAIN blocks \ PlacesOf(blocks))
        ELSE LET order == placed[n - 1]
                 left == PlacesOf(blocks) \ Range(order)
             IN IF left = {} THEN order ELSE PutIn(blocks, order, Earliest(blocks, left))
  IN placed[Len(blocks)]

Arranged(blocks, order) == [i \in DOMAIN order |-> blocks[order[i]]]

\* "blocks" ends with the blocks of the feed, after "added" new ones; the index
\* follows each keyed block to its new place.
reorderBlocks(feed, blocks, added) ==
  LET order == interleaveArtifacts(blocks)
      PlaceOf(p) == CHOOSE i \in DOMAIN order : order[i] = p
  IN [feed EXCEPT !.blocks = Arranged(blocks, order),
                  !.index = [k \in DOMAIN @ |-> PlaceOf(@[k] + added)]]

-----------------------------------------------------------------------------
(* What a prompt is shown as.  A prompt has the text the model was given,  *)
(* and the context that trails it: who the Turn is from and the payload.   *)
(* A text is the sequence of the elements it is made of.                   *)

Text == "text"
NoContext == [origin |-> "none", payload |-> <<>>]

\* A single element: the parser refuses anything beside the root.
Alone(text, tag) == text = <<tag>>
Child(text, tag) == \E i \in DOMAIN text : text[i] = tag

agentMessageBlock(text) == Alone(text, "agent_message")
externalTriggerBlock(text) == Alone(text, "external_trigger")
\* Wrapped before it is parsed, so that others may stand beside it.
externalMessageBlock(text) == Child(text, "inbox_message")
topicContextBlock(text) ==
  /\ text # <<>>
  /\ text[1] \in {"loom_topic_context", "owner_topic_input", "owner_topic_intervention"}

WorkKind(text) ==
  IF topicContextBlock(text) THEN "topicContext"
  ELSE IF externalTriggerBlock(text) THEN "externalTrigger"
  ELSE IF agentMessageBlock(text) THEN "agentMessage"
  ELSE IF externalMessageBlock(text) THEN "externalMessage"
  ELSE "user"

\* The context is split off first; a payload of Loom's own work is read for
\* what it is, the Owner's Turn is read by its text.
splitTrailingLoomContext(prompt) == prompt.context # NoContext
loomManagedWorkBlock(prompt) ==
  IF splitTrailingLoomContext(prompt) /\ prompt.context.origin # "owner" /\ prompt.context.payload # <<>>
    THEN WorkKind(prompt.context.payload)
    ELSE "user"
userBlockKind(prompt) ==
  LET managed == loomManagedWorkBlock(prompt)
      whole == prompt.text \o (IF splitTrailingLoomContext(prompt) THEN <<"loom_context">> ELSE <<>>)
  IN IF managed # "user" THEN managed ELSE WorkKind(whole)

userBlock(id, ts, prompt) == Block(userBlockKind(prompt), id, ts, 1, FALSE)

-----------------------------------------------------------------------------
(* A page of history: the Turns of the rollout, oldest first.              *)

HistoryKind == [user |-> "user", answer |-> "agent", thinking |-> "think",
                command |-> "command", file_change |-> "file", image |-> "image"]

HistoryItem(item) ==
  IF item.kind = "user" THEN <<userBlock(item.id, item.ts, item.prompt)>>
  ELSE IF item.kind \in {"thinking", "image"} /\ item.text = 0 THEN <<>>
  ELSE <<Block(HistoryKind[item.kind], item.id, item.ts, item.text, FALSE)>>

HistoryTurn(turn) ==
  FlattenSeq([i \in DOMAIN turn.items |-> HistoryItem(turn.items[i])])
    \o (IF turn.usage THEN <<Block("usage", turn.id, turn.ts, 1, FALSE)>> ELSE <<>>)

buildHistoryBlocks(turns) == FlattenSeq([i \in DOMAIN turns |-> HistoryTurn(turns[i])])

-----------------------------------------------------------------------------
(* reduceFeed: one operator for each case.                                 *)

ApprovalsSnapshot(feed, seq, approvals) ==
  IF seq < feed.approvalsSeq THEN feed
  ELSE [feed EXCEPT !.approvals = approvals, !.approvalsSeq = seq]

\* Seeds an empty pane; live content that came first is kept instead.
SeedHistory(feed, turns) ==
  IF \E i \in DOMAIN feed.blocks : feed.blocks[i].kind # "sys" THEN feed
  ELSE [feed EXCEPT !.blocks = buildHistoryBlocks(turns), !.index = emptyFeed.index]

ReconcileHistory(feed, turns) ==
  LET artifacts == Arranged(feed.blocks, InOrder(Len(feed.blocks), PlacesOf(feed.blocks)))
      blocks == buildHistoryBlocks(turns) \o artifacts
  IN [feed EXCEPT !.blocks = Arranged(blocks, interleaveArtifacts(blocks)), !.index = emptyFeed.index]

\* Mutant: the index is left where it was.
PrependHistoryInPlace(feed, turns) ==
  LET blocks == buildHistoryBlocks(turns) \o feed.blocks
  IN [feed EXCEPT !.blocks = Arranged(blocks, interleaveArtifacts(blocks))]
PrependHistory(feed, turns) ==
  LET older == buildHistoryBlocks(turns)
  IN reorderBlocks(feed, older \o feed.blocks, Len(older))

HasBlock(feed, kind, id) == \E i \in DOMAIN feed.blocks : feed.blocks[i].kind = kind /\ feed.blocks[i].id = id

\* Mutant: the event is not looked up first.
ArtifactPublishedAgain(feed, artifact) == push(feed, Block("artifact", artifact.id, artifact.ts, 1, FALSE))
ArtifactPublished(feed, artifact) ==
  IF HasBlock(feed, "artifact", artifact.id) THEN feed
  ELSE push(feed, Block("artifact", artifact.id, artifact.ts, 1, FALSE))

PublishedArtifacts(feed, artifacts) ==
  LET added[i \in 0..Len(artifacts)] ==
        IF i = 0 THEN feed ELSE ArtifactPublished(added[i - 1], artifacts[i])
      next == added[Len(artifacts)]
  IN reorderBlocks(next, next.blocks, 0)

TurnUsage(feed, turn) ==
  IF ~turn.usage \/ HasBlock(feed, "usage", turn.id) THEN feed
  ELSE push(feed, Block("usage", turn.id, NoTime, 1, FALSE))

SysLine(feed, ev) == push(feed, Block("sys", ev.seq, ev.ts, 1, FALSE))

finishStreaming(feed) ==
  [feed EXCEPT !.blocks = [i \in DOMAIN @ |-> IF @[i].kind = "agent" THEN [@[i] EXCEPT !.open = FALSE] ELSE @[i]]]

UserMessage(feed, ev) == push(feed, userBlock(ev.id, ev.ts, ev.prompt))

ApprovalRequested(feed, ev) ==
  SysLine([feed EXCEPT !.approvals = @ \cup {ev.id}, !.approvalsSeq = IF ev.seq > @ THEN ev.seq ELSE @], ev)
\* Mutant: the answer does not raise the sequence the snapshots are held to.
ApprovalResolvedUnmarked(feed, ev) == SysLine([feed EXCEPT !.approvals = @ \ {ev.id}], ev)
ApprovalResolved(feed, ev) ==
  SysLine([feed EXCEPT !.approvals = @ \ {ev.id}, !.approvalsSeq = IF ev.seq > @ THEN ev.seq ELSE @], ev)

TurnEnds == {"loom/turn-completed", "loom/turn-interrupted", "loom/turn-failed", "error"}
\* Mutant: an interrupted Turn leaves its answer open.
TurnEndedOpen(feed, ev) ==
  SysLine(IF ev.type = "loom/turn-interrupted" THEN feed ELSE finishStreaming(feed), ev)
TurnEnded(feed, ev) == SysLine(finishStreaming(feed), ev)

\* A piece of an answer or of the reasoning.
StreamDelta(feed, ev) ==
  LET kind == IF ev.of = "reasoning" THEN "think" ELSE "agent"
      key == <<kind, ev.id>>
  IN IF ev.text = 0 THEN feed
     ELSE IF ~Known(feed, key) THEN PushKeyed(feed, Block(kind, ev.id, ev.ts, ev.text, TRUE), key)
     ELSE update(feed, key, kind, LAMBDA b : [b EXCEPT !.text = @ + ev.text])

\* A whole message: the end of a streamed one, or one that never streamed.
MessageItem(feed, ev) ==
  LET key == <<"agent", ev.id>>
      done == ev.type = "item/completed"
  IN IF Known(feed, key)
       THEN update(feed, key, "agent",
              LAMBDA b : [b EXCEPT !.text = IF ev.text > 0 THEN ev.text ELSE @, !.open = ~done])
     ELSE IF ~done \/ ev.text = 0 THEN feed
     ELSE IF ev.final THEN PushKeyed(feed, Block("agent", ev.id, ev.ts, ev.text, FALSE), key)
     ELSE PushKeyed(feed, Block("think", ev.id, ev.ts, ev.text, FALSE), <<"think", ev.id>>)

ReasoningItem(feed, ev) ==
  LET key == <<"think", ev.id>>
      done == ev.type = "item/completed"
  IN IF Known(feed, key)
       THEN update(feed, key, "think",
              LAMBDA b : [b EXCEPT !.text = IF ev.text > 0 THEN ev.text ELSE @, !.open = ~done])
     ELSE IF ev.text = 0 THEN feed
     ELSE PushKeyed(feed, Block("think", ev.id, ev.ts, ev.text, ~done), key)

\* Commands, file changes and images: the last event has the whole item.
WorkItem(feed, ev, kind) ==
  LET key == <<kind, ev.id>>
  IN IF kind = "image" /\ ev.text = 0 THEN feed
     ELSE IF Known(feed, key) THEN update(feed, key, kind, LAMBDA b : [b EXCEPT !.text = ev.text])
     ELSE PushKeyed(feed, Block(kind, ev.id, ev.ts, ev.text, FALSE), key)

OtherItem(feed, ev) ==
  LET key == <<"raw", ev.id>>
  IN IF ev.type # "item/completed" \/ ev.of = "userMessage" \/ Known(feed, key) THEN feed
     ELSE PushKeyed(feed, Block("raw", ev.id, ev.ts, 1, FALSE), key)

ItemEvents == {"item/started", "item/updated", "item/completed"}
WorkItems == [commandExecution |-> "command", fileChange |-> "file", imageView |-> "image"]

ItemEvent(feed, ev) ==
  CASE ev.of = "agentMessage" -> MessageItem(feed, ev)
    [] ev.of = "reasoning" -> ReasoningItem(feed, ev)
    [] ev.of \in DOMAIN WorkItems -> WorkItem(feed, ev, WorkItems[ev.of])
    [] OTHER -> OtherItem(feed, ev)

reduceFeed(feed, ev) ==
  CASE ev.type = "loom/user-message" -> UserMessage(feed, ev)
    [] ev.type = "loom/artifact-published" -> ArtifactPublished(feed, [id |-> ev.id, ts |-> ev.ts])
    [] ev.type = "loom/approval-requested" -> ApprovalRequested(feed, ev)
    [] ev.type = "loom/approval-resolved" -> ApprovalResolved(feed, ev)
    [] ev.type \in TurnEnds -> TurnEnded(feed, ev)
    [] ev.type = "loom/turn-started" -> SysLine(feed, ev)
    [] ev.type = "delta" -> StreamDelta(feed, ev)
    [] ev.type \in ItemEvents -> ItemEvent(feed, ev)
    [] OTHER -> feed
=============================================================================
