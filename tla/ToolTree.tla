------------------------------ MODULE ToolTree ------------------------------
(* The tool views of one turn in the TUI transcript (index.ts).  Stream      *)
(* events and protocol parts name tools in any order, and each may say which *)
(* tool is the parent or the child of which; a relation to a tool that has   *)
(* not been seen waits for it.  A tool view sits in one of three places: a   *)
(* block of its own, a group of consecutive information tools, or the tree   *)
(* of its parent.  Parts and messages can be removed again.  All handlers    *)
(* run to completion on one thread, so every event is one step.              *)
EXTENDS Naturals, FiniteSets, FiniteSetsExt

CONSTANTS
    Tool,        \* tool call ids
    Grouped,     \* the tools drawn in groups (isGroupedInformationTool)
    Message,     \* message ids
    NoTool, NoMessage, NoGroup,
    MaxGroups,   \* bound on the groups on the screen at once
    MaxPending   \* bound on the relations waiting at once

ASSUME ToolTreeAssumption ==
    /\ IsFiniteSet(Tool) /\ Grouped \subseteq Tool
    /\ NoTool \notin Tool /\ NoMessage \notin Message
    /\ MaxGroups \in Nat /\ MaxPending \in Nat
    /\ NoGroup \notin 1 .. MaxGroups /\ Tool \cap (1 .. MaxGroups) = {}

ToolGroup == 1 .. MaxGroups
MaybeTool == Tool \cup {NoTool}
MaybeMessage == Message \cup {NoMessage}
Block == Tool \cup ToolGroup

VARIABLE views
(* The registry of the turn and the transcript, as one record:               *)
(*   known     toolViews                                                     *)
(*   parent    parentToolCallId        nested    the flag beside it          *)
(*   children  the tree of each tool   group     the group a tool sits in    *)
(*   members   the tools of a group    blockOf   blockId                     *)
(*   blocks    the transcript's blocks, each with its message                *)
(*   current, currentMessage           the group that is still open (its     *)
(*             message is not read, and forgotten here, once none is)          *)
(*   waiting   pendingToolParents      progress  pendingToolProgress         *)
(*   partMessage  the message of the tool's part, if it has one              *)
(*             (protocolPartTools with protocolPartMessages)                   *)
(*   dropped   blocks that a message.removed, or a tool found to work in the *)
(*             background, took while tools were drawn in them (history, for *)
(*             the properties)                                               *)

EmptyViews ==
    [known |-> {}, parent |-> [t \in Tool |-> NoTool],
     nested |-> [t \in Tool |-> FALSE], children |-> [t \in Tool |-> {}],
     group |-> [t \in Tool |-> NoGroup], members |-> [g \in ToolGroup |-> {}],
     blockOf |-> [t \in Tool |-> t],
     blocks |-> [b \in {} |-> NoMessage],
     current |-> NoGroup, currentMessage |-> NoMessage,
     waiting |-> [t \in Tool |-> NoTool], progress |-> [t \in Tool |-> NoTool],
     partMessage |-> [t \in Tool |-> NoMessage],
     dropped |-> {}]

----------------------------------------------------------------------------
(* The transcript's blocks.                                                  *)

Shown(v) == DOMAIN v.blocks

AddBlock(v, b, m) ==
    [v EXCEPT !.blocks = [c \in Shown(v) \cup {b} |->
                             IF c # b THEN v.blocks[c]
                             ELSE IF m = NoMessage /\ b \in Shown(v)
                                  THEN v.blocks[b] ELSE m],
              !.dropped = @ \ {b}]

RemoveBlocks(v, B) ==
    [v EXCEPT !.blocks = [c \in Shown(v) \ B |-> v.blocks[c]], !.dropped = @ \ B]

AssociateBlock(v, b, m) ==
    IF m # NoMessage /\ b \in Shown(v) THEN [v EXCEPT !.blocks[b] = m] ELSE v

----------------------------------------------------------------------------
(* Moving a tool between its places.                                         *)

DetachToolFromLocation(v, t) ==
    IF v.nested[t] /\ v.parent[t] # NoTool
    THEN [v EXCEPT !.children = [q \in Tool |->
                       IF q = v.parent[t] /\ q \in v.known
                       THEN v.children[q] \ {t} ELSE v.children[q]],
                   !.nested[t] = FALSE, !.parent[t] = NoTool]
    ELSE IF v.group[t] # NoGroup
    THEN LET g == v.group[t]
             left == [v EXCEPT !.members[g] = @ \ {t}, !.group[t] = NoGroup]
         IN  IF left.members[g] # {} THEN left
             ELSE [RemoveBlocks(left, {v.blockOf[t]}) EXCEPT
                      !.current = IF v.current = g THEN NoGroup ELSE @,
                      !.currentMessage = IF v.current = g THEN NoMessage ELSE @]
    ELSE RemoveBlocks(v, {v.blockOf[t]})

AttachToolAtRoot(v, t) ==
    AddBlock([v EXCEPT !.parent[t] = NoTool, !.nested[t] = FALSE,
                       !.group[t] = NoGroup, !.blockOf[t] = t],
             t, v.partMessage[t])

(* The tool and what parentToolCallId leads to from it.                      *)
Lineage(v, t) ==
    LET up[n \in 0 .. Cardinality(Tool)] ==
            IF n = 0 THEN {t}
            ELSE up[n - 1] \cup ({v.parent[q] : q \in up[n - 1]} \cap v.known)
    IN  up[Cardinality(Tool)]

(* The topmost ancestor of the tool.                                         *)
TopOf(v, t) == CHOOSE q \in Lineage(v, t) : v.parent[q] = NoTool

(* (mutant) only the parent's own parent is looked at *)
ParentIsChild(v, child, p) == child = v.parent[p]

ToolRelationshipWouldCycle(v, child, p) == child \in Lineage(v, p)

SetToolParent(v, t, p) ==
    IF p = NoTool \/ p = t THEN v
    ELSE IF p \notin v.known THEN [v EXCEPT !.waiting[t] = p]
    ELSE IF \/ ToolRelationshipWouldCycle(v, t, p)
            \/ v.nested[t] /\ v.parent[t] = p /\ t \in v.children[p]
    THEN [v EXCEPT !.waiting[t] = NoTool]
    ELSE [DetachToolFromLocation(v, t) EXCEPT
             !.children[p] = @ \cup {t}, !.parent[t] = p, !.nested[t] = TRUE,
             !.group[t] = NoGroup, !.waiting[t] = NoTool]

AttachPendingToolRelationships(v, t) ==
    LET own == IF v.waiting[t] # NoTool THEN v.waiting[t] ELSE v.parent[t]
        placed == SetToolParent(v, t, own)
        expecting == {c \in placed.known : placed.waiting[c] = t}
    IN  FoldSet(LAMBDA c, w : SetToolParent(w, c, t), placed, expecting)

(* updateToolView, as far as it relates tools: p and c are the parent and    *)
(* the child that the event's progress names.                                *)
UpdateToolView(v, t, p, c) ==
    LET under == SetToolParent(v, t, p)
    IN  IF c = NoTool THEN under
        ELSE IF c \in under.known THEN SetToolParent(under, c, t)
        ELSE [under EXCEPT !.waiting[c] = t]

----------------------------------------------------------------------------
(* ensureToolView: finding the view of a tool or making it.                  *)

KeepPart(v, t, m) ==
    [v EXCEPT !.partMessage[t] = IF m = NoMessage THEN @ ELSE m]

OpensGroup(v, m) ==
    \/ v.current = NoGroup
    \/ m # NoMessage /\ v.currentMessage # m

(* The names a new group may take: a group without tools is gone for good.   *)
UnusedGroups(v) == {g \in ToolGroup : v.members[g] = {} /\ g # v.current}

PlaceInGroup(v, t, m) ==
    LET fresh == Min(UnusedGroups(v))
        open == IF OpensGroup(v, m)
                THEN [AddBlock(v, fresh, m) EXCEPT
                         !.current = fresh, !.currentMessage = m]
                ELSE v
        g == open.current
    IN  [open EXCEPT !.members[g] = @ \cup {t}, !.group[t] = g, !.blockOf[t] = g]

PlaceAlone(v, t, m) ==
    [AddBlock(v, t, m) EXCEPT
        !.current = NoGroup, !.currentMessage = NoMessage,
        !.group[t] = NoGroup, !.blockOf[t] = t]

NewToolView(v, t, m) ==
    LET bare == [v EXCEPT !.parent[t] = NoTool, !.nested[t] = FALSE,
                          !.children[t] = {}]
    IN  [IF t \in Grouped THEN PlaceInGroup(bare, t, m) ELSE PlaceAlone(bare, t, m)
            EXCEPT !.known = @ \cup {t}]

EnsureToolView(v, t, m) ==
    IF t \in v.known
    THEN AttachPendingToolRelationships(
             AssociateBlock(KeepPart(v, t, m), v.blockOf[t], m), t)
    ELSE LET made == AttachPendingToolRelationships(
                         KeepPart(NewToolView(v, t, m), t, m), t)
         IN  IF made.progress[t] = NoTool THEN made
             ELSE UpdateToolView([made EXCEPT !.progress[t] = NoTool],
                                 t, NoTool, made.progress[t])

----------------------------------------------------------------------------
(* Removal.                                                                  *)

PromoteToolChildren(v, t) ==
    FoldSet(LAMBDA c, w :
                AttachToolAtRoot([w EXCEPT !.children[t] = @ \ {c}], c),
            v, v.children[t] \cap v.known)

RemovePart(v, t) ==
    LET gone == DetachToolFromLocation(PromoteToolChildren(v, t), t)
    IN  [gone EXCEPT
            !.known = @ \ {t}, !.blockOf[t] = t,
            !.waiting = [c \in Tool |->
                IF c = t \/ gone.waiting[c] = t THEN NoTool ELSE gone.waiting[c]],
            !.partMessage[t] = NoMessage]

RemoveMessage(v, m) ==
    LET parts == {t \in v.known : v.partMessage[t] = m}
        left == FoldSet(LAMBDA t, w : RemovePart(w, t), v, parts)
        tagged == {b \in Shown(left) : left.blocks[b] = m}
    IN  [RemoveBlocks(left, tagged) EXCEPT !.dropped = @ \cup tagged]

----------------------------------------------------------------------------
(* The events.                                                               *)

ToolTreeInit == views = EmptyViews

WithinPending ==
    Cardinality({t \in Tool : views'.waiting[t] # NoTool})
        + Cardinality({t \in Tool : views'.progress[t] # NoTool}) =< MaxPending

(* A stream event about tool t or, with a message, an upserted part of it.   *)
ToolReported(t, m, p, c) ==
    /\ t \in views.known \/ t \notin Grouped \/ UnusedGroups(views) # {}
    /\ p = NoTool \/ c = NoTool
    /\ views' = UpdateToolView(EnsureToolView(views, t, m), t, p, c)
    /\ WithinPending

(* subagent_spawned or subagent_stopped, naming the parent tool and a child  *)
(* (without a child it relates nothing).                                     *)
SubagentReported(p, c) ==
    /\ views' = IF p \in views.known THEN UpdateToolView(views, p, NoTool, c)
                ELSE [views EXCEPT !.progress[p] = c]
    /\ WithinPending

(* Text, reasoning, a notice: whatever follows does not join the group.      *)
GroupBroken ==
    /\ views.current # NoGroup
    /\ views' = [views EXCEPT !.current = NoGroup, !.currentMessage = NoMessage]

PartRemoved(t) ==
    /\ t \in views.known /\ views.partMessage[t] # NoMessage
    /\ views' = RemovePart(views, t)

MessageRemoved(m) == views' = RemoveMessage(views, m)

(* An event says that tool t works for a background task: the block that     *)
(* tool is drawn in goes (suppressBackgroundToolTranscript), be it its own,  *)
(* that of the ancestor whose tree it is in, or that of a whole group.  The  *)
(* views stay in the registry and the group stays open.  The event does      *)
(* nothing else here (onEvent returns); the store that knows the background  *)
(* tools forgets the oldest, so that later events may still name t.          *)
ToolSuppressed(t) ==
    /\ t \in views.known
    /\ LET block == views.blockOf[TopOf(views, t)]
       IN  views' = [RemoveBlocks(views, {block}) EXCEPT !.dropped = @ \cup {block}]

(* The next turn releases the registry; the blocks become settled history.   *)
TurnBegins == views' = EmptyViews

ToolTreeNext ==
    \/ \E t \in Tool, m \in MaybeMessage :
          \E p, c \in MaybeTool \ {t} : ToolReported(t, m, p, c)
    \/ \E p, c \in Tool : SubagentReported(p, c)
    \/ GroupBroken
    \/ \E t \in Tool : PartRemoved(t)
    \/ \E m \in Message : MessageRemoved(m)
    \/ \E t \in Tool : ToolSuppressed(t)
    \/ TurnBegins

ToolTreeSpec == ToolTreeInit /\ [][ToolTreeNext]_views

----------------------------------------------------------------------------
(* Where tool t is drawn.                                                    *)
Trees(t) == {p \in Tool : t \in views.children[p]}
Groups(t) == {g \in ToolGroup : t \in views.members[g]}
Top(t) == TopOf(views, t)

(* Every tool is drawn in one place and the indexes say which: in the tree   *)
(* of its parent, in the group it belongs to, or in a block of its own       *)
(* (setToolParent, detachToolFromLocation, attachToolAtRoot,                 *)
(* promoteToolChildren).  A tool left in its old place as well would be      *)
(* drawn twice, and one half of it would never be updated again.             *)
OnePlace ==
    \A t \in views.known :
        /\ Trees(t) = (IF views.nested[t] THEN {views.parent[t]} ELSE {})
        /\ Groups(t) = (IF views.group[t] # NoGroup THEN {views.group[t]} ELSE {})
        /\ views.nested[t] => views.group[t] = NoGroup
        /\ t \in Shown(views) => ~views.nested[t] /\ views.group[t] = NoGroup

(* Parents never form a cycle, whatever order relations arrive in and        *)
(* however they contradict each other: a cycle of trees is on no screen and  *)
(* rendering it would not end (toolRelationshipWouldCycle).                  *)
NoCycles ==
    \A t \in views.known :
        /\ \E q \in Lineage(views, t) : views.parent[q] = NoTool
        /\ \A q \in Lineage(views, t) : q # t => t \notin Lineage(views, q)

(* A tool the turn knows is on the screen: the block of its topmost ancestor *)
(* is in the transcript, unless a message.removed event took that block, or  *)
(* a tool drawn in it was found to work for a background task.               *)
ReachesTheScreen ==
    \A t \in views.known :
        /\ views.parent[t] # NoTool => views.parent[t] \in views.known
        /\ views.blockOf[Top(t)] \in Shown(views) \cup views.dropped

(* No tool goes on waiting for a parent that is there: the relation was made *)
(* when the later of the two arrived (attachPendingToolRelationships).       *)
NobodyWaitsInVain ==
    \A t \in views.known :
        views.waiting[t] # NoTool => views.waiting[t] \notin views.known

(* The four together: after any events, in any order, the tools of the turn  *)
(* form a forest that is on the screen, as updateToolView means it to be.    *)
ToolsFormATree == OnePlace /\ NoCycles /\ ReachesTheScreen /\ NobodyWaitsInVain
=============================================================================
