----------------------------- MODULE FlowRuntime -----------------------------
(***************************************************************************)
(* The walk of a conversation through the flows of its organisation: the   *)
(* inbound turn (router, pure engine, hops between flows, calls of         *)
(* subflows with a stack of returns) and the walk of a timer that fires.   *)
(*                                                                         *)
(* A walk touches shared state twice: it reads the conversation's state    *)
(* from the cache at its start and writes it at its end.  Everything in    *)
(* between is local and goes one node, or one hop, a step.  Two turns of a *)
(* conversation may be walking at once, and a timer beside them.           *)
(*                                                                         *)
(* Which timers fire, and when, is FlowTimer's subject; here the pending   *)
(* ones are a set.                                                         *)
(***************************************************************************)
EXTENDS Naturals, Sequences

CONSTANTS
    Flows, FlowNodes,
    Home,       \* node -> its flow
    First,      \* flow -> its start
    Graphs,     \* what the customer may have drawn: functions from nodes to shapes
    ByContact,  \* flows that start on a first contact
    ByKeyword,  \* flows that start on a keyword
    NoNode, EndedMark, NoFlow,
    Talks,      \* inbound turns
    Alarms,     \* timers walking at the same time
    MAX_FLOW_HOPS, MAX_WALK

ASSUME NodesAssumption == NoNode \notin FlowNodes /\ EndedMark \notin FlowNodes \cup {NoNode}
ASSUME FlowsAssumption ==
    /\ Home \in [FlowNodes -> Flows] /\ First \in [Flows -> FlowNodes]
    /\ \A f \in Flows : Home[First[f]] = f
    /\ ByContact \cup ByKeyword \subseteq Flows
ASSUME WalksAssumption == MAX_FLOW_HOPS \in Nat /\ MAX_WALK \in Nat \ {0} /\ Talks \cap Alarms = {}

NodeKinds == {"pass", "say", "ask", "condition", "ai", "transfer", "wait", "schedule", "goto", "call"}

\* next: the first edge; other: else (ask, condition) or time-out (wait); into: the target of a goto.
Shapes == [kind : NodeKinds, next : FlowNodes \cup {NoNode}, other : FlowNodes \cup {NoNode}, into : Flows]

\* The edges of a node stay in its flow.
ASSUME GraphsAssumption ==
    \A g \in Graphs : /\ g \in [FlowNodes -> Shapes]
                      /\ \A n \in FlowNodes : \A m \in {g[n].next, g[n].other} \ {NoNode} : Home[m] = Home[n]

VARIABLES
    graph,      \* the nodes and edges of all flows
    activeFlows,     \* flows that are active
    stored,     \* flow_state of the conversation in the cache
    pend,       \* pending timers of the conversation
    walker,     \* turn or firing timer -> where it is
    owed,       \* history: return nodes of the calls that have not returned
    orderly,    \* history: no two walks overlapped and neither a walk nor a read of the cache failed
    timed       \* history: a timer walked

runtimeVars == <<graph, activeFlows, stored, pend, walker, owed, orderly, timed>>

Walkers == Talks \cup Alarms
NodeOrNone == FlowNodes \cup {NoNode}
Frames == [flow : Flows, back : NodeOrNone]
Absent == [cursor |-> NoNode, flow |-> NoFlow, stack |-> <<>>]

(* from: the cursor its present resolve began with; message: the message may
   still be consumed in this resolve; sent: this resolve has sent something;
   said, took, hasty are history: the walk has sent something, the nodes its
   message was matched at, one of them after it had sent something.         *)
AtRest == [pc |-> "idle", live |-> {}, flow |-> NoFlow, entry |-> NoFlow, at |-> NoNode, from |-> NoNode,
           stack |-> <<>>, message |-> FALSE, sent |-> FALSE, hop |-> 0, steps |-> 0,
           next |-> "end", cursor |-> NoNode, exit |-> NoNode,
           said |-> FALSE, took |-> 0, hasty |-> FALSE]

RuntimeInit ==
    /\ graph \in Graphs
    /\ activeFlows = Flows
    /\ stored = Absent
    /\ pend = {}
    /\ walker = [w \in Walkers |-> AtRest]
    /\ owed = <<>>
    /\ orderly = TRUE /\ timed = FALSE

Still == \A w \in Walkers : walker[w].pc \in {"idle", "done"}
Stand(w, where) == walker[w].pc = where

----------------------------------------------------------------------------
(* The turn, up to its first node.                                         *)

\* cancelPendingWaitTimers, best effort, then the active flows; with none, no flow.
TurnLoads(u) ==
    /\ Stand(u, "idle")
    /\ \/ pend' = {m \in pend : m.kind = "schedule"}
       \/ UNCHANGED pend
    /\ walker' = [walker EXCEPT ![u].pc = IF activeFlows = {} THEN "done" ELSE "read", ![u].live = activeFlows]
    /\ orderly' = (orderly /\ Still)
    /\ UNCHANGED <<graph, activeFlows, stored, owed, timed>>

\* pickFlowForMessage: a keyword beats the first contact, which is none after an end.
pickFlowForMessage(live, ended) ==
    live \cap (IF ended THEN ByKeyword ELSE ByKeyword \cup ByContact)

Enters(u, f, cursor, stack) ==
    walker' = [walker EXCEPT ![u].pc = "walk", ![u].flow = f, ![u].entry = f, ![u].from = cursor,
                  ![u].at = IF cursor = NoNode THEN First[f] ELSE cursor,
                  ![u].stack = stack, ![u].message = TRUE]

\* cache.get, or nothing when the cache fails: the cursor's flow goes on if it is active;
\* else the router, which may find nothing.  The stack comes along either way.
TurnReads(u) ==
    /\ Stand(u, "read")
    /\ \E seen \in {stored, Absent} :
          /\ IF seen.cursor \notin {NoNode, EndedMark} /\ seen.flow \in walker[u].live
             THEN Enters(u, seen.flow, seen.cursor, seen.stack)
             ELSE \/ \E f \in pickFlowForMessage(walker[u].live, seen.cursor = EndedMark) :
                         Enters(u, f, NoNode, seen.stack)
                  \/ /\ seen.cursor = EndedMark \/ ByContact \cap walker[u].live = {}
                     /\ walker' = [walker EXCEPT ![u] = [AtRest EXCEPT !.pc = "done"]]
          /\ orderly' = (orderly /\ seen = stored)
    /\ UNCHANGED <<graph, activeFlows, stored, pend, owed, timed>>

----------------------------------------------------------------------------
(* resolveFlowStep, one node a step.                                       *)

Shape(w) == graph[walker[w].at]
OnNode(w, kinds) == /\ Stand(w, "walk") /\ walker[w].at # NoNode /\ walker[w].steps < MAX_WALK
                    /\ Shape(w).kind \in kinds

Walked == UNCHANGED <<graph, activeFlows, stored, pend, owed, orderly, timed>>

\* To the next node of the same resolve.
Advance(me, n) == [me EXCEPT !.at = n, !.steps = @ + 1]

\* The resolve returns.
Returns(me, next, cursor) == [me EXCEPT !.pc = "hop", !.next = next, !.cursor = cursor]

\* One node at most, and nothing after the walk has spoken.
Matches(w) == walker[w].message /\ ~walker[w].sent

Taken(me) == [me EXCEPT !.message = FALSE, !.took = @ + 1, !.hasty = @ \/ me.said]
Spoken(me) == [me EXCEPT !.sent = TRUE, !.said = TRUE]

\* start, tag, update_lead; a message; a wait without a time is none.
WalkOn(w) ==
    /\ OnNode(w, {"pass", "say"})
    /\ walker' = [walker EXCEPT ![w] =
           Advance(IF Shape(w).kind = "say" THEN Spoken(walker[w]) ELSE walker[w], Shape(w).next)]
    /\ Walked

\* The graph has no node here, or is a loop.
WalkEnds(w) ==
    /\ Stand(w, "walk") /\ (walker[w].at = NoNode \/ walker[w].steps = MAX_WALK)
    /\ walker' = [walker EXCEPT ![w] = Returns(walker[w], "end", NoNode)]
    /\ Walked

\* A question that waited takes the message as its answer: valid, asked again, or else.
WalkAsk(w) ==
    /\ OnNode(w, {"ask"})
    /\ LET me == walker[w] IN
       IF me.from = me.at /\ Matches(w)
       THEN \E after \in {Advance(Taken(me), Shape(w).next),
                          Advance(Taken(me), Shape(w).other),
                          Returns([Taken(me) EXCEPT !.said = TRUE], "await_input", me.at)} :
                walker' = [walker EXCEPT ![w] = after]
       ELSE walker' = [walker EXCEPT ![w] = Returns([me EXCEPT !.said = TRUE], "await_input", me.at)]
    /\ Walked

WalkCondition(w) ==
    /\ OnNode(w, {"condition"})
    /\ LET me == walker[w] IN
       IF Matches(w)
       THEN \E n \in {Shape(w).next, Shape(w).other} :
                walker' = [walker EXCEPT ![w] = Advance(Taken(me), n)]
       ELSE walker' = [walker EXCEPT ![w] = Returns(me, "await_input", me.at)]
    /\ Walked

\* The model answers; the next turn goes on behind the node, if there is anything.
WalkAi(w) ==
    /\ OnNode(w, {"ai"})
    /\ walker' = [walker EXCEPT ![w] = Returns(walker[w], "ai", Shape(w).next)]
    /\ Walked

WalkTransfer(w) ==
    /\ OnNode(w, {"transfer"})
    /\ walker' = [walker EXCEPT ![w] = Returns(walker[w], "end", NoNode)]
    /\ Walked

\* An answer goes on behind a wait only when it has a time-out of its own.
WalkWait(w) ==
    /\ OnNode(w, {"wait", "schedule"})
    /\ walker' = [walker EXCEPT ![w] =
           Returns([walker[w] EXCEPT !.exit = IF Shape(w).other # NoNode THEN Shape(w).other ELSE Shape(w).next],
                   "scheduled",
                   IF Shape(w).kind = "wait" /\ Shape(w).other # NoNode THEN Shape(w).next ELSE NoNode)]
    /\ Walked

WalkGoto(w) ==
    /\ OnNode(w, {"goto", "call"})
    /\ walker' = [walker EXCEPT ![w] = Returns(walker[w], Shape(w).kind, NoNode)]
    /\ Walked

----------------------------------------------------------------------------
(* The hops of a turn.  A timer makes none.                                *)

\* Where a walk that stops goes: book a timer, or write the state.
Stopping(me) == [me EXCEPT !.pc = IF me.next = "scheduled" /\ me.exit # NoNode THEN "book" ELSE "store"]

nextHopIntent(me) ==
    IF me.next = "call" THEN "call"
    ELSE IF me.next = "goto" THEN "switch"
    ELSE IF me.next = "end" /\ me.stack # <<>> THEN "return"
    ELSE "stop"

\* Mutant: the message is there again in every flow.
ResolveAgain(me, f, cursor) ==
    [me EXCEPT !.pc = "walk", !.flow = f, !.from = cursor, !.at = IF cursor = NoNode THEN First[f] ELSE cursor,
               !.message = TRUE, !.sent = FALSE, !.steps = 0, !.hop = @ + 1, !.next = "end", !.cursor = NoNode]

\* The next resolve of the walk: the message is spent.
Resolve(me, f, cursor) ==
    [me EXCEPT !.pc = "walk", !.flow = f, !.from = cursor, !.at = IF cursor = NoNode THEN First[f] ELSE cursor,
               !.message = FALSE, !.sent = FALSE, !.steps = 0, !.hop = @ + 1, !.next = "end", !.cursor = NoNode]

HopStops(w) ==
    /\ Stand(w, "hop")
    /\ \/ w \in Alarms
       \/ nextHopIntent(walker[w]) = "stop"
       \/ walker[w].hop = MAX_FLOW_HOPS
    /\ walker' = [walker EXCEPT ![w] = Stopping(walker[w])]
    /\ Walked

\* Mutant: the hops are not limited.
HoppingUnlimited(u, intents) == Stand(u, "hop") /\ nextHopIntent(walker[u]) \in intents

Hopping(u, intents) == Stand(u, "hop") /\ walker[u].hop < MAX_FLOW_HOPS /\ nextHopIntent(walker[u]) \in intents

HopEnters(u) ==
    LET me == walker[u]
        into == Shape(u).into
        frame == [flow |-> me.flow, back |-> Shape(u).next]
        calls == me.next = "call"
    IN
    /\ Hopping(u, {"call", "switch"})
    /\ IF into \in me.live
       THEN /\ walker' = [walker EXCEPT ![u] =
                    Resolve([me EXCEPT !.stack = IF calls THEN Append(@, frame) ELSE @], into, NoNode)]
            /\ owed' = IF calls /\ frame.back # NoNode THEN Append(owed, frame.back) ELSE owed
       ELSE /\ walker' = [walker EXCEPT ![u] = Stopping(me)]
            /\ UNCHANGED owed
    /\ UNCHANGED <<graph, activeFlows, stored, pend, orderly, timed>>

OpenFrames(stack) == {i \in DOMAIN stack : stack[i].back # NoNode}

\* Frames without a node to return to are skipped.
HopReturns(u) ==
    LET me == walker[u]
        open == OpenFrames(me.stack)
    IN
    /\ Hopping(u, {"return"})
    /\ \/ /\ open = {}
          /\ walker' = [walker EXCEPT ![u] = Stopping([me EXCEPT !.stack = <<>>])]
          /\ UNCHANGED owed
       \/ \E i \in open :
            LET frame == me.stack[i]
                popped == [me EXCEPT !.stack = SubSeq(@, 1, i - 1)]
            IN
            /\ \A j \in open : j <= i
            /\ walker' = [walker EXCEPT ![u] = IF frame.flow \in me.live
                                               THEN Resolve(popped, frame.flow, frame.back)
                                               ELSE Stopping(popped)]
            /\ owed' = IF owed = <<>> THEN owed ELSE SubSeq(owed, 1, Len(owed) - 1)
    /\ UNCHANGED <<graph, activeFlows, stored, pend, orderly, timed>>

----------------------------------------------------------------------------
(* The end of a walk.                                                      *)

Finished(w) == walker' = [walker EXCEPT ![w] = IF w \in Talks THEN [AtRest EXCEPT !.pc = "done"] ELSE AtRest]

\* scheduleFlowTimer: the stack is in the snapshot, which nobody reads.
Books(w) ==
    /\ Stand(w, "book")
    /\ pend' = pend \cup {[flow |-> walker[w].flow, node |-> walker[w].exit, kind |-> Shape(w).kind]}
    /\ walker' = [walker EXCEPT ![w].pc = "store"]
    /\ UNCHANGED <<graph, activeFlows, stored, owed, orderly, timed>>

\* Mutants: the flow that the turn began in is written; every null cursor is an end.
StateWithEntry(w) ==
    LET me == walker[w] IN
    IF me.cursor = NoNode /\ (w \in Alarms \/ me.stack = <<>>)
    THEN [Absent EXCEPT !.cursor = EndedMark]
    ELSE [cursor |-> me.cursor, flow |-> me.entry, stack |-> me.stack]
StateEndsOnNull(w) ==
    LET me == walker[w] IN
    IF me.cursor = NoNode
    THEN [Absent EXCEPT !.cursor = EndedMark]
    ELSE [cursor |-> me.cursor, flow |-> me.flow, stack |-> me.stack]

\* A turn ends the conversation's flow when nothing is left to return to.  A timer
\* (buildStoredFlowState) whenever it has no cursor, and its stack is always empty:
\* the engine's result has none.
StateAfter(w) ==
    LET me == walker[w] IN
    IF me.cursor = NoNode /\ (w \in Alarms \/ me.stack = <<>>)
    THEN [Absent EXCEPT !.cursor = EndedMark]
    ELSE [cursor |-> me.cursor, flow |-> me.flow, stack |-> me.stack]

Stores(w) ==
    /\ Stand(w, "store")
    /\ stored' = StateAfter(w)
    /\ Finished(w)
    /\ UNCHANGED <<graph, activeFlows, pend, owed, orderly, timed>>

\* The catch around the walk, or a write the cache swallows: the state stays as it was.
WalkFails(w) ==
    /\ walker[w].pc \notin {"idle", "done"}
    /\ Finished(w)
    /\ orderly' = FALSE
    /\ UNCHANGED <<graph, activeFlows, stored, pend, owed, timed>>

----------------------------------------------------------------------------
(* Timers, the cache's expiry, the editor.                                 *)

\* The worker claims a timer and resumes from its snapshot, without a message; a timer
\* of a flow that is not active is cancelled.
AlarmFires(a, m) ==
    /\ Stand(a, "idle")
    /\ pend' = pend \ {m}
    /\ IF m.flow \in activeFlows
       THEN /\ walker' = [walker EXCEPT ![a] = [AtRest EXCEPT
                    !.pc = "walk", !.flow = m.flow, !.entry = m.flow, !.at = m.node, !.from = m.node]]
            /\ orderly' = (orderly /\ Still)
            /\ timed' = TRUE
       ELSE UNCHANGED <<walker, orderly, timed>>
    /\ UNCHANGED <<graph, activeFlows, stored, owed>>

\* Seven days without a turn.
StateExpires ==
    /\ Still /\ stored # Absent
    /\ stored' = Absent
    /\ owed' = <<>>
    /\ UNCHANGED <<graph, activeFlows, pend, walker, orderly, timed>>

\* A flow is deactivated.
DeactivateFlow(f) ==
    /\ activeFlows' = activeFlows \ {f} /\ f \in activeFlows
    /\ UNCHANGED <<graph, stored, pend, walker, owed, orderly, timed>>

WalkerStep(w) ==
    \/ WalkOn(w) \/ WalkEnds(w) \/ WalkAsk(w) \/ WalkCondition(w) \/ WalkAi(w) \/ WalkTransfer(w)
    \/ WalkWait(w) \/ WalkGoto(w) \/ HopStops(w) \/ Books(w) \/ Stores(w)

RuntimeNext ==
    \/ \E u \in Talks : TurnLoads(u) \/ TurnReads(u) \/ HopEnters(u) \/ HopReturns(u)
    \/ \E w \in Walkers : WalkerStep(w) \/ WalkFails(w)
    \/ \E a \in Alarms : \E m \in pend : AlarmFires(a, m)
    \/ StateExpires
    \/ \E f \in Flows : DeactivateFlow(f)

RuntimeSpec == RuntimeInit /\ [][RuntimeNext]_runtimeVars

----------------------------------------------------------------------------
StoredStates == [cursor : NodeOrNone \cup {EndedMark}, flow : Flows \cup {NoFlow}, stack : Seq(Frames)]
PendingTimers == [flow : Flows, node : FlowNodes, kind : {"wait", "schedule"}]
WalkerStates == [pc : {"idle", "read", "walk", "hop", "book", "store", "done"},
                 live : SUBSET Flows, flow : Flows \cup {NoFlow}, entry : Flows \cup {NoFlow},
                 at : NodeOrNone, from : NodeOrNone, stack : Seq(Frames),
                 message : BOOLEAN, sent : BOOLEAN, hop : 0..MAX_FLOW_HOPS, steps : 0..MAX_WALK,
                 next : {"end", "await_input", "ai", "scheduled", "goto", "call"},
                 cursor : NodeOrNone, exit : NodeOrNone,
                 said : BOOLEAN, took : Nat, hasty : BOOLEAN]

RuntimeTypeOK ==
    /\ graph \in [FlowNodes -> Shapes] /\ activeFlows \subseteq Flows
    /\ stored \in StoredStates
    /\ pend \subseteq PendingTimers
    /\ walker \in [Walkers -> WalkerStates]
    /\ owed \in Seq(FlowNodes)
    /\ orderly \in BOOLEAN /\ timed \in BOOLEAN

(***************************************************************************)
(* The message of a turn is matched at one node at most, over all the      *)
(* flows the turn hops through, and never at a node behind something the   *)
(* same turn has sent: nobody's "yes" answers a question not yet asked.    *)
(***************************************************************************)
AnswersWhatWasAsked == \A w \in Walkers : walker[w].took <= 1 /\ ~walker[w].hasty

(***************************************************************************)
(* The cursor in the cache is a node of the flow written beside it, and    *)
(* every frame returns to a node of the flow that called: whatever walks   *)
(* overlap, hop, call, return or fail, the next turn finds its node.       *)
(***************************************************************************)
CursorIsInItsFlow ==
    /\ stored.cursor \in FlowNodes => Home[stored.cursor] = stored.flow
    /\ \A i \in DOMAIN stored.stack :
         stored.stack[i].back # NoNode => Home[stored.stack[i].back] = stored.stack[i].flow

\* The return nodes of the open frames, in the order of the frames.
Lists(nodes, stack) ==
    \E at \in [DOMAIN nodes -> OpenFrames(stack)] :
        /\ \A i \in OpenFrames(stack) : \E k \in DOMAIN nodes : at[k] = i
        /\ \A k \in DOMAIN nodes : nodes[k] = stack[at[k]].back
        /\ \A j, k \in DOMAIN nodes : j < k => at[j] < at[k]

\* Between walks, what is still to be returned to is what the cache holds.
ReturnsAreKept == Still => Lists(owed, stored.stack)

(***************************************************************************)
(* A caller is returned to: as long as walks neither overlap nor fail and  *)
(* no timer walks, the calls that have not returned are exactly the frames *)
(* in the cache, so an end is only written when none is left.              *)
(***************************************************************************)
CallsReturnInTurns == orderly /\ ~timed => ReturnsAreKept

(***************************************************************************)
(* What scheduleFlowTimer logs (services/flowScheduler.ts:190) and the     *)
(* design says (spec 1C, section 9): a timer inside a subflow does not     *)
(* return to the caller itself, but the stack is kept for the answer that  *)
(* comes after it.                                                         *)
(***************************************************************************)
StackOutlivesTimers == orderly /\ stored.cursor \in FlowNodes => ReturnsAreKept
=============================================================================
