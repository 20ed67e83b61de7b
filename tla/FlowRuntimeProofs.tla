-------------------------- MODULE FlowRuntimeProofs --------------------------
(***************************************************************************)
(* Proofs about FlowRuntime: type correctness, the cursor in the cache is  *)
(* a node of the flow beside it, and a message is matched at one node at   *)
(* most and never behind something its walk has sent, whatever walks       *)
(* overlap or fail; and, as long as they do neither and no timer walks,    *)
(* every call returns to its caller.  For any flows, graphs, turns, timers *)
(* and bounds.                                                             *)
(***************************************************************************)
EXTENDS FlowRuntime, TLAPS

(* A frame returns to a node of the flow that called.                      *)
FramesFit(stack) == \A i \in DOMAIN stack : stack[i].back # NoNode => Home[stack[i].back] = stack[i].flow

(* What is true of a walk, wherever it is.                                 *)
Fresh(me) == me.took = 0 /\ ~me.said /\ ~me.message
OnItsFlow(me) == me.flow \in Flows /\ (me.at # NoNode => Home[me.at] = me.flow)
Asking(me) == me.message => me.took = 0 /\ (me.said => me.sent)
Answered(me) ==
    /\ me.flow \in Flows
    /\ me.cursor # NoNode => Home[me.cursor] = me.flow
    /\ me.next \in {"goto", "call", "scheduled"} => me.at # NoNode /\ Home[me.at] = me.flow
    /\ me.next = "scheduled" => graph[me.at].kind \in {"wait", "schedule"} /\ (me.exit # NoNode => Home[me.exit] = me.flow)
Once(me) == me.took <= 1 /\ ~me.hasty

Fits(me) ==
    /\ me.pc \in {"idle", "read"} => Fresh(me)
    /\ me.pc = "walk" => OnItsFlow(me) /\ Asking(me)
    /\ me.pc \in {"hop", "book", "store"} => Answered(me)
    /\ me.pc = "book" => me.next = "scheduled" /\ me.exit # NoNode
    /\ FramesFit(me.stack)
    /\ Once(me)

(* A timer stands on a node of its flow.                                   *)
TimersFit == \A m \in pend : Home[m.node] = m.flow

IInv ==
    /\ RuntimeTypeOK
    /\ graph \in Graphs
    /\ CursorIsInItsFlow
    /\ TimersFit
    /\ \A w \in Walkers : Fits(walker[w])

----------------------------------------------------------------------------
(* A walk at rest, and the operators that a walk is built from.            *)
LEMMA AtRestFits == AtRest \in WalkerStates /\ Fits(AtRest) /\ AtRest.stack = <<>> /\ AtRest.pc = "idle"
  BY WalksAssumption DEF AtRest, WalkerStates, NodeOrNone, Fits, Fresh, FramesFit, Once

LEMMA AbsentFits ==
    /\ Absent \in StoredStates /\ Absent.cursor = NoNode /\ Absent.stack = <<>>
    /\ [Absent EXCEPT !.cursor = EndedMark] \in StoredStates
<1> DEFINE cursors == NodeOrNone \cup {EndedMark}
           flows == Flows \cup {NoFlow}
<1>1. NoNode \in cursors /\ EndedMark \in cursors /\ NoFlow \in flows /\ <<>> \in Seq(Frames)
  BY DEF NodeOrNone
<1> HIDE DEF cursors, flows
<1>2. StoredStates = [cursor : cursors, flow : flows, stack : Seq(Frames)]
  BY DEF StoredStates, cursors, flows
<1>3. QED
  BY <1>1, <1>2 DEF Absent

LEMMA AdvanceTypes ==
    ASSUME NEW me \in WalkerStates, me.steps < MAX_WALK, NEW n \in NodeOrNone
    PROVE  /\ Advance(me, n) \in WalkerStates
           /\ Advance(me, n).pc = me.pc /\ Advance(me, n).flow = me.flow /\ Advance(me, n).at = n
           /\ Advance(me, n).stack = me.stack /\ Advance(me, n).message = me.message
           /\ Advance(me, n).sent = me.sent /\ Advance(me, n).said = me.said
           /\ Advance(me, n).took = me.took /\ Advance(me, n).hasty = me.hasty
<1>1. me.steps \in 0..MAX_WALK /\ me.steps + 1 \in 0..MAX_WALK
  BY WalksAssumption DEF WalkerStates
<1> DEFINE steps == me.steps + 1
           range == 0..MAX_WALK
<1>2. Advance(me, n) = [me EXCEPT !.at = n, !.steps = steps]
  BY DEF Advance
<1>3. steps \in range
  BY <1>1
<1> HIDE DEF steps, range
<1>4. QED
  BY <1>2, <1>3 DEF WalkerStates, range

LEMMA TakenTypes ==
    ASSUME NEW me \in WalkerStates
    PROVE  /\ Taken(me) \in WalkerStates
           /\ Taken(me).pc = me.pc /\ Taken(me).flow = me.flow /\ Taken(me).at = me.at
           /\ Taken(me).stack = me.stack /\ Taken(me).message = FALSE /\ Taken(me).steps = me.steps
           /\ Taken(me).sent = me.sent /\ Taken(me).said = me.said
           /\ me.took = 0 /\ ~me.said /\ ~me.hasty => Taken(me).took = 1 /\ ~Taken(me).hasty
<1> DEFINE took == me.took + 1
           hasty == me.hasty \/ me.said
<1>1. Taken(me) = [me EXCEPT !.message = FALSE, !.took = took, !.hasty = hasty]
  BY DEF Taken
<1>2. took \in Nat /\ hasty \in BOOLEAN
  BY DEF WalkerStates
<1> HIDE DEF took, hasty
<1>3. Taken(me) \in WalkerStates
  BY <1>1, <1>2 DEF WalkerStates
<1>4. /\ Taken(me).pc = me.pc /\ Taken(me).flow = me.flow /\ Taken(me).at = me.at
      /\ Taken(me).stack = me.stack /\ Taken(me).message = FALSE /\ Taken(me).steps = me.steps
      /\ Taken(me).sent = me.sent /\ Taken(me).said = me.said
      /\ Taken(me).took = took /\ Taken(me).hasty = hasty
  BY <1>1 DEF WalkerStates
<1>5. me.took = 0 => took = 1
  BY DEF took
<1>6. ~me.said /\ ~me.hasty => ~hasty
  BY DEF hasty
<1>7. ~me.said /\ ~me.hasty => ~Taken(me).hasty
  BY <1>4, <1>6, Zenon
<1>8. QED
  BY <1>3, <1>4, <1>5, <1>7

LEMMA SpokenTypes ==
    ASSUME NEW me \in WalkerStates
    PROVE  /\ Spoken(me) \in WalkerStates
           /\ Spoken(me).pc = me.pc /\ Spoken(me).flow = me.flow /\ Spoken(me).at = me.at
           /\ Spoken(me).stack = me.stack /\ Spoken(me).message = me.message /\ Spoken(me).steps = me.steps
           /\ Spoken(me).sent = TRUE /\ Spoken(me).said = TRUE
           /\ Spoken(me).took = me.took /\ Spoken(me).hasty = me.hasty
  BY DEF Spoken, WalkerStates

Results == {"end", "await_input", "ai", "scheduled", "goto", "call"}
LEMMA ReturnsTypes ==
    ASSUME NEW me \in WalkerStates, NEW cursor \in NodeOrNone, NEW next \in Results
    PROVE  /\ Returns(me, next, cursor) \in WalkerStates
           /\ Returns(me, next, cursor).pc = "hop" /\ Returns(me, next, cursor).next = next
           /\ Returns(me, next, cursor).cursor = cursor
           /\ Returns(me, next, cursor).flow = me.flow /\ Returns(me, next, cursor).at = me.at
           /\ Returns(me, next, cursor).stack = me.stack /\ Returns(me, next, cursor).exit = me.exit
           /\ Returns(me, next, cursor).took = me.took /\ Returns(me, next, cursor).hasty = me.hasty
  BY DEF Returns, WalkerStates, Results

LEMMA StoppingTypes ==
    ASSUME NEW me \in WalkerStates
    PROVE  /\ Stopping(me) \in WalkerStates
           /\ Stopping(me).pc = IF me.next = "scheduled" /\ me.exit # NoNode THEN "book" ELSE "store"
           /\ Stopping(me).flow = me.flow /\ Stopping(me).at = me.at /\ Stopping(me).stack = me.stack
           /\ Stopping(me).cursor = me.cursor /\ Stopping(me).next = me.next /\ Stopping(me).exit = me.exit
           /\ Stopping(me).took = me.took /\ Stopping(me).hasty = me.hasty
  BY DEF Stopping, WalkerStates

HopsLeft(me) == me.hop < MAX_FLOW_HOPS
Resolved(new, me, f, n) ==
    /\ new \in WalkerStates /\ new.pc = "walk" /\ new.flow = f
    /\ (n = NoNode => new.at = First[f]) /\ (n # NoNode => new.at = n)
    /\ new.stack = me.stack /\ ~new.message
    /\ new.took = me.took /\ new.hasty = me.hasty
LEMMA ResolveTypes ==
    ASSUME NEW me \in WalkerStates, HopsLeft(me), NEW f \in Flows, NEW n \in NodeOrNone
    PROVE  Resolved(Resolve(me, f, n), me, f, n)
<1>1. (IF n = NoNode THEN First[f] ELSE n) \in NodeOrNone
  BY FlowsAssumption DEF NodeOrNone
<1> DEFINE at == IF n = NoNode THEN First[f] ELSE n
           hop == me.hop + 1
           hops == 0..MAX_FLOW_HOPS
           steps == 0..MAX_WALK
<1>2. hop \in hops /\ 0 \in steps /\ at \in NodeOrNone
  BY <1>1, WalksAssumption DEF WalkerStates, HopsLeft
<1>3. Resolve(me, f, n) = [me EXCEPT !.pc = "walk", !.flow = f, !.from = n, !.at = at, !.message = FALSE,
                               !.sent = FALSE, !.steps = 0, !.hop = hop, !.next = "end", !.cursor = NoNode]
  BY DEF Resolve
<1> HIDE DEF at, hop, hops, steps
<1>4. NoNode \in NodeOrNone
  BY DEF NodeOrNone
<1>5. Resolve(me, f, n) \in WalkerStates
  <2> DEFINE mid == [me EXCEPT !.pc = "walk", !.flow = f, !.from = n, !.at = at, !.message = FALSE]
  <2>1. mid \in WalkerStates
    BY <1>2 DEF WalkerStates
  <2>2. Resolve(me, f, n) = [mid EXCEPT !.sent = FALSE, !.steps = 0, !.hop = hop, !.next = "end", !.cursor = NoNode]
    BY <1>3 DEF WalkerStates
  <2> HIDE DEF mid
  <2>3. QED
    BY <1>2, <1>4, <2>1, <2>2 DEF WalkerStates, hops, steps
<1>6. QED
  BY <1>3, <1>5 DEF WalkerStates, at, Resolved

(* The edges of a node stay in its flow. *)
LEMMA EdgesStay ==
    ASSUME IInv, NEW n \in FlowNodes
    PROVE  /\ graph[n] \in Shapes
           /\ graph[n].next # NoNode => graph[n].next \in FlowNodes /\ Home[graph[n].next] = Home[n]
           /\ graph[n].other # NoNode => graph[n].other \in FlowNodes /\ Home[graph[n].other] = Home[n]
  BY GraphsAssumption DEF IInv, Shapes

----------------------------------------------------------------------------
(* A step of one walk: what its new place must satisfy.                    *)
LEMMA StepKeeps ==
    ASSUME IInv, NEW w \in Walkers, NEW new, walker' = [walker EXCEPT ![w] = new],
           new \in WalkerStates, Fits(new),
           UNCHANGED <<graph, stored, pend>>,
           activeFlows' \subseteq Flows, owed' \in Seq(FlowNodes),
           orderly' \in BOOLEAN, timed' \in BOOLEAN
    PROVE  IInv'
<1>1. RuntimeTypeOK'
  BY DEF IInv, RuntimeTypeOK
<1>2. CursorIsInItsFlow' /\ TimersFit' /\ graph' \in Graphs
  BY DEF IInv, CursorIsInItsFlow, TimersFit
<1>3. ASSUME NEW v \in Walkers PROVE Fits(walker[v])'
  <2>1. Fits(walker'[v])
    BY DEF IInv, RuntimeTypeOK
  <2>2. QED
    BY <2>1 DEF Fits, Fresh, OnItsFlow, Asking, Answered, FramesFit, Once
<1>4. QED
  BY <1>1, <1>2, <1>3 DEF IInv

(* Most steps of a walk touch nothing but the walk.                        *)
LEMMA WalkKeeps ==
    ASSUME IInv, NEW w \in Walkers, NEW new, walker' = [walker EXCEPT ![w] = new],
           new \in WalkerStates, Fits(new), Walked
    PROVE  IInv'
<1>1. /\ activeFlows' \subseteq Flows /\ owed' \in Seq(FlowNodes)
      /\ orderly' \in BOOLEAN /\ timed' \in BOOLEAN
  BY DEF Walked, IInv, RuntimeTypeOK
<1>2. UNCHANGED <<graph, stored, pend>>
  BY DEF Walked
<1>3. QED
  BY <1>1, <1>2, StepKeeps

(* Where a walk is. *)
LEMMA WalkerParts ==
    ASSUME IInv, NEW w \in Walkers
    PROVE  walker[w] \in WalkerStates /\ Fits(walker[w])
  BY DEF IInv, RuntimeTypeOK

(* A walk on a node. *)
LEMMA NodeParts ==
    ASSUME IInv, NEW w \in Walkers, NEW kinds, OnNode(w, kinds)
    PROVE  /\ walker[w].pc = "walk" /\ OnItsFlow(walker[w]) /\ Asking(walker[w])
           /\ FramesFit(walker[w].stack) /\ Once(walker[w])
           /\ walker[w].at \in FlowNodes /\ walker[w].steps < MAX_WALK
           /\ Shape(w) = graph[walker[w].at] /\ Shape(w) \in Shapes /\ Shape(w).kind \in kinds
           /\ Shape(w).next \in NodeOrNone /\ Shape(w).other \in NodeOrNone
           /\ Shape(w).next # NoNode => Home[Shape(w).next] = walker[w].flow
           /\ Shape(w).other # NoNode => Home[Shape(w).other] = walker[w].flow
<1>1. walker[w].pc = "walk" /\ walker[w].at # NoNode /\ walker[w].steps < MAX_WALK /\ Shape(w).kind \in kinds
  BY DEF OnNode, Stand
<1>2. walker[w].at \in FlowNodes
  BY <1>1, WalkerParts DEF WalkerStates, NodeOrNone
<1>3. OnItsFlow(walker[w]) /\ Asking(walker[w]) /\ FramesFit(walker[w].stack) /\ Once(walker[w])
  BY <1>1, WalkerParts DEF Fits
<1>4. /\ graph[walker[w].at] \in Shapes
      /\ Shape(w).next # NoNode => Home[Shape(w).next] = walker[w].flow
      /\ Shape(w).other # NoNode => Home[Shape(w).other] = walker[w].flow
  BY <1>1, <1>2, <1>3, EdgesStay DEF Shape, OnItsFlow
<1>5. Shape(w).next \in NodeOrNone /\ Shape(w).other \in NodeOrNone
  BY <1>4 DEF Shape, Shapes, NodeOrNone
<1>6. QED
  BY <1>1, <1>2, <1>3, <1>4, <1>5 DEF Shape

----------------------------------------------------------------------------
(* The nodes.                                                              *)
LEMMA WalkOnKeeps == ASSUME IInv, NEW w \in Walkers, WalkOn(w) PROVE IInv'
<1> DEFINE me == walker[w]
           spoke == IF Shape(w).kind = "say" THEN Spoken(me) ELSE me
           new == Advance(spoke, Shape(w).next)
<1>1. OnNode(w, {"pass", "say"}) /\ walker' = [walker EXCEPT ![w] = new] /\ Walked
  BY DEF WalkOn
<1>2. me \in WalkerStates
  BY WalkerParts
<1>3. /\ me.pc = "walk" /\ OnItsFlow(me) /\ Asking(me) /\ FramesFit(me.stack) /\ Once(me)
      /\ me.steps < MAX_WALK /\ Shape(w).next \in NodeOrNone
      /\ Shape(w).next # NoNode => Home[Shape(w).next] = me.flow
  BY <1>1, NodeParts
<1>4. /\ spoke \in WalkerStates /\ spoke.pc = "walk" /\ spoke.flow = me.flow /\ spoke.stack = me.stack
      /\ spoke.message = me.message /\ spoke.steps = me.steps /\ spoke.took = me.took /\ spoke.hasty = me.hasty
      /\ (me.said => me.sent) => (spoke.said => spoke.sent)
  BY <1>2, <1>3, SpokenTypes
<1> HIDE DEF me, spoke
<1>5. /\ new \in WalkerStates /\ new.pc = "walk" /\ new.flow = me.flow /\ new.at = Shape(w).next
      /\ new.stack = me.stack /\ new.message = me.message /\ new.sent = spoke.sent /\ new.said = spoke.said
      /\ new.took = me.took /\ new.hasty = me.hasty
  BY <1>3, <1>4, AdvanceTypes
<1> HIDE DEF new
<1>6. Fits(new)
  BY <1>3, <1>4, <1>5 DEF Fits, OnItsFlow, Asking, Once
<1>7. QED
  BY <1>1, <1>5, <1>6, WalkKeeps

(* A resolve that returns where the walk stands: with no cursor, or with   *)
(* one of its flow.                                                        *)
LEMMA ReturnKeeps ==
    ASSUME IInv, NEW w \in Walkers, Walked, NEW me \in WalkerStates,
           me.flow \in Flows, FramesFit(me.stack), Once(me),
           NEW next \in Results,
           NEW cursor \in NodeOrNone, cursor # NoNode => Home[cursor] = me.flow,
           next \in {"goto", "call", "scheduled"} => me.at # NoNode /\ Home[me.at] = me.flow,
           next = "scheduled" =>
               graph[me.at].kind \in {"wait", "schedule"} /\ (me.exit # NoNode => Home[me.exit] = me.flow),
           walker' = [walker EXCEPT ![w] = Returns(me, next, cursor)]
    PROVE  IInv'
<1> DEFINE new == Returns(me, next, cursor)
<1>1. /\ new \in WalkerStates /\ new.pc = "hop" /\ new.next = next /\ new.cursor = cursor
      /\ new.flow = me.flow /\ new.at = me.at /\ new.stack = me.stack /\ new.exit = me.exit
      /\ new.took = me.took /\ new.hasty = me.hasty
  <2> HIDE DEF new
  <2>1. /\ Returns(me, next, cursor) \in WalkerStates /\ Returns(me, next, cursor).pc = "hop"
        /\ Returns(me, next, cursor).next = next /\ Returns(me, next, cursor).cursor = cursor
        /\ Returns(me, next, cursor).flow = me.flow /\ Returns(me, next, cursor).at = me.at
        /\ Returns(me, next, cursor).stack = me.stack /\ Returns(me, next, cursor).exit = me.exit
        /\ Returns(me, next, cursor).took = me.took /\ Returns(me, next, cursor).hasty = me.hasty
    BY ReturnsTypes
  <2>2. QED
    BY <2>1 DEF new
<1>2. walker' = [walker EXCEPT ![w] = new]
  OBVIOUS
<1> HIDE DEF new
<1>3. Fits(new)
  BY <1>1 DEF Fits, Answered, Once
<1>4. QED
  BY <1>1, <1>2, <1>3, WalkKeeps

LEMMA WalkEndsKeeps == ASSUME IInv, NEW w \in Walkers, WalkEnds(w) PROVE IInv'
<1>1. walker[w].pc = "walk" /\ Walked /\ walker' = [walker EXCEPT ![w] = Returns(walker[w], "end", NoNode)]
  BY DEF WalkEnds, Stand
<1>2. walker[w] \in WalkerStates /\ walker[w].flow \in Flows /\ FramesFit(walker[w].stack) /\ Once(walker[w])
  BY <1>1, WalkerParts DEF Fits, OnItsFlow
<1>3. NoNode \in NodeOrNone
  BY DEF NodeOrNone
<1>4. QED
  BY <1>1, <1>2, <1>3, ReturnKeeps DEF Results

LEMMA WalkAiKeeps == ASSUME IInv, NEW w \in Walkers, WalkAi(w) PROVE IInv'
<1>1. OnNode(w, {"ai"}) /\ Walked /\ walker' = [walker EXCEPT ![w] = Returns(walker[w], "ai", Shape(w).next)]
  BY DEF WalkAi
<1>2. /\ walker[w] \in WalkerStates /\ walker[w].flow \in Flows /\ FramesFit(walker[w].stack) /\ Once(walker[w])
      /\ Shape(w).next \in NodeOrNone /\ (Shape(w).next # NoNode => Home[Shape(w).next] = walker[w].flow)
  BY <1>1, WalkerParts, NodeParts DEF OnItsFlow
<1>3. QED
  BY <1>1, <1>2, ReturnKeeps DEF Results

LEMMA WalkTransferKeeps == ASSUME IInv, NEW w \in Walkers, WalkTransfer(w) PROVE IInv'
<1>1. OnNode(w, {"transfer"}) /\ Walked /\ walker' = [walker EXCEPT ![w] = Returns(walker[w], "end", NoNode)]
  BY DEF WalkTransfer
<1>2. walker[w] \in WalkerStates /\ walker[w].flow \in Flows /\ FramesFit(walker[w].stack) /\ Once(walker[w])
  BY <1>1, WalkerParts, NodeParts DEF OnItsFlow
<1>3. NoNode \in NodeOrNone
  BY DEF NodeOrNone
<1>4. QED
  BY <1>1, <1>2, <1>3, ReturnKeeps DEF Results

LEMMA WalkGotoKeeps == ASSUME IInv, NEW w \in Walkers, WalkGoto(w) PROVE IInv'
<1>1. OnNode(w, {"goto", "call"}) /\ Walked /\ walker' = [walker EXCEPT ![w] = Returns(walker[w], Shape(w).kind, NoNode)]
  BY DEF WalkGoto
<1>2. /\ walker[w] \in WalkerStates /\ walker[w].flow \in Flows /\ FramesFit(walker[w].stack) /\ Once(walker[w])
      /\ walker[w].at \in FlowNodes /\ Home[walker[w].at] = walker[w].flow /\ Shape(w).kind \in {"goto", "call"}
  BY <1>1, WalkerParts, NodeParts, NodesAssumption DEF OnItsFlow
<1>3. NoNode \in NodeOrNone /\ walker[w].at # NoNode
  BY <1>2, NodesAssumption DEF NodeOrNone
<1>4. QED
  BY <1>1, <1>2, <1>3, ReturnKeeps DEF Results

LEMMA WalkWaitKeeps == ASSUME IInv, NEW w \in Walkers, WalkWait(w) PROVE IInv'
<1> DEFINE exit == IF Shape(w).other # NoNode THEN Shape(w).other ELSE Shape(w).next
           cursor == IF Shape(w).kind = "wait" /\ Shape(w).other # NoNode THEN Shape(w).next ELSE NoNode
           me == [walker[w] EXCEPT !.exit = exit]
<1>1. OnNode(w, {"wait", "schedule"}) /\ Walked /\ walker' = [walker EXCEPT ![w] = Returns(me, "scheduled", cursor)]
  BY DEF WalkWait
<1>2. /\ walker[w] \in WalkerStates /\ walker[w].flow \in Flows /\ FramesFit(walker[w].stack) /\ Once(walker[w])
      /\ walker[w].at \in FlowNodes /\ Home[walker[w].at] = walker[w].flow
      /\ graph[walker[w].at].kind \in {"wait", "schedule"}
      /\ exit \in NodeOrNone /\ (exit # NoNode => Home[exit] = walker[w].flow)
  BY <1>1, WalkerParts, NodeParts, NodesAssumption DEF OnItsFlow
<1>3. cursor \in NodeOrNone /\ (cursor # NoNode => Home[cursor] = walker[w].flow)
  BY <1>1, NodeParts DEF NodeOrNone
<1> HIDE DEF exit, cursor
<1>4. /\ me \in WalkerStates /\ me.flow = walker[w].flow /\ me.stack = walker[w].stack /\ me.at = walker[w].at
      /\ me.took = walker[w].took /\ me.hasty = walker[w].hasty /\ me.exit = exit
  BY <1>2 DEF WalkerStates
<1>5. me.at # NoNode
  BY <1>2, <1>4, NodesAssumption
<1> HIDE DEF me
<1>6. Once(me) /\ FramesFit(me.stack)
  BY <1>2, <1>4 DEF Once
<1>7. QED
  BY <1>1, <1>2, <1>3, <1>4, <1>5, <1>6, ReturnKeeps DEF Results

(* An answer taken: the walk goes on, or asks again.                       *)
LEMMA TakenKeeps ==
    ASSUME IInv, NEW w \in Walkers, Walked, NEW kinds, OnNode(w, kinds), Matches(w), NEW n \in NodeOrNone,
           n # NoNode => Home[n] = walker[w].flow,
           walker' = [walker EXCEPT ![w] = Advance(Taken(walker[w]), n)]
    PROVE  IInv'
<1> DEFINE me == Taken(walker[w])
           new == Advance(me, n)
<1>1. /\ walker[w].pc = "walk" /\ OnItsFlow(walker[w]) /\ Asking(walker[w])
      /\ FramesFit(walker[w].stack) /\ Once(walker[w]) /\ walker[w].steps < MAX_WALK
      /\ walker[w] \in WalkerStates
  BY NodeParts, WalkerParts
<1>2. walker[w].took = 0 /\ ~walker[w].said /\ ~walker[w].hasty
  BY <1>1 DEF Matches, Asking, Once, WalkerStates
<1>3. /\ me \in WalkerStates /\ me.pc = "walk" /\ me.flow = walker[w].flow /\ me.stack = walker[w].stack
      /\ me.message = FALSE /\ me.steps = walker[w].steps /\ me.took = 1 /\ ~me.hasty
  BY <1>1, <1>2, TakenTypes
<1>4. walker' = [walker EXCEPT ![w] = new]
  OBVIOUS
<1> HIDE DEF me
<1>5. /\ new \in WalkerStates /\ new.pc = "walk" /\ new.flow = walker[w].flow /\ new.at = n
      /\ new.stack = walker[w].stack /\ new.message = FALSE /\ new.took = 1 /\ ~new.hasty
  BY <1>1, <1>3, AdvanceTypes
<1> HIDE DEF new
<1>6. Fits(new)
  BY <1>1, <1>5 DEF Fits, OnItsFlow, Asking, Once
<1>7. QED
  BY <1>4, <1>5, <1>6, WalkKeeps

LEMMA WalkConditionKeeps == ASSUME IInv, NEW w \in Walkers, WalkCondition(w) PROVE IInv'
<1>1. OnNode(w, {"condition"}) /\ Walked
  BY DEF WalkCondition
<1>2. CASE Matches(w)
  <2>1. PICK n \in {Shape(w).next, Shape(w).other} : walker' = [walker EXCEPT ![w] = Advance(Taken(walker[w]), n)]
    BY <1>2 DEF WalkCondition
  <2>2. n \in NodeOrNone /\ (n # NoNode => Home[n] = walker[w].flow)
    BY <1>1, NodeParts
  <2>3. QED
    BY <1>1, <1>2, <2>1, <2>2, TakenKeeps
<1>3. CASE ~Matches(w)
  <2>1. walker' = [walker EXCEPT ![w] = Returns(walker[w], "await_input", walker[w].at)]
    BY <1>3 DEF WalkCondition
  <2>2. /\ walker[w] \in WalkerStates /\ walker[w].flow \in Flows /\ FramesFit(walker[w].stack) /\ Once(walker[w])
        /\ walker[w].at \in NodeOrNone /\ (walker[w].at # NoNode => Home[walker[w].at] = walker[w].flow)
    BY <1>1, WalkerParts, NodeParts DEF OnItsFlow, NodeOrNone
  <2>3. QED
    BY <1>1, <2>1, <2>2, ReturnKeeps DEF Results
<1>4. QED
  BY <1>2, <1>3

LEMMA WalkAskKeeps == ASSUME IInv, NEW w \in Walkers, WalkAsk(w) PROVE IInv'
<1> DEFINE me == walker[w]
<1>1. OnNode(w, {"ask"}) /\ Walked
  BY DEF WalkAsk
<1>2. /\ me \in WalkerStates /\ me.flow \in Flows /\ FramesFit(me.stack) /\ Once(me)
      /\ me.at \in NodeOrNone /\ (me.at # NoNode => Home[me.at] = me.flow)
      /\ Shape(w).next \in NodeOrNone /\ Shape(w).other \in NodeOrNone
      /\ Shape(w).next # NoNode => Home[Shape(w).next] = me.flow
      /\ Shape(w).other # NoNode => Home[Shape(w).other] = me.flow
  BY <1>1, WalkerParts, NodeParts DEF OnItsFlow, NodeOrNone
<1>3. ASSUME NEW asks \in WalkerStates, asks.flow = me.flow, asks.stack = me.stack, asks.at = me.at, Once(asks),
             walker' = [walker EXCEPT ![w] = Returns([asks EXCEPT !.said = TRUE], "await_input", me.at)]
      PROVE  IInv'
  <2> DEFINE spoke == [asks EXCEPT !.said = TRUE]
  <2>1. /\ spoke \in WalkerStates /\ spoke.flow = me.flow /\ spoke.stack = me.stack /\ spoke.at = me.at
        /\ spoke.took = asks.took /\ spoke.hasty = asks.hasty
    BY <1>3 DEF WalkerStates
  <2>2. walker' = [walker EXCEPT ![w] = Returns(spoke, "await_input", me.at)]
    BY <1>3
  <2> HIDE DEF spoke
  <2>3. Once(spoke) /\ FramesFit(spoke.stack)
    BY <1>2, <1>3, <2>1 DEF Once
  <2> HIDE DEF me
  <2>4. QED
    BY <1>1, <1>2, <2>1, <2>2, <2>3, ReturnKeeps DEF Results
<1>4. CASE me.from = me.at /\ Matches(w)
  <2>1. CASE \E n \in {Shape(w).next, Shape(w).other} : walker' = [walker EXCEPT ![w] = Advance(Taken(me), n)]
    BY <1>1, <1>2, <1>4, <2>1, TakenKeeps
  <2>2. CASE walker' = [walker EXCEPT ![w] = Returns([Taken(me) EXCEPT !.said = TRUE], "await_input", me.at)]
    <3>1. me.took = 0 /\ ~me.said /\ ~me.hasty
      BY <1>1, <1>2, <1>4, NodeParts DEF Matches, Asking, Once, WalkerStates
    <3>2. Taken(me) \in WalkerStates /\ Taken(me).flow = me.flow /\ Taken(me).stack = me.stack /\ Taken(me).at = me.at
      BY <1>2, TakenTypes
    <3>3. Once(Taken(me))
      <4>1. Taken(me).took = 1 /\ ~Taken(me).hasty
        BY <1>2, <3>1, TakenTypes
      <4>2. QED
        BY <4>1, SMT DEF Once
    <3>4. QED
      BY <1>3, <2>2, <3>2, <3>3
  <2>3. QED
    BY <1>4, <2>1, <2>2 DEF WalkAsk
<1>5. CASE ~(me.from = me.at /\ Matches(w))
  <2>1. walker' = [walker EXCEPT ![w] = Returns([me EXCEPT !.said = TRUE], "await_input", me.at)]
    BY <1>5 DEF WalkAsk
  <2>2. QED
    BY <1>2, <1>3, <2>1
<1>6. QED
  BY <1>4, <1>5

----------------------------------------------------------------------------
(* The hops.                                                               *)

(* A resolve that has returned. *)
LEMMA HopParts ==
    ASSUME IInv, NEW w \in Walkers, Stand(w, "hop")
    PROVE  walker[w] \in WalkerStates /\ Answered(walker[w]) /\ FramesFit(walker[w].stack) /\ Once(walker[w])
  BY WalkerParts DEF Stand, Fits

(* A walk that stops keeps what its resolve returned.                      *)
LEMMA StopFits ==
    ASSUME NEW me \in WalkerStates, Answered(me), FramesFit(me.stack), Once(me)
    PROVE  Stopping(me) \in WalkerStates /\ Fits(Stopping(me))
<1> DEFINE new == Stopping(me)
<1>1. /\ new \in WalkerStates /\ new.pc = IF me.next = "scheduled" /\ me.exit # NoNode THEN "book" ELSE "store"
      /\ new.flow = me.flow /\ new.at = me.at /\ new.stack = me.stack /\ new.cursor = me.cursor
      /\ new.next = me.next /\ new.exit = me.exit /\ new.took = me.took /\ new.hasty = me.hasty
  BY StoppingTypes
<1> HIDE DEF new
<1>2. Fits(new)
  BY <1>1 DEF Fits, Answered, Once
<1>3. QED
  BY <1>1, <1>2 DEF new

(* A resolve that starts in another flow, or at a node of it.              *)
LEMMA ResolveFits ==
    ASSUME NEW me \in WalkerStates, FramesFit(me.stack), Once(me), HopsLeft(me),
           NEW f \in Flows, NEW n \in NodeOrNone, n # NoNode => Home[n] = f
    PROVE  Resolve(me, f, n) \in WalkerStates /\ Fits(Resolve(me, f, n))
<1> DEFINE new == Resolve(me, f, n)
<1>1. /\ new \in WalkerStates /\ new.pc = "walk" /\ new.flow = f
      /\ (n = NoNode => new.at = First[f]) /\ (n # NoNode => new.at = n)
      /\ new.stack = me.stack /\ ~new.message /\ new.took = me.took /\ new.hasty = me.hasty
  <2> HIDE DEF new
  <2>1. Resolved(Resolve(me, f, n), me, f, n)
    BY ResolveTypes
  <2>2. QED
    BY <2>1 DEF Resolved, new
<1> HIDE DEF new
<1>2. OnItsFlow(new) /\ Asking(new) /\ Once(new)
  BY <1>1, FlowsAssumption DEF OnItsFlow, Asking, Once
<1>3. Fits(new)
  BY <1>1, <1>2 DEF Fits
<1>4. QED
  BY <1>1, <1>3 DEF new

LEMMA HopStopsKeeps == ASSUME IInv, NEW w \in Walkers, HopStops(w) PROVE IInv'
<1> DEFINE new == Stopping(walker[w])
<1>1. Stand(w, "hop") /\ Walked /\ walker' = [walker EXCEPT ![w] = new]
  BY DEF HopStops
<1>2. new \in WalkerStates /\ Fits(new)
  BY <1>1, HopParts, StopFits
<1> HIDE DEF new
<1>3. QED
  BY <1>1, <1>2, WalkKeeps

(* A frame pushed, or frames dropped from the top, leave frames that fit.  *)
LEMMA StacksFit ==
    ASSUME NEW me \in WalkerStates, FramesFit(me.stack)
    PROVE  /\ \A frame \in Frames : (frame.back # NoNode => Home[frame.back] = frame.flow) =>
                 Append(me.stack, frame) \in Seq(Frames) /\ FramesFit(Append(me.stack, frame))
           /\ \A i \in DOMAIN me.stack :
                 SubSeq(me.stack, 1, i - 1) \in Seq(Frames) /\ FramesFit(SubSeq(me.stack, 1, i - 1))
<1>1. me.stack \in Seq(Frames)
  BY DEF WalkerStates
<1> DEFINE stack == me.stack
<1>2. stack \in Seq(Frames) /\ FramesFit(stack)
  BY <1>1
<1> HIDE DEF stack
<1>3. ASSUME NEW frame \in Frames, frame.back # NoNode => Home[frame.back] = frame.flow
      PROVE  Append(stack, frame) \in Seq(Frames) /\ FramesFit(Append(stack, frame))
  BY <1>2, <1>3 DEF FramesFit
<1>4. ASSUME NEW i \in DOMAIN stack
      PROVE  SubSeq(stack, 1, i - 1) \in Seq(Frames) /\ FramesFit(SubSeq(stack, 1, i - 1))
  BY <1>2 DEF FramesFit
<1>5. QED
  BY <1>3, <1>4 DEF stack

(* A walk with another stack is the same walk.                             *)
LEMMA RestackTypes ==
    ASSUME NEW me \in WalkerStates, NEW stack \in Seq(Frames)
    PROVE  LET new == [me EXCEPT !.stack = stack] IN
           /\ new \in WalkerStates /\ new.stack = stack /\ new.hop = me.hop
           /\ Answered(me) => Answered(new)
           /\ Once(me) => Once(new)
<1> DEFINE new == [me EXCEPT !.stack = stack]
<1>1. /\ new \in WalkerStates /\ new.stack = stack /\ new.hop = me.hop
      /\ new.flow = me.flow /\ new.at = me.at /\ new.cursor = me.cursor /\ new.next = me.next
      /\ new.exit = me.exit /\ new.took = me.took /\ new.hasty = me.hasty
  BY DEF WalkerStates
<1> HIDE DEF new
<1>2. (Answered(me) => Answered(new)) /\ (Once(me) => Once(new))
  BY <1>1 DEF Answered, Once
<1>3. QED
  BY <1>1, <1>2 DEF new

LEMMA HopEntersKeeps == ASSUME IInv, NEW u \in Talks, HopEnters(u) PROVE IInv'
<1> DEFINE me == walker[u]
           into == Shape(u).into
           frame == [flow |-> me.flow, back |-> Shape(u).next]
           calls == me.next = "call"
           stack == IF calls THEN Append(me.stack, frame) ELSE me.stack
           went == [me EXCEPT !.stack = stack]
<1>1. /\ u \in Walkers /\ Hopping(u, {"call", "switch"})
      /\ \/ /\ into \in me.live /\ walker' = [walker EXCEPT ![u] = Resolve(went, into, NoNode)]
            /\ owed' = IF calls /\ frame.back # NoNode THEN Append(owed, frame.back) ELSE owed
         \/ walker' = [walker EXCEPT ![u] = Stopping(me)] /\ UNCHANGED owed
      /\ UNCHANGED <<graph, activeFlows, stored, pend, orderly, timed>>
  BY DEF HopEnters, Walkers
<1>2. /\ me \in WalkerStates /\ Answered(me) /\ FramesFit(me.stack) /\ Once(me)
      /\ HopsLeft(me) /\ me.next \in {"goto", "call"}
  BY <1>1, HopParts DEF Hopping, nextHopIntent, HopsLeft
<1>3. /\ me.flow \in Flows /\ me.at \in FlowNodes /\ Home[me.at] = me.flow
  BY <1>2 DEF Answered, WalkerStates, NodeOrNone
<1>4. /\ Shape(u).next \in NodeOrNone /\ into \in Flows
      /\ Shape(u).next # NoNode => Shape(u).next \in FlowNodes /\ Home[Shape(u).next] = me.flow
  BY <1>3, EdgesStay DEF Shape, Shapes, NodeOrNone
<1>5. frame \in Frames /\ (frame.back # NoNode => frame.back \in FlowNodes /\ Home[frame.back] = frame.flow)
  BY <1>3, <1>4 DEF Frames
<1>6. me.stack \in Seq(Frames) /\ NoNode \in NodeOrNone
  BY <1>2 DEF WalkerStates, NodeOrNone
<1>7. UNCHANGED <<graph, stored, pend>> /\ activeFlows' \subseteq Flows /\ orderly' \in BOOLEAN /\ timed' \in BOOLEAN
      /\ owed \in Seq(FlowNodes)
  BY <1>1 DEF IInv, RuntimeTypeOK
<1>8. stack \in Seq(Frames) /\ FramesFit(stack)
  BY <1>2, <1>5, <1>6, StacksFit
<1>9. CASE /\ into \in me.live /\ walker' = [walker EXCEPT ![u] = Resolve(went, into, NoNode)]
           /\ owed' = IF calls /\ frame.back # NoNode THEN Append(owed, frame.back) ELSE owed
  <2>1. owed' \in Seq(FlowNodes)
    BY <1>5, <1>7, <1>9
  <2> HIDE DEF stack
  <2>2. went \in WalkerStates /\ FramesFit(went.stack) /\ Once(went) /\ HopsLeft(went)
    BY <1>2, <1>8, RestackTypes DEF HopsLeft
  <2> HIDE DEF went
  <2> DEFINE new == Resolve(went, into, NoNode)
  <2>3. new \in WalkerStates /\ Fits(new)
    BY <1>4, <1>6, <2>2, ResolveFits
  <2>4. walker' = [walker EXCEPT ![u] = new]
    BY <1>9
  <2> HIDE DEF new
  <2>5. QED
    BY <1>1, <1>7, <2>1, <2>3, <2>4, StepKeeps
<1>10. CASE walker' = [walker EXCEPT ![u] = Stopping(me)] /\ UNCHANGED owed
  <2> DEFINE new == Stopping(me)
  <2>1. new \in WalkerStates /\ Fits(new)
    BY <1>2, StopFits
  <2>2. walker' = [walker EXCEPT ![u] = new] /\ owed' \in Seq(FlowNodes)
    BY <1>7, <1>10
  <2> HIDE DEF new
  <2>3. QED
    BY <1>1, <1>7, <2>1, <2>2, StepKeeps
<1>11. QED
  BY <1>1, <1>9, <1>10

LEMMA HopReturnsKeeps == ASSUME IInv, NEW u \in Talks, HopReturns(u) PROVE IInv'
<1> DEFINE me == walker[u]
           open == {i \in DOMAIN me.stack : me.stack[i].back # NoNode}
           bare == [me EXCEPT !.stack = <<>>]
           popped(i) == [me EXCEPT !.stack = SubSeq(me.stack, 1, i - 1)]
<1>1. /\ u \in Walkers /\ Hopping(u, {"return"})
      /\ \/ walker' = [walker EXCEPT ![u] = Stopping(bare)] /\ UNCHANGED owed
         \/ \E i \in open :
               /\ walker' = [walker EXCEPT ![u] = IF me.stack[i].flow \in me.live
                                                  THEN Resolve(popped(i), me.stack[i].flow, me.stack[i].back)
                                                  ELSE Stopping(popped(i))]
               /\ owed' = IF owed = <<>> THEN owed ELSE SubSeq(owed, 1, Len(owed) - 1)
      /\ UNCHANGED <<graph, activeFlows, stored, pend, orderly, timed>>
  BY DEF HopReturns, OpenFrames, Walkers
<1>2. /\ me \in WalkerStates /\ Answered(me) /\ FramesFit(me.stack) /\ Once(me) /\ HopsLeft(me)
  BY <1>1, HopParts DEF Hopping, HopsLeft
<1>3. UNCHANGED <<graph, stored, pend>> /\ activeFlows' \subseteq Flows /\ orderly' \in BOOLEAN /\ timed' \in BOOLEAN
      /\ owed \in Seq(FlowNodes)
  BY <1>1 DEF IInv, RuntimeTypeOK
<1>4. CASE walker' = [walker EXCEPT ![u] = Stopping(bare)] /\ UNCHANGED owed
  <2>1. <<>> \in Seq(Frames) /\ FramesFit(<<>>)
    BY DEF FramesFit
  <2>2. bare \in WalkerStates /\ Answered(bare) /\ FramesFit(bare.stack) /\ Once(bare)
    BY <1>2, <2>1, RestackTypes DEF HopsLeft
  <2> HIDE DEF bare
  <2> DEFINE new == Stopping(bare)
  <2>3. new \in WalkerStates /\ Fits(new)
    BY <2>2, StopFits
  <2>4. walker' = [walker EXCEPT ![u] = new] /\ owed' \in Seq(FlowNodes)
    BY <1>3, <1>4
  <2> HIDE DEF new
  <2>5. QED
    BY <1>1, <1>3, <2>3, <2>4, StepKeeps
<1>5. ASSUME NEW i \in open,
             walker' = [walker EXCEPT ![u] = IF me.stack[i].flow \in me.live
                                             THEN Resolve(popped(i), me.stack[i].flow, me.stack[i].back)
                                             ELSE Stopping(popped(i))],
             owed' = IF owed = <<>> THEN owed ELSE SubSeq(owed, 1, Len(owed) - 1)
      PROVE  IInv'
  <2> DEFINE rest == SubSeq(me.stack, 1, i - 1)
             went == [me EXCEPT !.stack = rest]
             new == IF me.stack[i].flow \in me.live THEN Resolve(went, me.stack[i].flow, me.stack[i].back)
                                                    ELSE Stopping(went)
  <2>1. owed' \in Seq(FlowNodes)
    BY <1>3, <1>5
  <2>2. rest \in Seq(Frames) /\ FramesFit(rest)
    BY <1>2, StacksFit
  <2>3. me.stack[i].flow \in Flows /\ me.stack[i].back \in NodeOrNone /\ Home[me.stack[i].back] = me.stack[i].flow
    <3>1. me.stack \in Seq(Frames)
      BY <1>2 DEF WalkerStates
    <3>2. me.stack[i] \in Frames
      BY <3>1
    <3>3. QED
      BY <1>2, <3>2 DEF Frames, FramesFit
  <2> HIDE DEF rest
  <2>4. /\ went \in WalkerStates /\ Answered(went) /\ FramesFit(went.stack) /\ Once(went) /\ HopsLeft(went)
    BY <1>2, <2>2, RestackTypes DEF HopsLeft
  <2>5. walker' = [walker EXCEPT ![u] = new]
    BY <1>5 DEF rest
  <2> HIDE DEF went
  <2>6. Stopping(went) \in WalkerStates /\ Fits(Stopping(went))
    BY <2>4, StopFits
  <2>7. /\ Resolve(went, me.stack[i].flow, me.stack[i].back) \in WalkerStates
        /\ Fits(Resolve(went, me.stack[i].flow, me.stack[i].back))
    BY <2>3, <2>4, ResolveFits
  <2>8. new \in WalkerStates /\ Fits(new)
    BY <2>6, <2>7
  <2> HIDE DEF new
  <2>9. QED
    BY <1>1, <1>3, <2>1, <2>5, <2>8, StepKeeps
<1>6. QED
  BY <1>1, <1>4, <1>5

----------------------------------------------------------------------------
(* Where a walk begins and ends.                                           *)
LEMMA FinishedFits ==
    ASSUME NEW w \in Walkers, Finished(w)
    PROVE  \E new \in WalkerStates : Fits(new) /\ walker' = [walker EXCEPT ![w] = new]
<1>1. [AtRest EXCEPT !.pc = "done"] \in WalkerStates /\ Fits([AtRest EXCEPT !.pc = "done"])
  <2> DEFINE me == AtRest
             new == [me EXCEPT !.pc = "done"]
  <2>1. me \in WalkerStates /\ Fits(me) /\ me.stack = <<>>
    BY AtRestFits
  <2> HIDE DEF me
  <2>2. /\ new \in WalkerStates /\ new.pc = "done" /\ new.stack = me.stack
        /\ new.took = me.took /\ new.hasty = me.hasty
    BY <2>1 DEF WalkerStates
  <2> HIDE DEF new
  <2>3. Fits(new)
    BY <2>1, <2>2 DEF Fits, Once
  <2>4. QED
    BY <2>2, <2>3 DEF new, me
<1>2. AtRest \in WalkerStates /\ Fits(AtRest)
  BY AtRestFits
<1>3. CASE w \in Talks
  BY <1>1, <1>3 DEF Finished
<1>4. CASE w \notin Talks
  BY <1>2, <1>4 DEF Finished
<1>5. QED
  BY <1>3, <1>4

LEMMA WalkFailsKeeps == ASSUME IInv, NEW w \in Walkers, WalkFails(w) PROVE IInv'
<1>1. PICK new \in WalkerStates : Fits(new) /\ walker' = [walker EXCEPT ![w] = new]
  BY FinishedFits DEF WalkFails
<1>2. /\ UNCHANGED <<graph, stored, pend>> /\ activeFlows' \subseteq Flows
      /\ owed' \in Seq(FlowNodes) /\ orderly' \in BOOLEAN /\ timed' \in BOOLEAN
  BY DEF WalkFails, IInv, RuntimeTypeOK
<1>3. QED
  BY <1>1, <1>2, StepKeeps

LEMMA BooksKeeps == ASSUME IInv, NEW w \in Walkers, Books(w) PROVE IInv'
<1> DEFINE me == walker[w]
           timer == [flow |-> me.flow, node |-> me.exit, kind |-> Shape(w).kind]
           new == [me EXCEPT !.pc = "store"]
<1>1. /\ me.pc = "book" /\ pend' = pend \cup {timer} /\ walker' = [walker EXCEPT ![w] = new]
      /\ UNCHANGED <<graph, activeFlows, stored, owed, orderly, timed>>
  BY DEF Books, Stand
<1>2. me \in WalkerStates /\ Fits(me)
  BY WalkerParts
<1>3. /\ new \in WalkerStates /\ new.pc = "store" /\ new.flow = me.flow /\ new.at = me.at
      /\ new.cursor = me.cursor /\ new.next = me.next /\ new.exit = me.exit /\ new.stack = me.stack
      /\ new.took = me.took /\ new.hasty = me.hasty
  BY <1>2 DEF WalkerStates
<1>4. timer \in PendingTimers /\ Home[timer.node] = timer.flow
  BY <1>1, <1>2 DEF Fits, Answered, PendingTimers, Shape, WalkerStates, NodeOrNone
<1> HIDE DEF new, timer
<1>5. Fits(new)
  BY <1>1, <1>2, <1>3 DEF Fits, Answered, Once
<1>6. RuntimeTypeOK'
  BY <1>1, <1>3, <1>4 DEF IInv, RuntimeTypeOK
<1>7. CursorIsInItsFlow' /\ TimersFit' /\ graph' \in Graphs
  BY <1>1, <1>4 DEF IInv, CursorIsInItsFlow, TimersFit
<1>8. ASSUME NEW v \in Walkers PROVE Fits(walker[v])'
  <2>1. Fits(walker'[v])
    BY <1>1, <1>5 DEF IInv, RuntimeTypeOK
  <2>2. QED
    BY <1>1, <2>1 DEF Fits, Fresh, OnItsFlow, Asking, Answered, FramesFit, Once
<1>9. QED
  BY <1>6, <1>7, <1>8 DEF IInv

LEMMA StoresKeeps == ASSUME IInv, NEW w \in Walkers, Stores(w) PROVE IInv'
<1> DEFINE me == walker[w]
<1>1. /\ me.pc = "store" /\ stored' = StateAfter(w)
      /\ UNCHANGED <<graph, activeFlows, pend, owed, orderly, timed>>
  BY DEF Stores, Stand
<1>2. me \in WalkerStates /\ me.flow \in Flows /\ (me.cursor # NoNode => Home[me.cursor] = me.flow) /\ FramesFit(me.stack)
  BY <1>1, WalkerParts DEF Fits, Answered
<1>3. /\ StateAfter(w) \in StoredStates
      /\ StateAfter(w).cursor \in FlowNodes => Home[StateAfter(w).cursor] = StateAfter(w).flow
      /\ FramesFit(StateAfter(w).stack)
  <2> DEFINE ended == [Absent EXCEPT !.cursor = EndedMark]
             going == [cursor |-> me.cursor, flow |-> me.flow, stack |-> me.stack]
  <2>1. ended \in StoredStates /\ ended.cursor = EndedMark /\ ended.stack = <<>>
    BY AbsentFits DEF Absent
  <2>2. going \in StoredStates
    BY <1>2 DEF StoredStates, WalkerStates
  <2>3. StateAfter(w) = ended \/ StateAfter(w) = going
    BY DEF StateAfter
  <2>4. CASE StateAfter(w) = ended
    <3> HIDE DEF ended
    <3>1. QED
      BY <2>1, <2>4, NodesAssumption DEF FramesFit
  <2>5. CASE StateAfter(w) = going
    BY <1>2, <2>2, <2>5, NodesAssumption
  <2>6. QED
    BY <2>3, <2>4, <2>5
<1>4. PICK new \in WalkerStates : Fits(new) /\ walker' = [walker EXCEPT ![w] = new]
  BY FinishedFits DEF Stores
<1>5. RuntimeTypeOK'
  BY <1>1, <1>3, <1>4 DEF IInv, RuntimeTypeOK
<1>6. CursorIsInItsFlow' /\ TimersFit' /\ graph' \in Graphs
  BY <1>1, <1>3 DEF IInv, CursorIsInItsFlow, TimersFit, FramesFit
<1>7. ASSUME NEW v \in Walkers PROVE Fits(walker[v])'
  <2>1. Fits(walker'[v])
    BY <1>4 DEF IInv, RuntimeTypeOK
  <2>2. QED
    BY <1>1, <2>1 DEF Fits, Fresh, OnItsFlow, Asking, Answered, FramesFit, Once
<1>8. QED
  BY <1>5, <1>6, <1>7 DEF IInv

LEMMA TurnLoadsKeeps == ASSUME IInv, NEW u \in Talks, TurnLoads(u) PROVE IInv'
<1> DEFINE me == walker[u]
           new == [me EXCEPT !.pc = IF activeFlows = {} THEN "done" ELSE "read", !.live = activeFlows]
<1>1. /\ u \in Walkers /\ me.pc = "idle" /\ walker' = [walker EXCEPT ![u] = new]
      /\ pend' \subseteq pend /\ orderly' = (orderly /\ Still)
      /\ UNCHANGED <<graph, activeFlows, stored, owed, timed>>
  BY DEF TurnLoads, Stand, Walkers
<1>2. me \in WalkerStates /\ Fits(me) /\ activeFlows \in SUBSET Flows
  BY <1>1, WalkerParts DEF IInv, RuntimeTypeOK
<1>3. /\ new \in WalkerStates /\ new.pc \in {"done", "read"} /\ new.stack = me.stack
      /\ new.took = me.took /\ new.hasty = me.hasty /\ new.said = me.said /\ new.message = me.message
  BY <1>2 DEF WalkerStates
<1> HIDE DEF new
<1>4. Fits(new)
  BY <1>1, <1>2, <1>3 DEF Fits, Fresh, Once
<1>5. orderly' \in BOOLEAN
  <2>1. orderly \in BOOLEAN /\ Still \in BOOLEAN
    BY DEF IInv, RuntimeTypeOK, Still
  <2>2. QED
    BY <1>1, <2>1
<1>6. RuntimeTypeOK'
  BY <1>1, <1>3, <1>5 DEF IInv, RuntimeTypeOK
<1>7. CursorIsInItsFlow' /\ TimersFit' /\ graph' \in Graphs
  BY <1>1 DEF IInv, CursorIsInItsFlow, TimersFit
<1>8. ASSUME NEW v \in Walkers PROVE Fits(walker[v])'
  <2>1. Fits(walker'[v])
    BY <1>1, <1>4 DEF IInv, RuntimeTypeOK
  <2>2. QED
    BY <1>1, <2>1 DEF Fits, Fresh, OnItsFlow, Asking, Answered, FramesFit, Once
<1>9. QED
  BY <1>6, <1>7, <1>8 DEF IInv

LEMMA TurnReadsKeeps == ASSUME IInv, NEW u \in Talks, TurnReads(u) PROVE IInv'
<1> DEFINE me == walker[u]
<1>1. /\ u \in Walkers /\ me.pc = "read"
      /\ UNCHANGED <<graph, activeFlows, stored, pend, owed, timed>>
  BY DEF TurnReads, Stand, Walkers
<1>2. me \in WalkerStates /\ Fits(me)
  BY <1>1, WalkerParts
<1>3. PICK seen \in {stored, Absent} :
          /\ \/ seen.cursor \notin {NoNode, EndedMark} /\ seen.flow \in me.live
                /\ Enters(u, seen.flow, seen.cursor, seen.stack)
             \/ \E f \in pickFlowForMessage(me.live, seen.cursor = EndedMark) : Enters(u, f, NoNode, seen.stack)
             \/ walker' = [walker EXCEPT ![u] = [AtRest EXCEPT !.pc = "done"]]
          /\ orderly' = (orderly /\ seen = stored)
  BY DEF TurnReads
<1>4. /\ seen \in StoredStates /\ FramesFit(seen.stack)
      /\ seen.cursor \in FlowNodes => Home[seen.cursor] = seen.flow
  <2>1. CASE seen = stored
    BY <2>1 DEF IInv, RuntimeTypeOK, CursorIsInItsFlow, FramesFit
  <2>2. CASE seen = Absent
    BY <2>2, AbsentFits, NodesAssumption DEF FramesFit
  <2>3. QED
    BY <2>1, <2>2
<1>5. /\ UNCHANGED <<graph, stored, pend>> /\ activeFlows' \subseteq Flows
      /\ owed' \in Seq(FlowNodes) /\ timed' \in BOOLEAN
  BY <1>1 DEF IInv, RuntimeTypeOK
<1>6. orderly' \in BOOLEAN
  <2>1. orderly \in BOOLEAN
    BY DEF IInv, RuntimeTypeOK
  <2>2. QED
    BY <1>3, <2>1
<1>7. ASSUME NEW f \in Flows, NEW n \in NodeOrNone, n # NoNode => Home[n] = f, Enters(u, f, n, seen.stack)
      PROVE  IInv'
  <2> DEFINE at == IF n = NoNode THEN First[f] ELSE n
             mid == [me EXCEPT !.pc = "walk", !.flow = f, !.entry = f, !.from = n]
             new == [mid EXCEPT !.at = at, !.stack = seen.stack, !.message = TRUE]
  <2>1. at \in NodeOrNone /\ at # NoNode /\ Home[at] = f /\ seen.stack \in Seq(Frames)
    BY <1>4, <1>7, FlowsAssumption, NodesAssumption DEF NodeOrNone, StoredStates
  <2>2. walker' = [walker EXCEPT ![u] = new]
    BY <1>7 DEF Enters
  <2> HIDE DEF at
  <2>3. /\ mid \in WalkerStates /\ mid.pc = "walk" /\ mid.flow = f
        /\ mid.took = me.took /\ mid.hasty = me.hasty /\ mid.said = me.said
    BY <1>2 DEF WalkerStates
  <2> HIDE DEF mid
  <2>4. /\ new \in WalkerStates /\ new.pc = "walk" /\ new.flow = f /\ new.at = at /\ new.stack = seen.stack
        /\ new.took = me.took /\ new.hasty = me.hasty /\ new.said = me.said
    BY <2>1, <2>3 DEF WalkerStates
  <2> HIDE DEF new
  <2>5. me.took = 0 /\ ~me.said /\ Once(me)
    BY <1>1, <1>2 DEF Fits, Fresh
  <2>6. OnItsFlow(new) /\ Asking(new) /\ Once(new)
    BY <2>1, <2>4, <2>5 DEF OnItsFlow, Asking, Once
  <2>7. Fits(new)
    BY <1>4, <2>4, <2>6 DEF Fits
  <2>8. QED
    BY <1>1, <1>5, <1>6, <2>2, <2>4, <2>7, StepKeeps
<1>8. CASE /\ seen.cursor \notin {NoNode, EndedMark} /\ seen.flow \in me.live
           /\ Enters(u, seen.flow, seen.cursor, seen.stack)
  <2>1. seen.cursor \in FlowNodes /\ seen.flow \in Flows
    BY <1>2, <1>4, <1>8 DEF StoredStates, NodeOrNone, WalkerStates
  <2>2. QED
    BY <1>4, <1>7, <1>8, <2>1 DEF NodeOrNone
<1>9. ASSUME NEW f \in pickFlowForMessage(me.live, seen.cursor = EndedMark), Enters(u, f, NoNode, seen.stack)
      PROVE  IInv'
  <2>1. f \in Flows /\ NoNode \in NodeOrNone
    BY <1>2 DEF pickFlowForMessage, WalkerStates, NodeOrNone
  <2>2. QED
    BY <1>7, <1>9, <2>1
<1>10. CASE walker' = [walker EXCEPT ![u] = [AtRest EXCEPT !.pc = "done"]]
  <2>1. PICK new \in WalkerStates : Fits(new) /\ walker' = [walker EXCEPT ![u] = new]
    BY <1>1, <1>10, FinishedFits DEF Finished
  <2>2. QED
    BY <1>1, <1>5, <1>6, <2>1, StepKeeps
<1>11. QED
  BY <1>3, <1>8, <1>9, <1>10

(* A timer walks from its node, without a message.                         *)
LEMMA AlarmFiresKeeps == ASSUME IInv, NEW a \in Alarms, NEW m \in pend, AlarmFires(a, m) PROVE IInv'
<1> DEFINE rest == AtRest
           new == [rest EXCEPT !.pc = "walk", !.flow = m.flow, !.entry = m.flow, !.at = m.node, !.from = m.node]
<1>1. /\ a \in Walkers /\ pend' \subseteq pend
      /\ \/ walker' = [walker EXCEPT ![a] = new] /\ orderly' = (orderly /\ Still) /\ timed' = TRUE
         \/ UNCHANGED <<walker, orderly, timed>>
      /\ UNCHANGED <<graph, activeFlows, stored, owed>>
  BY DEF AlarmFires, Walkers
<1>2. m.flow \in Flows /\ m.node \in NodeOrNone /\ Home[m.node] = m.flow
  BY DEF IInv, RuntimeTypeOK, PendingTimers, TimersFit, NodeOrNone
<1>3. rest \in WalkerStates /\ Fits(rest) /\ rest.stack = <<>> /\ ~rest.message
  BY AtRestFits DEF AtRest
<1> HIDE DEF rest
<1>4. /\ new \in WalkerStates /\ new.pc = "walk" /\ new.flow = m.flow /\ new.at = m.node /\ new.stack = rest.stack
      /\ new.message = rest.message /\ new.took = rest.took /\ new.hasty = rest.hasty
  BY <1>2, <1>3 DEF WalkerStates
<1> HIDE DEF new
<1>5. OnItsFlow(new) /\ Asking(new) /\ Once(new)
  BY <1>2, <1>3, <1>4 DEF OnItsFlow, Asking, Once, Fits
<1>6. Fits(new)
  BY <1>3, <1>4, <1>5 DEF Fits
<1>7. orderly' \in BOOLEAN /\ timed' \in BOOLEAN
  <2>1. orderly \in BOOLEAN /\ timed \in BOOLEAN /\ Still \in BOOLEAN
    BY DEF IInv, RuntimeTypeOK, Still
  <2>2. QED
    BY <1>1, <2>1
<1>8. RuntimeTypeOK' /\ CursorIsInItsFlow' /\ TimersFit' /\ graph' \in Graphs
  <2>1. walker' \in [Walkers -> WalkerStates]
    BY <1>1, <1>4 DEF IInv, RuntimeTypeOK
  <2>2. QED
    BY <1>1, <1>7, <2>1 DEF IInv, RuntimeTypeOK, CursorIsInItsFlow, TimersFit
<1>9. ASSUME NEW v \in Walkers PROVE Fits(walker[v])'
  <2>1. Fits(walker'[v])
    BY <1>1, <1>6 DEF IInv, RuntimeTypeOK
  <2>2. QED
    BY <1>1, <2>1 DEF Fits, Fresh, OnItsFlow, Asking, Answered, FramesFit, Once
<1>10. QED
  BY <1>8, <1>9 DEF IInv

(* The cache forgets, a flow is switched off.                              *)
LEMMA WorldKeeps ==
    ASSUME IInv, StateExpires \/ \E f \in Flows : DeactivateFlow(f)
    PROVE  IInv'
<1>1. UNCHANGED <<graph, pend, walker, orderly, timed>> /\ activeFlows' \subseteq Flows
  BY DEF StateExpires, DeactivateFlow, IInv, RuntimeTypeOK
<1>2. /\ stored' \in StoredStates /\ owed' \in Seq(FlowNodes)
      /\ stored'.cursor \in FlowNodes => Home[stored'.cursor] = stored'.flow
      /\ FramesFit(stored'.stack)
  <2>1. CASE StateExpires
    BY <2>1, AbsentFits, NodesAssumption DEF StateExpires, FramesFit
  <2>2. CASE \E f \in Flows : DeactivateFlow(f)
    BY <2>2 DEF DeactivateFlow, IInv, RuntimeTypeOK, CursorIsInItsFlow, FramesFit
  <2>3. QED
    BY <2>1, <2>2
<1>3. RuntimeTypeOK'
  BY <1>1, <1>2 DEF IInv, RuntimeTypeOK
<1>4. CursorIsInItsFlow' /\ TimersFit' /\ graph' \in Graphs
  BY <1>1, <1>2 DEF IInv, CursorIsInItsFlow, TimersFit, FramesFit
<1>5. \A w \in Walkers : Fits(walker[w])'
  BY <1>1 DEF IInv, Fits, Fresh, OnItsFlow, Asking, Answered, FramesFit, Once
<1>6. QED
  BY <1>3, <1>4, <1>5 DEF IInv

----------------------------------------------------------------------------
(* The invariant is inductive.                                             *)
LEMMA InitInvariant == RuntimeInit => IInv
<1> SUFFICES ASSUME RuntimeInit PROVE IInv
  OBVIOUS
<1>1. graph \in [FlowNodes -> Shapes] /\ graph \in Graphs /\ stored \in StoredStates
  BY GraphsAssumption, AbsentFits DEF RuntimeInit
<1>2. walker \in [Walkers -> WalkerStates] /\ \A w \in Walkers : Fits(walker[w])
  BY AtRestFits DEF RuntimeInit
<1>3. RuntimeTypeOK
  <2>1. activeFlows \subseteq Flows /\ pend \subseteq PendingTimers /\ orderly \in BOOLEAN /\ timed \in BOOLEAN
    BY DEF RuntimeInit
  <2>2. owed = <<>>
    BY DEF RuntimeInit
  <2>3. owed \in Seq(FlowNodes)
    BY <2>2
  <2>4. QED
    BY <1>1, <1>2, <2>1, <2>3 DEF RuntimeTypeOK
<1>4. CursorIsInItsFlow /\ TimersFit
  BY AbsentFits, NodesAssumption DEF RuntimeInit, CursorIsInItsFlow, TimersFit
<1>5. QED
  BY <1>1, <1>2, <1>3, <1>4 DEF IInv

LEMMA NextInvariant == IInv /\ [RuntimeNext]_runtimeVars => IInv'
<1> SUFFICES ASSUME IInv, [RuntimeNext]_runtimeVars PROVE IInv'
  OBVIOUS
<1>1. ASSUME NEW u \in Talks, TurnLoads(u) \/ TurnReads(u) \/ HopEnters(u) \/ HopReturns(u) PROVE IInv'
  BY <1>1, TurnLoadsKeeps, TurnReadsKeeps, HopEntersKeeps, HopReturnsKeeps
<1>2. ASSUME NEW w \in Walkers, WalkerStep(w) \/ WalkFails(w) PROVE IInv'
  BY <1>2, WalkOnKeeps, WalkEndsKeeps, WalkAskKeeps, WalkConditionKeeps, WalkAiKeeps, WalkTransferKeeps,
     WalkWaitKeeps, WalkGotoKeeps, HopStopsKeeps, BooksKeeps, StoresKeeps, WalkFailsKeeps DEF WalkerStep
<1>3. ASSUME NEW a \in Alarms, NEW m \in pend, AlarmFires(a, m) PROVE IInv'
  BY <1>3, AlarmFiresKeeps
<1>4. CASE StateExpires \/ \E f \in Flows : DeactivateFlow(f)
  BY <1>4, WorldKeeps
<1>5. CASE UNCHANGED runtimeVars
  <2>1. UNCHANGED <<graph, activeFlows, stored, pend, walker, owed, orderly, timed>>
    BY <1>5 DEF runtimeVars
  <2>2. RuntimeTypeOK' /\ CursorIsInItsFlow' /\ TimersFit' /\ graph' \in Graphs
    BY <2>1 DEF IInv, RuntimeTypeOK, CursorIsInItsFlow, TimersFit
  <2>3. \A w \in Walkers : Fits(walker[w])'
    BY <2>1 DEF IInv, Fits, Fresh, OnItsFlow, Asking, Answered, FramesFit, Once
  <2>4. QED
    BY <2>2, <2>3 DEF IInv
<1>6. QED
  BY <1>1, <1>2, <1>3, <1>4, <1>5 DEF RuntimeNext

LEMMA Invariance == RuntimeSpec => []IInv
  BY InitInvariant, NextInvariant, PTL DEF RuntimeSpec

(* The variables of FlowRuntime keep their shapes. *)
THEOREM TypeCorrectness == RuntimeSpec => []RuntimeTypeOK
<1>1. IInv => RuntimeTypeOK
  BY DEF IInv
<1>2. QED
  BY <1>1, Invariance, PTL

(* However turns and timers of a conversation overlap, the state that the  *)
(* last of them writes whole names a node and the flow it belongs to.      *)
THEOREM CursorsFit == RuntimeSpec => []CursorIsInItsFlow
<1>1. IInv => CursorIsInItsFlow
  BY DEF IInv
<1>2. QED
  BY <1>1, Invariance, PTL

(* A message is matched at one node at most, over all the flows its turn   *)
(* hops through, and never behind something the turn has sent              *)
(* (resolveFlowStep, runFlowTurn).                                         *)
THEOREM MessagesAnswerOnce == RuntimeSpec => []AnswersWhatWasAsked
<1>1. ASSUME IInv PROVE AnswersWhatWasAsked
  <2>1. \A w \in Walkers : Once(walker[w])
    BY <1>1 DEF IInv, Fits
  <2>2. QED
    BY <2>1 DEF AnswersWhatWasAsked, Once
<1>2. QED
  BY <1>1, Invariance, PTL

----------------------------------------------------------------------------
(* The calls and their returns.                                            *)

(* A walk that carries the stack, between its read of the cache and its    *)
(* write.                                                                  *)
Carrying(w) == walker[w].pc \in {"walk", "hop", "book", "store"}
Moving(w) == walker[w].pc \notin {"idle", "done"}

(* As long as walks neither overlap nor fail and no timer walks: one turn  *)
(* at most is on its way, and what is owed is listed by the stack that it  *)
(* carries, or else by the one in the cache.                               *)
InTurns ==
    orderly /\ ~timed =>
        /\ \A a \in Alarms : ~Moving(a)
        /\ \A v, w \in Walkers : Moving(v) /\ Moving(w) => v = w
        /\ \A w \in Walkers : Carrying(w) => Lists(owed, walker[w].stack)
        /\ (\A w \in Walkers : ~Carrying(w)) => Lists(owed, stored.stack)
ReturnsInv == IInv /\ InTurns

----------------------------------------------------------------------------
(* A frame pushed, a frame popped, and a stack without open frames.        *)
LEMMA NothingListed == Lists(<<>>, <<>>)
<1> DEFINE at == [k \in DOMAIN <<>> |-> 0]
<1>1. OpenFrames(<<>>) = {} /\ DOMAIN <<>> = {}
  BY DEF OpenFrames
<1>2. at \in [DOMAIN <<>> -> OpenFrames(<<>>)]
  BY <1>1
<1> QED
  BY <1>1, <1>2 DEF Lists

LEMMA NothingOpen ==
    ASSUME NEW nodes \in Seq(FlowNodes), NEW stack, Lists(nodes, stack), OpenFrames(stack) = {}
    PROVE  nodes = <<>>
<1>1. DOMAIN nodes = {}
  BY DEF Lists
<1> QED
  BY <1>1

LEMMA OpenFramePushed ==
    ASSUME NEW nodes \in Seq(FlowNodes), NEW stack \in Seq(Frames), Lists(nodes, stack),
           NEW frame \in Frames, frame.back # NoNode
    PROVE  Lists(Append(nodes, frame.back), Append(stack, frame))
<1> DEFINE more == Append(nodes, frame.back)
           higher == Append(stack, frame)
           n == Len(nodes) + 1
           top == Len(stack) + 1
<1>1. PICK at \in [DOMAIN nodes -> OpenFrames(stack)] :
        /\ \A i \in OpenFrames(stack) : \E k \in DOMAIN nodes : at[k] = i
        /\ \A k \in DOMAIN nodes : nodes[k] = stack[at[k]].back
        /\ \A j, k \in DOMAIN nodes : j < k => at[j] < at[k]
  BY DEF Lists
<1>2. /\ DOMAIN nodes = 1..Len(nodes) /\ Len(nodes) \in Nat
      /\ DOMAIN stack = 1..Len(stack) /\ Len(stack) \in Nat
  OBVIOUS
<1>3. /\ DOMAIN more = 1..n /\ more[n] = frame.back /\ \A k \in DOMAIN nodes : more[k] = nodes[k]
      /\ DOMAIN higher = 1..top /\ higher[top] = frame /\ \A i \in DOMAIN stack : higher[i] = stack[i]
  BY <1>2
<1> HIDE DEF more, higher
<1>4. OpenFrames(higher) = OpenFrames(stack) \cup {top} /\ \A i \in OpenFrames(stack) : i \in 1..Len(stack)
  BY <1>2, <1>3 DEF OpenFrames
<1> DEFINE up == [k \in 1..n |-> IF k = n THEN top ELSE at[k]]
<1>5. \A k \in DOMAIN nodes : k \in 1..n /\ k # n /\ up[k] = at[k] /\ at[k] \in OpenFrames(stack)
  BY <1>1, <1>2
<1>6. up[n] = top /\ n \in 1..n /\ \A k \in 1..n : k = n \/ k \in DOMAIN nodes
  BY <1>2
<1>7. up \in [DOMAIN more -> OpenFrames(higher)]
  BY <1>1, <1>3, <1>4, <1>5, <1>6
<1> HIDE DEF up
<1>8. \A i \in OpenFrames(higher) : \E k \in DOMAIN more : up[k] = i
  BY <1>1, <1>3, <1>4, <1>5, <1>6
<1>9. \A k \in DOMAIN more : more[k] = higher[up[k]].back
  <2> SUFFICES ASSUME NEW k \in DOMAIN more PROVE more[k] = higher[up[k]].back
    OBVIOUS
  <2>1. CASE k = n
    BY <2>1, <1>3, <1>6
  <2>2. CASE k \in DOMAIN nodes
    BY <2>2, <1>1, <1>3, <1>5 DEF OpenFrames
  <2> QED
    BY <2>1, <2>2, <1>3, <1>6
<1>10. \A j, k \in DOMAIN more : j < k => up[j] < up[k]
  <2> SUFFICES ASSUME NEW j \in DOMAIN more, NEW k \in DOMAIN more, j < k PROVE up[j] < up[k]
    OBVIOUS
  <2>1. j \in DOMAIN nodes
    BY <1>2, <1>3
  <2>2. CASE k = n
    BY <2>1, <2>2, <1>2, <1>4, <1>5, <1>6
  <2>3. CASE k \in DOMAIN nodes
    BY <2>1, <2>3, <1>1, <1>5
  <2> QED
    BY <2>2, <2>3, <1>3, <1>6
<1> QED
  BY <1>7, <1>8, <1>9, <1>10 DEF Lists, more, higher

LEMMA OtherFramePushed ==
    ASSUME NEW nodes \in Seq(FlowNodes), NEW stack \in Seq(Frames), Lists(nodes, stack),
           NEW frame \in Frames, frame.back = NoNode
    PROVE  Lists(nodes, Append(stack, frame))
<1>1. OpenFrames(Append(stack, frame)) = OpenFrames(stack)
  BY DEF OpenFrames
<1>2. \A i \in OpenFrames(stack) : Append(stack, frame)[i] = stack[i]
  BY DEF OpenFrames
<1> QED
  BY <1>1, <1>2 DEF Lists

LEMMA FramePopped ==
    ASSUME NEW nodes \in Seq(FlowNodes), NEW stack \in Seq(Frames), Lists(nodes, stack),
           NEW i \in OpenFrames(stack), \A j \in OpenFrames(stack) : j <= i
    PROVE  nodes # <<>> /\ Lists(SubSeq(nodes, 1, Len(nodes) - 1), SubSeq(stack, 1, i - 1))
<1> DEFINE fewer == SubSeq(nodes, 1, Len(nodes) - 1)
           lower == SubSeq(stack, 1, i - 1)
           n == Len(nodes)
<1>1. PICK at \in [DOMAIN nodes -> OpenFrames(stack)] :
        /\ \A f \in OpenFrames(stack) : \E k \in DOMAIN nodes : at[k] = f
        /\ \A k \in DOMAIN nodes : nodes[k] = stack[at[k]].back
        /\ \A j, k \in DOMAIN nodes : j < k => at[j] < at[k]
  BY DEF Lists
<1>2. /\ DOMAIN nodes = 1..n /\ n \in Nat
      /\ DOMAIN stack = 1..Len(stack) /\ Len(stack) \in Nat
      /\ OpenFrames(stack) \subseteq 1..Len(stack) /\ i \in 1..Len(stack)
  BY DEF OpenFrames
<1>3. n > 0 /\ n \in DOMAIN nodes
  BY <1>1, <1>2
<1>4. at[n] = i
  BY <1>1, <1>2, <1>3
<1>5. /\ DOMAIN fewer = 1..(n - 1) /\ \A k \in 1..(n - 1) : fewer[k] = nodes[k] /\ k \in DOMAIN nodes
      /\ DOMAIN lower = 1..(i - 1) /\ \A f \in 1..(i - 1) : lower[f] = stack[f] /\ f \in DOMAIN stack
  BY <1>2, <1>3
<1> HIDE DEF fewer, lower, n
<1>6. OpenFrames(lower) = OpenFrames(stack) \ {i}
  BY <1>2, <1>5 DEF OpenFrames
<1> DEFINE down == [k \in 1..(n - 1) |-> at[k]]
<1>7. \A k \in 1..(n - 1) : down[k] = at[k] /\ at[k] \in OpenFrames(stack) /\ at[k] # i /\ at[k] \in OpenFrames(lower)
  <2> SUFFICES ASSUME NEW k \in 1..(n - 1) PROVE at[k] \in OpenFrames(stack) /\ at[k] # i
    BY <1>6
  <2>1. k \in DOMAIN nodes /\ k < n
    BY <1>2, <1>5
  <2>2. at[k] < at[n]
    BY <1>1, <1>3, <2>1
  <2> QED
    BY <1>1, <1>2, <1>4, <2>1, <2>2
<1>8. down \in [DOMAIN fewer -> OpenFrames(lower)]
  BY <1>5, <1>7
<1> HIDE DEF down
<1>9. \A f \in OpenFrames(lower) : \E k \in DOMAIN fewer : down[k] = f
  <2> SUFFICES ASSUME NEW f \in OpenFrames(lower) PROVE \E k \in DOMAIN fewer : down[k] = f
    OBVIOUS
  <2>1. PICK k \in DOMAIN nodes : at[k] = f
    BY <1>1, <1>6
  <2>2. k # n
    BY <1>4, <1>6, <2>1
  <2>3. k \in 1..(n - 1)
    BY <1>2, <2>1, <2>2
  <2>4. k \in DOMAIN fewer /\ down[k] = f
    BY <1>5, <1>7, <2>1, <2>3
  <2> QED
    BY <2>4
<1>10. \A k \in DOMAIN fewer : fewer[k] = lower[down[k]].back
  BY <1>1, <1>5, <1>7 DEF OpenFrames
<1>11. \A j, k \in DOMAIN fewer : j < k => down[j] < down[k]
  BY <1>1, <1>5, <1>7
<1>12. Lists(fewer, lower)
  BY <1>8, <1>9, <1>10, <1>11 DEF Lists
<1> QED
  BY <1>3, <1>12 DEF fewer, lower, n

----------------------------------------------------------------------------
(* A step of a walk that carries its stack on, and leaves what is owed.    *)
LEMMA CarriesOn ==
    ASSUME ReturnsInv, NEW w \in Walkers, Carrying(w), NEW new, walker' = [walker EXCEPT ![w] = new],
           new.pc \in {"walk", "hop", "book", "store"},
           orderly' = orderly, timed' = timed, stored' = stored,
           orderly /\ ~timed => Lists(owed', new.stack)
    PROVE  InTurns'
<1>1. walker \in [Walkers -> WalkerStates]
  BY DEF ReturnsInv, IInv, RuntimeTypeOK
<1>2. walker'[w] = new /\ \A v \in Walkers : v # w => walker'[v] = walker[v]
  BY <1>1
<1>3. Carrying(w)' /\ Moving(w) /\ \A v \in Walkers : Moving(v)' <=> Moving(v)
  BY <1>2 DEF Carrying, Moving
<1>4. \A v \in Walkers : Carrying(v) => Moving(v)
  BY DEF Carrying, Moving
<1>5. \A v \in Walkers : v # w => (Carrying(v)' <=> Carrying(v))
  BY <1>2 DEF Carrying
<1>6. SUFFICES ASSUME orderly, ~timed
               PROVE  /\ \A a \in Alarms : ~Moving(a)'
                      /\ \A v, x \in Walkers : Moving(v)' /\ Moving(x)' => v = x
                      /\ \A v \in Walkers : Carrying(v)' => Lists(owed', walker'[v].stack)
                      /\ ~\A v \in Walkers : ~Carrying(v)'
  BY DEF InTurns, Lists, OpenFrames
<1>7. /\ \A a \in Alarms : ~Moving(a)
      /\ \A v, x \in Walkers : Moving(v) /\ Moving(x) => v = x
  BY <1>6 DEF ReturnsInv, InTurns
<1>8. \A a \in Alarms : a \in Walkers
  BY DEF Walkers
<1>9. \A v \in Walkers : Carrying(v)' => v = w
  BY <1>3, <1>4, <1>5, <1>7
<1> QED
  BY <1>2, <1>3, <1>6, <1>7, <1>8, <1>9

(* What a turn carries is listed.                                          *)
LEMMA CarriedIsListed ==
    ASSUME ReturnsInv, NEW w \in Walkers, Carrying(w)
    PROVE  orderly /\ ~timed => Lists(owed, walker[w].stack)
  BY DEF ReturnsInv, InTurns

(* The nodes leave the stack alone.                                        *)
Onward(w) ==
    \E new : /\ walker' = [walker EXCEPT ![w] = new]
             /\ new.pc \in {"walk", "hop", "book", "store"} /\ new.stack = walker[w].stack

LEMMA AdvancesOn ==
    ASSUME NEW w \in Walkers, NEW me \in WalkerStates, me.pc = "walk", me.steps < MAX_WALK,
           me.stack = walker[w].stack, NEW n \in NodeOrNone, walker' = [walker EXCEPT ![w] = Advance(me, n)]
    PROVE  Onward(w)
<1>1. Advance(me, n).pc = "walk" /\ Advance(me, n).stack = walker[w].stack
  BY AdvanceTypes
<1> QED
  BY <1>1 DEF Onward

LEMMA ReturnsOn ==
    ASSUME NEW w \in Walkers, NEW me \in WalkerStates, me.stack = walker[w].stack,
           NEW next \in Results, NEW cursor \in NodeOrNone,
           walker' = [walker EXCEPT ![w] = Returns(me, next, cursor)]
    PROVE  Onward(w)
<1>1. Returns(me, next, cursor).pc = "hop" /\ Returns(me, next, cursor).stack = walker[w].stack
  BY ReturnsTypes
<1> QED
  BY <1>1 DEF Onward

LEMMA NodesGoOn ==
    ASSUME IInv, NEW w \in Walkers,
           \/ WalkOn(w) \/ WalkEnds(w) \/ WalkAsk(w) \/ WalkCondition(w) \/ WalkAi(w) \/ WalkTransfer(w)
           \/ WalkWait(w) \/ WalkGoto(w) \/ HopStops(w) \/ Books(w)
    PROVE  Onward(w)
<1> DEFINE me == walker[w]
<1>1. me \in WalkerStates /\ NoNode \in NodeOrNone
  BY WalkerParts DEF NodeOrNone
<1>2. ASSUME NEW kinds, OnNode(w, kinds)
      PROVE  /\ me.pc = "walk" /\ me.steps < MAX_WALK /\ me.at \in NodeOrNone /\ Shape(w).kind \in kinds
             /\ Shape(w).next \in NodeOrNone /\ Shape(w).other \in NodeOrNone
  BY <1>2, NodeParts DEF NodeOrNone
<1>3. /\ Taken(me) \in WalkerStates /\ Taken(me).pc = me.pc /\ Taken(me).steps = me.steps
      /\ Taken(me).stack = me.stack
      /\ Spoken(me) \in WalkerStates /\ Spoken(me).pc = me.pc /\ Spoken(me).steps = me.steps
      /\ Spoken(me).stack = me.stack
  BY <1>1, TakenTypes, SpokenTypes
<1>4. \A asks \in WalkerStates :
         LET said == [asks EXCEPT !.said = TRUE] IN said \in WalkerStates /\ said.stack = asks.stack
  BY DEF WalkerStates
<1> HIDE DEF me
<1>5. CASE WalkOn(w)
  <2>1. OnNode(w, {"pass", "say"})
        /\ walker' = [walker EXCEPT ![w] = Advance(IF Shape(w).kind = "say" THEN Spoken(me) ELSE me, Shape(w).next)]
    BY <1>5 DEF WalkOn, me
  <2> QED
    BY <1>1, <1>2, <1>3, <2>1, AdvancesOn DEF me
<1>6. CASE WalkEnds(w) \/ WalkTransfer(w)
  <2>1. walker' = [walker EXCEPT ![w] = Returns(me, "end", NoNode)]
    BY <1>6 DEF WalkEnds, WalkTransfer, me
  <2> QED
    BY <1>1, <2>1, ReturnsOn DEF me, Results
<1>7. CASE WalkAsk(w)
  <2>1. OnNode(w, {"ask"})
        /\ \/ \E n \in {Shape(w).next, Shape(w).other} : walker' = [walker EXCEPT ![w] = Advance(Taken(me), n)]
           \/ \E asks \in {me, Taken(me)} :
                 walker' = [walker EXCEPT ![w] = Returns([asks EXCEPT !.said = TRUE], "await_input", me.at)]
    BY <1>7 DEF WalkAsk, me
  <2>2. CASE \E n \in {Shape(w).next, Shape(w).other} : walker' = [walker EXCEPT ![w] = Advance(Taken(me), n)]
    BY <1>2, <1>3, <2>1, <2>2, AdvancesOn DEF me
  <2>3. ASSUME NEW asks \in {me, Taken(me)},
               walker' = [walker EXCEPT ![w] = Returns([asks EXCEPT !.said = TRUE], "await_input", me.at)]
        PROVE  Onward(w)
    <3> DEFINE said == [asks EXCEPT !.said = TRUE]
    <3>1. said \in WalkerStates /\ said.stack = walker[w].stack
      BY <1>1, <1>3, <1>4 DEF me
    <3>2. walker' = [walker EXCEPT ![w] = Returns(said, "await_input", me.at)]
      BY <2>3
    <3> HIDE DEF said
    <3> QED
      BY <1>2, <2>1, <3>1, <3>2, ReturnsOn DEF Results
  <2> QED
    BY <2>1, <2>2, <2>3
<1>8. CASE WalkCondition(w)
  <2>1. OnNode(w, {"condition"})
        /\ \/ \E n \in {Shape(w).next, Shape(w).other} : walker' = [walker EXCEPT ![w] = Advance(Taken(me), n)]
           \/ walker' = [walker EXCEPT ![w] = Returns(me, "await_input", me.at)]
    BY <1>8 DEF WalkCondition, me
  <2>2. CASE \E n \in {Shape(w).next, Shape(w).other} : walker' = [walker EXCEPT ![w] = Advance(Taken(me), n)]
    BY <1>2, <1>3, <2>1, <2>2, AdvancesOn DEF me
  <2>3. CASE walker' = [walker EXCEPT ![w] = Returns(me, "await_input", me.at)]
    BY <1>1, <1>2, <2>1, <2>3, ReturnsOn DEF me, Results
  <2> QED
    BY <2>1, <2>2, <2>3
<1>9. CASE WalkAi(w)
  <2>1. OnNode(w, {"ai"}) /\ walker' = [walker EXCEPT ![w] = Returns(me, "ai", Shape(w).next)]
    BY <1>9 DEF WalkAi, me
  <2> QED
    BY <1>1, <1>2, <2>1, ReturnsOn DEF me, Results
<1>10. CASE WalkWait(w)
  <2> DEFINE exit == IF Shape(w).other # NoNode THEN Shape(w).other ELSE Shape(w).next
             cursor == IF Shape(w).kind = "wait" /\ Shape(w).other # NoNode THEN Shape(w).next ELSE NoNode
             at == [walker[w] EXCEPT !.exit = exit]
  <2>1. OnNode(w, {"wait", "schedule"}) /\ walker' = [walker EXCEPT ![w] = Returns(at, "scheduled", cursor)]
    BY <1>10 DEF WalkWait
  <2>2. exit \in NodeOrNone /\ cursor \in NodeOrNone
    BY <1>1, <1>2, <2>1
  <2> HIDE DEF exit, cursor
  <2>3. at \in WalkerStates /\ at.stack = walker[w].stack
    BY <1>1, <2>2 DEF WalkerStates, me
  <2> HIDE DEF at
  <2> QED
    BY <2>1, <2>2, <2>3, ReturnsOn DEF Results
<1>11. CASE WalkGoto(w)
  <2>1. OnNode(w, {"goto", "call"}) /\ walker' = [walker EXCEPT ![w] = Returns(me, Shape(w).kind, NoNode)]
    BY <1>11 DEF WalkGoto, me
  <2>2. Shape(w).kind \in Results
    BY <1>2, <2>1 DEF Results
  <2>3. me.stack = walker[w].stack
    BY DEF me
  <2> QED
    BY <1>1, <2>1, <2>2, <2>3, ReturnsOn
<1>12. CASE HopStops(w)
  <2>1. walker' = [walker EXCEPT ![w] = Stopping(me)]
    BY <1>12 DEF HopStops, me
  <2>2. Stopping(me).pc \in {"book", "store"} /\ Stopping(me).stack = walker[w].stack
    BY <1>1, StoppingTypes DEF me
  <2> QED
    BY <2>1, <2>2 DEF Onward
<1>13. CASE Books(w)
  <2> DEFINE new == [walker[w] EXCEPT !.pc = "store"]
  <2>1. walker' = [walker EXCEPT ![w] = new]
    BY <1>13 DEF Books
  <2>2. new.pc = "store" /\ new.stack = walker[w].stack
    BY <1>1 DEF WalkerStates, me
  <2> HIDE DEF new
  <2> QED
    BY <2>1, <2>2 DEF Onward
<1> QED
  BY <1>5, <1>6, <1>7, <1>8, <1>9, <1>10, <1>11, <1>12, <1>13

LEMMA NodesKeepTurns ==
    ASSUME ReturnsInv, NEW w \in Walkers,
           \/ WalkOn(w) \/ WalkEnds(w) \/ WalkAsk(w) \/ WalkCondition(w) \/ WalkAi(w) \/ WalkTransfer(w)
           \/ WalkWait(w) \/ WalkGoto(w) \/ HopStops(w) \/ Books(w)
    PROVE  InTurns'
<1>1. Carrying(w)
  BY DEF WalkOn, WalkEnds, WalkAsk, WalkCondition, WalkAi, WalkTransfer, WalkWait, WalkGoto, HopStops, Books,
         OnNode, Stand, Carrying
<1>2. UNCHANGED <<stored, owed, orderly, timed>>
  BY DEF WalkOn, WalkEnds, WalkAsk, WalkCondition, WalkAi, WalkTransfer, WalkWait, WalkGoto, HopStops, Books,
         Walked
<1>3. PICK new : /\ walker' = [walker EXCEPT ![w] = new]
                 /\ new.pc \in {"walk", "hop", "book", "store"} /\ new.stack = walker[w].stack
  BY NodesGoOn DEF ReturnsInv, Onward
<1>4. orderly /\ ~timed => Lists(owed', new.stack)
  BY <1>1, <1>2, <1>3, CarriedIsListed
<1> QED
  BY <1>1, <1>2, <1>3, <1>4, CarriesOn

(* A call pushes the node that it owes a return to, when there is one.     *)
LEMMA HopEntersKeepsTurns == ASSUME ReturnsInv, NEW u \in Talks, HopEnters(u) PROVE InTurns'
<1> DEFINE me == walker[u]
           into == Shape(u).into
           frame == [flow |-> me.flow, back |-> Shape(u).next]
           calls == me.next = "call"
           stack == IF calls THEN Append(me.stack, frame) ELSE me.stack
           went == [me EXCEPT !.stack = stack]
<1>1. /\ u \in Walkers /\ Hopping(u, {"call", "switch"})
      /\ \/ /\ into \in me.live /\ walker' = [walker EXCEPT ![u] = Resolve(went, into, NoNode)]
            /\ owed' = IF calls /\ frame.back # NoNode THEN Append(owed, frame.back) ELSE owed
         \/ walker' = [walker EXCEPT ![u] = Stopping(me)] /\ UNCHANGED owed
      /\ UNCHANGED <<graph, activeFlows, stored, pend, orderly, timed>>
  BY DEF HopEnters, Walkers
<1>2. /\ IInv /\ me \in WalkerStates /\ Answered(me)
      /\ HopsLeft(me) /\ me.next \in {"goto", "call"} /\ Carrying(u)
  BY <1>1, HopParts DEF ReturnsInv, Hopping, nextHopIntent, HopsLeft, Stand, Carrying
<1>3. me.flow \in Flows /\ me.at \in FlowNodes
  BY <1>2 DEF Answered, WalkerStates, NodeOrNone
<1>4. Shape(u).next \in NodeOrNone /\ into \in Flows
  BY <1>2, <1>3, EdgesStay DEF Shape, Shapes, NodeOrNone
<1>5. frame \in Frames /\ me.stack \in Seq(Frames) /\ NoNode \in NodeOrNone /\ owed \in Seq(FlowNodes)
  BY <1>2, <1>3, <1>4 DEF Frames, WalkerStates, NodeOrNone, IInv, RuntimeTypeOK
<1>6. orderly /\ ~timed => Lists(owed, me.stack)
  BY <1>1, <1>2, CarriedIsListed
<1>7. CASE walker' = [walker EXCEPT ![u] = Stopping(me)] /\ UNCHANGED owed
  <2>1. Stopping(me).pc \in {"book", "store"} /\ Stopping(me).stack = me.stack
    BY <1>2, StoppingTypes
  <2> QED
    BY <1>1, <1>2, <1>6, <1>7, <2>1, CarriesOn
<1>8. CASE /\ walker' = [walker EXCEPT ![u] = Resolve(went, into, NoNode)]
           /\ owed' = IF calls /\ frame.back # NoNode THEN Append(owed, frame.back) ELSE owed
  <2>1. orderly /\ ~timed => Lists(owed', stack)
    <3> SUFFICES ASSUME orderly, ~timed PROVE Lists(owed', stack)
      OBVIOUS
    <3> HIDE DEF me, frame
    <3>1. CASE calls /\ frame.back # NoNode
      <4>1. owed' = Append(owed, frame.back) /\ stack = Append(me.stack, frame)
        BY <1>8, <3>1
      <4> QED
        BY <1>5, <1>6, <3>1, <4>1, OpenFramePushed
    <3>2. CASE calls /\ frame.back = NoNode
      <4>1. owed' = owed /\ stack = Append(me.stack, frame)
        BY <1>8, <3>2
      <4> QED
        BY <1>5, <1>6, <3>2, <4>1, OtherFramePushed
    <3>3. CASE ~calls
      <4>1. owed' = owed /\ stack = me.stack
        BY <1>8, <3>3
      <4> QED
        BY <1>6, <4>1
    <3> QED
      BY <3>1, <3>2, <3>3
  <2>2. stack \in Seq(Frames)
    BY <1>5
  <2> HIDE DEF stack
  <2>3. went \in WalkerStates /\ went.stack = stack /\ HopsLeft(went)
    BY <1>2, <2>2, RestackTypes DEF HopsLeft
  <2> HIDE DEF went
  <2> DEFINE new == Resolve(went, into, NoNode)
  <2>4. new.pc = "walk" /\ new.stack = stack
    <3>1. Resolved(Resolve(went, into, NoNode), went, into, NoNode)
      BY <1>4, <1>5, <2>3, ResolveTypes
    <3> QED
      BY <2>3, <3>1 DEF Resolved
  <2>5. walker' = [walker EXCEPT ![u] = new]
    BY <1>8
  <2> HIDE DEF new
  <2> QED
    BY <1>1, <1>2, <2>1, <2>4, <2>5, CarriesOn
<1> QED
  BY <1>1, <1>7, <1>8

(* A return pays what was owed last.                                       *)
LEMMA HopReturnsKeepsTurns == ASSUME ReturnsInv, NEW u \in Talks, HopReturns(u) PROVE InTurns'
<1> DEFINE me == walker[u]
           bare == [me EXCEPT !.stack = <<>>]
           popped(i) == [me EXCEPT !.stack = SubSeq(me.stack, 1, i - 1)]
<1>1. /\ u \in Walkers /\ Hopping(u, {"return"})
      /\ \/ /\ OpenFrames(me.stack) = {}
            /\ walker' = [walker EXCEPT ![u] = Stopping(bare)] /\ UNCHANGED owed
         \/ \E i \in OpenFrames(me.stack) :
               /\ \A j \in OpenFrames(me.stack) : j <= i
               /\ walker' = [walker EXCEPT ![u] = IF me.stack[i].flow \in me.live
                                                  THEN Resolve(popped(i), me.stack[i].flow, me.stack[i].back)
                                                  ELSE Stopping(popped(i))]
               /\ owed' = IF owed = <<>> THEN owed ELSE SubSeq(owed, 1, Len(owed) - 1)
      /\ UNCHANGED <<graph, activeFlows, stored, pend, orderly, timed>>
  BY DEF HopReturns, Walkers
<1>2. /\ IInv /\ me \in WalkerStates /\ HopsLeft(me) /\ Carrying(u)
  BY <1>1, HopParts DEF ReturnsInv, Hopping, HopsLeft, Stand, Carrying
<1>3. me.stack \in Seq(Frames) /\ owed \in Seq(FlowNodes) /\ <<>> \in Seq(Frames)
  BY <1>2 DEF WalkerStates, IInv, RuntimeTypeOK
<1>4. orderly /\ ~timed => Lists(owed, me.stack)
  BY <1>1, <1>2, CarriedIsListed
<1>5. CASE OpenFrames(me.stack) = {} /\ walker' = [walker EXCEPT ![u] = Stopping(bare)] /\ UNCHANGED owed
  <2>1. orderly /\ ~timed => Lists(owed', <<>>)
    BY <1>3, <1>4, <1>5, NothingOpen, NothingListed
  <2>2. bare \in WalkerStates /\ bare.stack = <<>>
    BY <1>2, <1>3, RestackTypes
  <2> HIDE DEF bare
  <2> DEFINE new == Stopping(bare)
  <2>3. new.pc \in {"book", "store"} /\ new.stack = <<>>
    BY <2>2, StoppingTypes
  <2>4. walker' = [walker EXCEPT ![u] = new]
    BY <1>5
  <2> HIDE DEF new
  <2> QED
    BY <1>1, <1>2, <2>1, <2>3, <2>4, CarriesOn
<1>6. ASSUME NEW i \in OpenFrames(me.stack), \A j \in OpenFrames(me.stack) : j <= i,
             walker' = [walker EXCEPT ![u] = IF me.stack[i].flow \in me.live
                                             THEN Resolve(popped(i), me.stack[i].flow, me.stack[i].back)
                                             ELSE Stopping(popped(i))],
             owed' = IF owed = <<>> THEN owed ELSE SubSeq(owed, 1, Len(owed) - 1)
      PROVE  InTurns'
  <2> DEFINE rest == SubSeq(me.stack, 1, i - 1)
             went == [me EXCEPT !.stack = rest]
             new == IF me.stack[i].flow \in me.live THEN Resolve(went, me.stack[i].flow, me.stack[i].back)
                                                    ELSE Stopping(went)
  <2>1. orderly /\ ~timed => Lists(owed', rest)
    BY <1>3, <1>4, <1>6, FramePopped
  <2>2. me.stack[i].flow \in Flows /\ me.stack[i].back \in NodeOrNone /\ i \in DOMAIN me.stack
    <3>1. i \in DOMAIN me.stack
      BY DEF OpenFrames
    <3>2. me.stack[i] \in Frames
      BY <1>3, <3>1
    <3> QED
      BY <3>1, <3>2 DEF Frames
  <2>3. rest \in Seq(Frames)
    BY <1>3, <2>2
  <2> HIDE DEF rest
  <2>4. went \in WalkerStates /\ went.stack = rest /\ HopsLeft(went)
    BY <1>2, <2>3, RestackTypes DEF HopsLeft
  <2>5. walker' = [walker EXCEPT ![u] = new]
    BY <1>6 DEF rest
  <2> HIDE DEF went
  <2>6. Stopping(went).pc \in {"book", "store"} /\ Stopping(went).stack = rest
    BY <2>4, StoppingTypes
  <2>7. /\ Resolve(went, me.stack[i].flow, me.stack[i].back).pc = "walk"
        /\ Resolve(went, me.stack[i].flow, me.stack[i].back).stack = rest
    <3>1. Resolved(Resolve(went, me.stack[i].flow, me.stack[i].back), went, me.stack[i].flow, me.stack[i].back)
      BY <2>2, <2>4, ResolveTypes
    <3> QED
      BY <2>4, <3>1 DEF Resolved
  <2>8. new.pc \in {"walk", "book", "store"} /\ new.stack = rest
    BY <2>6, <2>7
  <2> HIDE DEF new
  <2> QED
    BY <1>1, <1>2, <2>1, <2>5, <2>8, CarriesOn
<1> QED
  BY <1>1, <1>5, <1>6

(* Nobody carries a stack once a walk has begun or ended.                  *)
LEMMA CarriesNone ==
    ASSUME ReturnsInv, NEW w \in Walkers, NEW new, walker' = [walker EXCEPT ![w] = new],
           new.pc \notin {"walk", "hop", "book", "store"},
           new.pc \in {"idle", "done"} \/ w \in Talks,
           timed' = timed, orderly' => orderly,
           orderly' /\ ~timed => \A v \in Walkers : v # w => ~Moving(v),
           orderly' /\ ~timed => Lists(owed', stored'.stack)
    PROVE  InTurns'
<1>1. walker \in [Walkers -> WalkerStates]
  BY DEF ReturnsInv, IInv, RuntimeTypeOK
<1>2. walker'[w] = new /\ \A v \in Walkers : v # w => walker'[v] = walker[v]
  BY <1>1
<1>3. SUFFICES ASSUME orderly', ~timed
               PROVE  /\ \A a \in Alarms : ~Moving(a)'
                      /\ \A v, x \in Walkers : Moving(v)' /\ Moving(x)' => v = x
                      /\ \A v \in Walkers : ~Carrying(v)'
                      /\ Lists(owed', stored'.stack)
  BY DEF InTurns, Lists, OpenFrames
<1>4. \A v \in Walkers : v # w => ~Moving(v)' /\ ~Carrying(v)'
  BY <1>2, <1>3 DEF Moving, Carrying
<1>5. ~Carrying(w)' /\ (w \in Alarms => ~Moving(w)')
  BY <1>2, WalksAssumption DEF Moving, Carrying
<1>6. \A a \in Alarms : a \in Walkers
  BY DEF Walkers
<1> QED
  BY <1>3, <1>4, <1>5, <1>6

LEMMA StoresKeepsTurns == ASSUME ReturnsInv, NEW w \in Walkers, Stores(w) PROVE InTurns'
<1> DEFINE new == IF w \in Talks THEN [AtRest EXCEPT !.pc = "done"] ELSE AtRest
<1>1. /\ walker[w].pc = "store" /\ stored' = StateAfter(w) /\ walker' = [walker EXCEPT ![w] = new]
      /\ UNCHANGED <<owed, orderly, timed>>
  BY DEF Stores, Stand, Finished
<1>2. new.pc \in {"idle", "done"}
  BY DEF AtRest
<1>3. Carrying(w) /\ Moving(w)
  BY <1>1 DEF Carrying, Moving
<1>4. ASSUME orderly, ~timed
      PROVE  (\A v \in Walkers : v # w => ~Moving(v)) /\ Lists(owed', stored'.stack)
  <2>1. (\A a \in Alarms : ~Moving(a)) /\ (\A v \in Walkers : Moving(v) => v = w)
    BY <1>3, <1>4 DEF ReturnsInv, InTurns
  <2>2. w \notin Alarms
    BY <1>3, <2>1
  <2>3. stored'.stack = walker[w].stack
    <3>1. CASE walker[w].cursor = NoNode /\ walker[w].stack = <<>>
      <4>1. stored' = [Absent EXCEPT !.cursor = EndedMark]
        BY <1>1, <3>1 DEF StateAfter
      <4> QED
        BY <3>1, <4>1 DEF Absent
    <3>2. CASE ~(walker[w].cursor = NoNode /\ walker[w].stack = <<>>)
      <4>1. stored' = [cursor |-> walker[w].cursor, flow |-> walker[w].flow, stack |-> walker[w].stack]
        BY <1>1, <2>2, <3>2 DEF StateAfter
      <4> QED
        BY <4>1
    <3> QED
      BY <3>1, <3>2
  <2> QED
    BY <1>1, <1>3, <1>4, <2>1, <2>3, CarriedIsListed
<1> HIDE DEF new
<1> QED
  BY <1>1, <1>2, <1>4, CarriesNone

LEMMA TurnLoadsKeepsTurns == ASSUME ReturnsInv, NEW u \in Talks, TurnLoads(u) PROVE InTurns'
<1> DEFINE me == walker[u]
           new == [me EXCEPT !.pc = IF activeFlows = {} THEN "done" ELSE "read", !.live = activeFlows]
<1>1. /\ u \in Walkers /\ walker' = [walker EXCEPT ![u] = new]
      /\ orderly' = (orderly /\ Still) /\ UNCHANGED <<stored, owed, timed>>
  BY DEF TurnLoads, Walkers
<1>2. me \in WalkerStates
  BY <1>1, WalkerParts DEF ReturnsInv
<1>3. new.pc \in {"done", "read"}
  BY <1>2 DEF WalkerStates
<1> HIDE DEF new
<1>4. ASSUME orderly', ~timed
      PROVE  (\A v \in Walkers : v # u => ~Moving(v)) /\ Lists(owed', stored'.stack)
  <2>1. orderly /\ \A v \in Walkers : ~Moving(v) /\ ~Carrying(v)
    BY <1>1, <1>4 DEF Still, Moving, Carrying
  <2>2. Lists(owed, stored.stack)
    BY <1>4, <2>1 DEF ReturnsInv, InTurns
  <2> QED
    BY <1>1, <2>1, <2>2
<1>5. orderly' => orderly
  BY <1>1
<1> QED
  BY <1>1, <1>3, <1>4, <1>5, CarriesNone

(* A turn takes over from the cache what is owed.                          *)
LEMMA TurnReadsKeepsTurns == ASSUME ReturnsInv, NEW u \in Talks, TurnReads(u) PROVE InTurns'
<1> DEFINE me == walker[u]
<1>1. /\ u \in Walkers /\ me.pc = "read" /\ UNCHANGED <<stored, owed, timed>>
  BY DEF TurnReads, Stand, Walkers
<1>2. PICK seen \in {stored, Absent} :
          /\ \/ Enters(u, seen.flow, seen.cursor, seen.stack)
             \/ \E f \in pickFlowForMessage(me.live, seen.cursor = EndedMark) : Enters(u, f, NoNode, seen.stack)
             \/ walker' = [walker EXCEPT ![u] = [AtRest EXCEPT !.pc = "done"]]
          /\ orderly' = (orderly /\ seen = stored)
  BY DEF TurnReads
<1>3. me \in WalkerStates /\ walker \in [Walkers -> WalkerStates]
  BY <1>1, WalkerParts DEF ReturnsInv, IInv, RuntimeTypeOK
<1>4. Moving(u) /\ ~Carrying(u) /\ \A v \in Walkers : Carrying(v) => Moving(v)
  BY <1>1 DEF Moving, Carrying
<1>5. ASSUME orderly', ~timed
      PROVE  /\ \A v \in Walkers : v # u => ~Moving(v)
             /\ \A a \in Alarms : ~Moving(a)
             /\ seen = stored /\ Lists(owed', stored'.stack)
  <2>1. orderly /\ seen = stored
    BY <1>2, <1>5
  <2>2. (\A v \in Walkers : v # u => ~Moving(v)) /\ \A a \in Alarms : ~Moving(a)
    BY <1>1, <1>4, <1>5, <2>1 DEF ReturnsInv, InTurns
  <2>3. \A v \in Walkers : ~Carrying(v)
    BY <1>4, <2>2
  <2>4. Lists(owed, stored.stack)
    BY <1>5, <2>1, <2>3 DEF ReturnsInv, InTurns
  <2> QED
    BY <1>1, <2>1, <2>2, <2>4
<1>6. orderly' => orderly
  BY <1>2
<1>7. ASSUME NEW f, NEW n, Enters(u, f, n, seen.stack) PROVE InTurns'
  <2> DEFINE mid == [me EXCEPT !.pc = "walk", !.flow = f, !.entry = f, !.from = n,
                                !.at = IF n = NoNode THEN First[f] ELSE n]
             new == [mid EXCEPT !.stack = seen.stack, !.message = TRUE]
  <2>1. walker' = [walker EXCEPT ![u] = new]
    BY <1>7 DEF Enters
  <2>2. new.pc = "walk" /\ new.stack = seen.stack
    BY <1>3 DEF WalkerStates
  <2> HIDE DEF new
  <2>3. walker'[u] = new /\ \A v \in Walkers : v # u => walker'[v] = walker[v]
    BY <1>1, <1>3, <2>1
  <2>4. Carrying(u)' /\ \A v \in Walkers : v # u => (Moving(v)' <=> Moving(v)) /\ (Carrying(v)' <=> Carrying(v))
    BY <2>2, <2>3 DEF Carrying, Moving
  <2>5. SUFFICES ASSUME orderly', ~timed
                 PROVE  /\ \A a \in Alarms : ~Moving(a)'
                        /\ \A v, x \in Walkers : Moving(v)' /\ Moving(x)' => v = x
                        /\ \A v \in Walkers : Carrying(v)' => Lists(owed', walker'[v].stack)
                        /\ ~\A v \in Walkers : ~Carrying(v)'
    BY <1>1 DEF InTurns, Lists, OpenFrames
  <2>6. /\ \A v \in Walkers : v # u => ~Moving(v)' /\ ~Carrying(v)'
        /\ \A a \in Alarms : ~Moving(a)'
    BY <1>4, <1>5, <2>4, <2>5, WalksAssumption DEF Walkers
  <2>7. Lists(owed', walker'[u].stack)
    BY <1>1, <1>5, <2>2, <2>3, <2>5
  <2> QED
    BY <1>1, <2>4, <2>6, <2>7
<1>8. CASE walker' = [walker EXCEPT ![u] = [AtRest EXCEPT !.pc = "done"]]
  <2> DEFINE new == [AtRest EXCEPT !.pc = "done"]
  <2>1. new.pc = "done" /\ walker' = [walker EXCEPT ![u] = new]
    BY <1>8 DEF AtRest
  <2> HIDE DEF new
  <2> QED
    BY <1>1, <1>5, <1>6, <2>1, CarriesNone
<1> QED
  BY <1>2, <1>7, <1>8

LEMMA NextKeepsTurns == ReturnsInv /\ [RuntimeNext]_runtimeVars => ReturnsInv'
<1> SUFFICES ASSUME ReturnsInv, [RuntimeNext]_runtimeVars PROVE InTurns'
  BY NextInvariant DEF ReturnsInv
<1>1. ASSUME NEW u \in Talks, TurnLoads(u) \/ TurnReads(u) \/ HopEnters(u) \/ HopReturns(u) PROVE InTurns'
  BY <1>1, TurnLoadsKeepsTurns, TurnReadsKeepsTurns, HopEntersKeepsTurns, HopReturnsKeepsTurns
<1>2. ASSUME NEW w \in Walkers, WalkerStep(w) PROVE InTurns'
  BY <1>2, NodesKeepTurns, StoresKeepsTurns DEF WalkerStep
<1>3. ASSUME NEW w \in Walkers, WalkFails(w) PROVE InTurns'
  BY <1>3 DEF WalkFails, InTurns
<1>4. CASE UNCHANGED <<stored, walker, owed, orderly, timed>>
  BY <1>4 DEF ReturnsInv, InTurns, Moving, Carrying, Lists, OpenFrames
<1>5. ASSUME NEW a \in Alarms, NEW m \in pend, AlarmFires(a, m) PROVE InTurns'
  <2>1. timed' = TRUE \/ UNCHANGED <<stored, walker, owed, orderly, timed>>
    BY <1>5 DEF AlarmFires
  <2> QED
    BY <1>4, <2>1 DEF InTurns
<1>6. CASE StateExpires
  <2>1. /\ \A w \in Walkers : ~Moving(w) /\ ~Carrying(w)
        /\ stored'.stack = <<>> /\ owed' = <<>> /\ UNCHANGED walker
    BY <1>6 DEF StateExpires, Still, Moving, Carrying, Absent
  <2>2. /\ \A w \in Walkers : ~Moving(w)' /\ ~Carrying(w)'
        /\ \A a \in Alarms : ~Moving(a)'
    BY <2>1 DEF Moving, Carrying, Walkers
  <2>3. Lists(owed', stored'.stack)
    BY <2>1, NothingListed
  <2>4. Lists(owed, stored.stack)'
    BY <2>3 DEF Lists, OpenFrames
  <2> QED
    BY <2>2, <2>4 DEF InTurns
<1>7. ASSUME NEW f \in Flows, DeactivateFlow(f) PROVE InTurns'
  BY <1>4, <1>7 DEF DeactivateFlow
<1>8. CASE UNCHANGED runtimeVars
  BY <1>4, <1>8 DEF runtimeVars
<1> QED
  BY <1>1, <1>2, <1>3, <1>5, <1>6, <1>7, <1>8 DEF RuntimeNext

LEMMA InitKeepsTurns == RuntimeInit => ReturnsInv
<1> SUFFICES ASSUME RuntimeInit PROVE InTurns
  BY InitInvariant DEF ReturnsInv
<1>1. \A w \in Walkers : ~Moving(w) /\ ~Carrying(w)
  BY AtRestFits DEF RuntimeInit, Moving, Carrying
<1>2. Lists(owed, stored.stack)
  BY NothingListed DEF RuntimeInit, Absent
<1> QED
  BY <1>1, <1>2 DEF InTurns, Walkers

(* As long as walks neither overlap nor fail and no timer walks, what the  *)
(* cache holds between two turns is what is still to be returned to, in    *)
(* the order of the calls: no caller is forgotten (runFlowTurn,            *)
(* buildStoredFlowState).                                                  *)
THEOREM CallersAreReturnedTo == RuntimeSpec => []CallsReturnInTurns
<1>1. ReturnsInv => CallsReturnInTurns
  <2> SUFFICES ASSUME ReturnsInv, orderly, ~timed, Still PROVE Lists(owed, stored.stack)
    BY DEF CallsReturnInTurns, ReturnsAreKept
  <2>1. \A w \in Walkers : ~Carrying(w)
    BY DEF Still, Carrying
  <2> QED
    BY <2>1 DEF ReturnsInv, InTurns
<1> QED
  BY <1>1, InitKeepsTurns, NextKeepsTurns, PTL DEF RuntimeSpec
=============================================================================
