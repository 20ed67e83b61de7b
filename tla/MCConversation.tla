--------------------------- MODULE MCConversation ---------------------------
(* What arrives in one conversation, for TLC: the timers of its flows, the  *)
(* walk through its flows and the funnel of the campaigns sent to it.  The  *)
(* three share no variable (what a timer snapshots is data of FlowTimer,    *)
(* which timers fire is a choice of FlowRuntime, and the funnel reads no    *)
(* flow), so a behaviour of all is, for each, a behaviour of its own with   *)
(* stuttering: a run that works on one at a time loses nothing a property   *)
(* of one can see.                                                          *)
EXTENDS FlowTimer, FlowRuntime, CampaignFunnel, TLC

CONSTANTS
    u1, u2, w1, w2,      \* interchangeable messages; workers and campaign messages
    v1, v2,              \* interchangeable callbacks
    A, B, a1, a2, b1, b2 \* two flows and their nodes

VARIABLE part   \* the component this behaviour works on

(* Flow a calls flow b, with a node to return to or without; b is drawn in  *)
(* every way that mixes an entry that speaks, asks, waits or goes back to a *)
(* with a second node of each kind that ends a walk.                        *)
Node(k, n, o, f) == [kind |-> k, next |-> n, other |-> o, into |-> f]
MCHome == [n \in {a1, a2, b1, b2} |-> IF n \in {a1, a2} THEN A ELSE B]
MCFirst == [f \in {A, B} |-> IF f = A THEN a1 ELSE b1]

MCAsk == Node("ask", NoNode, a1, A)
MCSay == Node("say", NoNode, NoNode, A)
MCCall == Node("call", NoNode, NoNode, B)
MCSeconds == {Node("ai", NoNode, NoNode, B), Node("ask", NoNode, b1, B), Node("call", b1, NoNode, A),
              Node("transfer", NoNode, NoNode, B), Node("schedule", b1, NoNode, B)}
MCStarts == {s \in {"call", "say"} \X {MCAsk, MCSay, MCCall} \X MCSeconds :
                \/ s[1] = "call" /\ s[2] = MCAsk
                \/ s[1] = "call" /\ s[2] = MCSay /\ s[3].kind \in {"ask", "schedule"}
                \/ s[2] = MCCall /\ s[3].kind \in {"ai", "transfer"}}
MCGraphs ==
    {[n \in {a1, a2, b1, b2} |-> CASE n = a1 -> Node(s[1], a2, NoNode, B)
                                   [] n = a2 -> s[2] [] n = b1 -> entry [] n = b2 -> s[3]] :
        s \in MCStarts,
        entry \in {Node("say", b2, NoNode, B), Node("condition", b2, NoNode, B),
                   Node("wait", NoNode, b2, B), Node("goto", NoNode, NoNode, A)}}

ConversationInit ==
    /\ part \in {"timers", "walks", "funnel"}
    /\ TimerInit /\ RuntimeInit /\ FunnelInit
    /\ part # "walks" => graph = CHOOSE g \in Graphs : TRUE

ConversationNext ==
    /\ UNCHANGED part
    /\ \/ part = "timers" /\ TimerNext /\ UNCHANGED <<runtimeVars, funnelVars>>
       \/ part = "walks" /\ RuntimeNext /\ UNCHANGED <<timerVars, funnelVars>>
       \/ part = "funnel" /\ FunnelNext /\ UNCHANGED <<timerVars, runtimeVars>>

conversationVars == <<part, timerVars, runtimeVars, funnelVars>>
ConversationSpec == ConversationInit /\ [][ConversationNext]_conversationVars

\* The timers alone, with workers that run their jobs.
SettlesInit == ConversationInit /\ part = "timers"
SettlesSpec == SettlesInit /\ [][ConversationNext]_conversationVars /\ TimerFairness

\* Bounds: the flow of the timers stays on and nobody takes the conversation
\* (SettlesSpec has both change), and three of the four webhook requests of
\* the funnel arrive.
Bounds ==
    /\ active /\ ~held
    /\ Cardinality({i \in Ins : ipc[i] # "idle"}) + Cardinality({b \in Callbacks : cpc[b] # "idle"}) <= 3

Symmetry == Permutations({u1, u2}) \cup Permutations({w1, w2}) \cup Permutations({v1, v2})
=============================================================================
