------------------------------ MODULE Custody ------------------------------
(***************************************************************************)
(* What the hand-over between the AI agent and the team promises, with the *)
(* code's caches, workers and requests left out.                           *)
(*                                                                         *)
(* Every conversation is in the custody of the AI or of people.  The agent *)
(* admits a message only while the conversation is in the AI's custody,    *)
(* and answers only messages it has admitted.  Admission is not withdrawn  *)
(* when people take the conversation: a turn already admitted may still    *)
(* answer.  It is lost when the worker dies, and must be won again.        *)
(***************************************************************************)
CONSTANTS Convs, Messages, Nobody

VARIABLES
    custody,     \* conversation -> "ai" or "people"
    about,       \* message -> the conversation it was filed in, or Nobody
    admitted,    \* messages the agent may answer
    answered     \* messages the agent has answered

custodyVars == <<custody, about, admitted, answered>>

CustodyInit ==
    /\ custody = [c \in Convs |-> "ai"]
    /\ about = [m \in Messages |-> Nobody]
    /\ admitted = {}
    /\ answered = {}

Take(c) ==
    /\ custody' = [custody EXCEPT ![c] = "people"]
    /\ UNCHANGED <<about, admitted, answered>>

GiveBack(c) ==
    /\ custody' = [custody EXCEPT ![c] = "ai"]
    /\ UNCHANGED <<about, admitted, answered>>

File(m, c) ==
    /\ about[m] = Nobody
    /\ about' = [about EXCEPT ![m] = c]
    /\ UNCHANGED <<custody, admitted, answered>>

Admit(m) ==
    /\ about[m] \in Convs
    /\ custody[about[m]] = "ai"
    /\ admitted' = admitted \cup {m}
    /\ UNCHANGED <<custody, about, answered>>

Withdraw(m) ==
    /\ admitted' = admitted \ {m}
    /\ UNCHANGED <<custody, about, answered>>

Answer(m) ==
    /\ m \in admitted
    /\ answered' = answered \cup {m}
    /\ UNCHANGED <<custody, about, admitted>>

CustodyNext ==
    \/ \E c \in Convs : Take(c) \/ GiveBack(c)
    \/ \E m \in Messages : \/ \E c \in Convs : File(m, c)
                           \/ Admit(m) \/ Withdraw(m) \/ Answer(m)

CustodySpec == CustodyInit /\ [][CustodyNext]_custodyVars
=============================================================================
