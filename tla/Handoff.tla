------------------------------ MODULE Handoff ------------------------------
(***************************************************************************)
(* Who talks to the customer: the AI agent or the team.                    *)
(*                                                                         *)
(* The state is the conversation row (status, aiPaused, assignedToId), the *)
(* cache entry ai_paused:<org>:<contact>, the inbound messages on their    *)
(* way through the webhook and the ai-process worker, and the Inbox        *)
(* requests of the team.  A turn of the agent reads the cache, then the    *)
(* row, then spends seconds in flows and in the model before it writes and *)
(* speaks; Inbox requests and the 72 hour expiry run at any point between. *)
(*                                                                         *)
(* Every cache operation is fail-soft in the code (a failed get reads as   *)
(* "no entry", a failed set or del is ignored), and so are the writes of   *)
(* marcarTransbordo and of the crisis net: each may simply not happen.     *)
(***************************************************************************)
EXTENDS Naturals, Sequences, FiniteSets

CONSTANTS
    Customers,     \* customers, by their identifier in the cache key
    Convs,        \* conversation rows that may come to exist
    Turns,        \* inbound messages: each is one agent turn
    Requests,     \* Inbox requests of the team
    Agents,       \* people of the team
    Nobody,       \* assignedToId = null, no contact yet, no conversation yet
    Sender,       \* the customer who wrote each inbound message
    MaxStalls     \* bound on worker deaths

ASSUME SenderAssumption == Sender \in [Turns -> Customers]
ASSUME MaxStallsAssumption == MaxStalls \in Nat
ASSUME NobodyAssumption == Nobody \notin Customers \cup Convs \cup Agents

VARIABLES
    contactOf,    \* conversation -> its customer, Nobody while the row is absent
    status,       \* conversation -> OPEN, WAITING, ASSIGNED or CLOSED
    aiPaused,     \* conversation -> the durable pause
    assigned,     \* conversation -> assignedToId
    cache,        \* customer -> value of the ai_paused key, or "none"
    tpc,          \* turn -> where the inbound message is
    tconv,        \* turn -> the conversation it belongs to
    agenda,       \* turn -> the steps the agent still has to run
    replied,      \* turns whose answer reached the customer
    stalled,      \* turns whose worker died at least once
    asked,        \* history: turns whose flow or model asked for a person, or raised
                  \* the crisis net, in the plan they are running
    rpc,          \* request -> where the Inbox request is
    rkind,        \* request -> what it does
    rconv,        \* request -> the conversation it acts on
    rsaw,         \* request -> what its findFirst saw, for the ones that use it
    lote          \* the batch the expiry job selected and has not closed yet

convVars == <<contactOf, status, aiPaused, assigned>>
turnVars == <<tpc, tconv, agenda, replied, stalled, asked>>
requestVars == <<rpc, rkind, rconv, rsaw>>
handoffVars == <<convVars, cache, turnVars, requestVars, lote>>

Status == {"OPEN", "WAITING", "ASSIGNED", "CLOSED"}
Live == {"OPEN", "WAITING", "ASSIGNED"}
CacheValue == {"none", "human", "handoff", "erro_tecnico", "autoreply"}
Step == {"flow", "model", "say", "softSay", "net",
         "markCache", "markDb", "tempCache", "tempDb", "notice"}

(* The steps of a turn, in the order processIncomingMessage runs them.  A   *)
(* failing "say" is an exception that reaches the catch-all of the turn; a  *)
(* failing "softSay" is swallowed where it happens.                        *)

\* handleHandoff: marcarTransbordo (cache, then row), then the holding message.
Mark(last) == <<"markCache", "markDb", last>>

\* Mutant: the catch-all hands the conversation over for good.
ErrorPlanDurable == <<"tempCache", "markDb", "notice">>

\* The catch-all: a temporary pause and the technical-error notice.
ErrorPlan == <<"tempCache", "tempDb", "notice">>

\* A turn that ends before the model: media and opt-out replies, and the
\* deterministic flow (its messages, a transfer, a crisis signal on the way).
EarlyPlans == {<<"say">>, <<"softSay">>, <<"softSay", "net">>,
               Mark("softSay"), Mark("softSay") \o <<"softSay", "net">>}

\* What a flow may have done before it falls through to the model.
FlowPrefixes == {<<>>, <<"softSay">>, Mark("softSay")}

\* A turn that reaches the model: silence (quota, trial budget), a reply, a
\* reply with the crisis or compliance net, a person asked for, and the
\* handoff action, which runs before the reply is sent.
ModelPlans == {<<>>, <<"say">>, <<"say", "net">>, <<"softSay", "net">>,
               Mark("say"), <<"softSay", "net">> \o Mark("say"),
               Mark("softSay") \o <<"say">>,
               Mark("softSay") \o <<"say", "net">>}

\* A plan in which the flow or the model asks for a person, or raises the net.
AsksForPeople(plan) == \E i \in DOMAIN plan : plan[i] \in {"markDb", "net"}

Exists(c) == contactOf[c] # Nobody

\* Mutant: a guard that only looks at the assignment.
ShouldSkipIfAssigned(c) == status[c] = "ASSIGNED" /\ assigned[c] # Nobody

\* shouldSkipForHumanHandoff: the durable guard.
ShouldSkip(c) == aiPaused[c] \/ (status[c] = "ASSIGNED" /\ assigned[c] # Nobody)

\* A turn or a request of the team that has not finished.
Busy(c) == \/ \E t \in Turns : tconv[t] = c /\ tpc[t] \in {"found", "queued", "checked", "running"}
           \/ \E r \in Requests : rconv[r] = c /\ rpc[r] \in {"read", "mirror"}

HandoffInit ==
    /\ contactOf = [c \in Convs |-> Nobody]
    /\ status = [c \in Convs |-> "OPEN"]
    /\ aiPaused = [c \in Convs |-> FALSE]
    /\ assigned = [c \in Convs |-> Nobody]
    /\ cache \in [Customers -> {"none", "autoreply"}]
    /\ tpc = [t \in Turns |-> "idle"]
    /\ tconv = [t \in Turns |-> Nobody]
    /\ agenda = [t \in Turns |-> <<>>]
    /\ replied = {}
    /\ stalled = {}
    /\ asked = {}
    /\ rpc = [r \in Requests |-> "idle"]
    /\ rkind = [r \in Requests |-> "none"]
    /\ rconv = [r \in Requests |-> Nobody]
    /\ rsaw = [r \in Requests |-> FALSE]
    /\ lote = {}

----------------------------------------------------------------------------
(* The webhook: find the customer's live conversation, create one if there *)
(* is none, store the message, enqueue the turn.                           *)

InboundFind(t) ==
    /\ tpc[t] = "idle"
    /\ LET live == {c \in Convs : contactOf[c] = Sender[t] /\ status[c] \in Live}
       IN  \/ /\ live # {}
              /\ \E c \in live : tconv' = [tconv EXCEPT ![t] = c]
           \/ /\ live = {}
              /\ UNCHANGED tconv
    /\ tpc' = [tpc EXCEPT ![t] = "found"]
    /\ UNCHANGED <<convVars, cache, agenda, replied, stalled, asked, requestVars, lote>>

InboundCreate(t) ==
    /\ tpc[t] = "found"
    /\ tconv[t] = Nobody
    /\ \E c \in Convs :
         /\ ~Exists(c)
         /\ contactOf' = [contactOf EXCEPT ![c] = Sender[t]]
         /\ tconv' = [tconv EXCEPT ![t] = c]
    /\ UNCHANGED <<status, aiPaused, assigned, cache, tpc, agenda, replied, stalled, asked,
                   requestVars, lote>>

InboundStore(t) ==
    /\ tpc[t] = "found"
    /\ tconv[t] # Nobody
    /\ tpc' = [tpc EXCEPT ![t] = "queued"]
    /\ UNCHANGED <<convVars, cache, tconv, agenda, replied, stalled, asked,
                   requestVars, lote>>

----------------------------------------------------------------------------
(* The agent turn, in the ai-process worker.                               *)

\* The pause key: any value but the legacy one ends the turn; the legacy
\* value is deleted; a failed read passes.
TurnCheckCache(t) ==
    LET k == Sender[t] IN
    /\ tpc[t] = "queued"
    /\ \/ /\ cache[k] \in {"human", "handoff", "erro_tecnico"}
          /\ tpc' = [tpc EXCEPT ![t] = "skipped"]
          /\ UNCHANGED cache
       \/ /\ tpc' = [tpc EXCEPT ![t] = "checked"]
          /\ \/ cache' = [cache EXCEPT ![k] = IF @ = "autoreply" THEN "none" ELSE @]
             \/ UNCHANGED cache
    /\ UNCHANGED <<convVars, tconv, agenda, replied, stalled, asked, requestVars, lote>>

\* The durable guard reads the row.
TurnGuard(t) ==
    /\ tpc[t] = "checked"
    /\ \/ /\ ShouldSkip(tconv[t])
          /\ tpc' = [tpc EXCEPT ![t] = "skipped"]
          /\ UNCHANGED agenda
       \/ /\ ~ShouldSkip(tconv[t])
          /\ tpc' = [tpc EXCEPT ![t] = "running"]
          /\ agenda' = [agenda EXCEPT ![t] = <<"flow">>]
    /\ UNCHANGED <<convVars, cache, tconv, replied, stalled, asked, requestVars, lote>>

\* The read of the row throws: the catch-all runs without the guard's verdict.
TurnGuardFails(t) ==
    /\ tpc[t] = "checked"
    /\ tpc' = [tpc EXCEPT ![t] = "failed"]
    /\ agenda' = [agenda EXCEPT ![t] = ErrorPlan]
    /\ UNCHANGED <<convVars, cache, tconv, replied, stalled, asked, requestVars, lote>>

Running(t) == tpc[t] \in {"running", "failed"} /\ agenda[t] # <<>>
AtStep(t, s) == Running(t) /\ Head(agenda[t]) = s
NextStep(t) == agenda' = [agenda EXCEPT ![t] = Tail(@)]

\* The flow or the model decides what the turn does next.
Adopts(t, plan) ==
    /\ agenda' = [agenda EXCEPT ![t] = plan]
    /\ asked' = IF AsksForPeople(plan) THEN asked \cup {t} ELSE asked \ {t}

\* An exception leaves for the catch-all: what was asked before it is void.
Throws(t) ==
    /\ agenda' = [agenda EXCEPT ![t] = ErrorPlan]
    /\ asked' = asked \ {t}

TurnFlow(t) ==
    /\ AtStep(t, "flow")
    /\ \/ \E plan \in EarlyPlans \cup {p \o <<"model">> : p \in FlowPrefixes} : Adopts(t, plan)
       \/ Throws(t)
    /\ UNCHANGED <<convVars, cache, tpc, tconv, replied, stalled, requestVars, lote>>

TurnModel(t) ==
    /\ AtStep(t, "model")
    /\ \/ \E plan \in ModelPlans : Adopts(t, plan)
       \/ Throws(t)
    /\ UNCHANGED <<convVars, cache, tpc, tconv, replied, stalled, requestVars, lote>>

\* deliverAgentReply: send, then record the message in the conversation.
TurnSay(t) ==
    /\ AtStep(t, "say") \/ AtStep(t, "softSay")
    /\ NextStep(t)
    /\ replied' = replied \cup {t}
    /\ UNCHANGED <<contactOf, status, aiPaused, assigned, cache, tpc, tconv, stalled, asked,
                   requestVars, lote>>

TurnSayFails(t) ==
    /\ \/ AtStep(t, "say") /\ Throws(t)
       \/ AtStep(t, "softSay") /\ NextStep(t) /\ UNCHANGED asked
    /\ UNCHANGED <<convVars, cache, tpc, tconv, replied, stalled, requestVars, lote>>

\* Mutant: a failing notice re-enters the catch-all.
TurnNoticeRethrows(t) ==
    /\ AtStep(t, "notice")
    /\ agenda' = [agenda EXCEPT ![t] = ErrorPlan]
    /\ UNCHANGED <<convVars, cache, tpc, tconv, replied, stalled, asked, requestVars, lote>>

\* The notice of a technical error; if it fails, the failure is only logged.
TurnNotice(t) ==
    /\ AtStep(t, "notice")
    /\ NextStep(t)
    /\ UNCHANGED <<contactOf, status, aiPaused, assigned, cache, tpc, tconv, replied, stalled, asked,
                   requestVars, lote>>

\* marcarTransbordo, first half: the mirror, for 7 days or for 1 hour.
TurnMarkCache(t) ==
    /\ \E s \in {"markCache", "tempCache"} :
         /\ AtStep(t, s)
         /\ \/ cache' = [cache EXCEPT ![Sender[t]] =
                           IF s = "markCache" THEN "handoff" ELSE "erro_tecnico"]
            \/ UNCHANGED cache
    /\ NextStep(t)
    /\ UNCHANGED <<convVars, tpc, tconv, replied, stalled, asked, requestVars, lote>>

\* Mutants: a status outside the enumeration; a closed conversation revived.
MarkDbUnknownStatus(c, durable) ==
    /\ status[c] # "CLOSED"
    /\ status' = [status EXCEPT ![c] = "PENDING"]
    /\ aiPaused' = [aiPaused EXCEPT ![c] = @ \/ durable]
MarkDbRevives(c, durable) ==
    /\ status' = [status EXCEPT ![c] = "WAITING"]
    /\ aiPaused' = [aiPaused EXCEPT ![c] = @ \/ durable]

MarkDb(c, durable) ==
    /\ status[c] # "CLOSED"
    /\ status' = [status EXCEPT ![c] = "WAITING"]
    /\ aiPaused' = [aiPaused EXCEPT ![c] = @ \/ durable]

\* marcarTransbordo, second half: the row, unless it is closed or the write fails.
TurnMarkDb(t) ==
    /\ \E s \in {"markDb", "tempDb"} :
         /\ AtStep(t, s)
         /\ \/ MarkDb(tconv[t], s = "markDb")
            \/ UNCHANGED <<status, aiPaused>>
    /\ NextStep(t)
    /\ UNCHANGED <<contactOf, assigned, cache, tpc, tconv, replied, stalled, asked, requestVars, lote>>

\* pausarIaPadrao: crisis and compliance pause the row whatever its status.
TurnNet(t) ==
    /\ AtStep(t, "net")
    /\ \/ /\ aiPaused' = [aiPaused EXCEPT ![tconv[t]] = TRUE]
          /\ status' = [status EXCEPT ![tconv[t]] = "WAITING"]
       \/ UNCHANGED <<status, aiPaused>>
    /\ NextStep(t)
    /\ UNCHANGED <<contactOf, assigned, cache, tpc, tconv, replied, stalled, asked, requestVars, lote>>

TurnEnd(t) ==
    /\ tpc[t] \in {"running", "failed"}
    /\ agenda[t] = <<>>
    /\ tpc' = [tpc EXCEPT ![t] = IF @ = "running" THEN "done" ELSE "noticed"]
    /\ UNCHANGED <<convVars, cache, tconv, agenda, replied, stalled, asked, requestVars, lote>>

\* The worker dies in the middle of a turn.  BullMQ runs the job again once
\* (maxStalledCount is left at its default of 1) and fails it for good the
\* second time: no code of the turn runs any more, not even the notice.
Dropped == {t \in Turns : tpc[t] = "dropped"}

TurnStalls(t) ==
    /\ tpc[t] \in {"checked", "running", "failed"}
    /\ Cardinality(stalled) + Cardinality(Dropped) < MaxStalls
    /\ stalled' = stalled \cup {t}
    /\ tpc' = [tpc EXCEPT ![t] = IF t \in stalled THEN "dropped" ELSE "queued"]
    /\ agenda' = [agenda EXCEPT ![t] = <<>>]
    /\ asked' = asked \ {t}
    /\ UNCHANGED <<convVars, cache, tconv, replied, requestVars, lote>>

----------------------------------------------------------------------------
(* The Inbox.  Each request writes the row by id, whatever it holds by     *)
(* then, and afterwards mirrors the pause in the cache.                    *)

Opens(r, kind, c, pc) ==
    /\ rpc[r] = "idle"
    /\ Exists(c)
    /\ rpc' = [rpc EXCEPT ![r] = pc]
    /\ rkind' = [rkind EXCEPT ![r] = kind]
    /\ rconv' = [rconv EXCEPT ![r] = c]

\* POST /:id/messages: the message and the take-over, in one transaction.
PostMessage(r, c, a) ==
    /\ Opens(r, "post", c, "mirror")
    /\ assigned' = [assigned EXCEPT ![c] = a]
    /\ status' = [status EXCEPT ![c] = "ASSIGNED"]
    /\ aiPaused' = [aiPaused EXCEPT ![c] = TRUE]
    /\ UNCHANGED <<contactOf, cache, turnVars, rsaw, lote>>

\* PUT /:id/assign: planAssign(a), a person or nobody.
Assign(r, c, a) ==
    /\ Opens(r, IF a = Nobody THEN "unassign" ELSE "assign", c, "mirror")
    /\ assigned' = [assigned EXCEPT ![c] = a]
    /\ status' = [status EXCEPT ![c] = IF a = Nobody THEN "OPEN" ELSE "ASSIGNED"]
    /\ aiPaused' = [aiPaused EXCEPT ![c] = a # Nobody]
    /\ UNCHANGED <<contactOf, cache, turnVars, rsaw, lote>>

\* PUT /:id/close
Close(r, c) ==
    /\ Opens(r, "close", c, "done")
    /\ status' = [status EXCEPT ![c] = "CLOSED"]
    /\ UNCHANGED <<contactOf, aiPaused, assigned, cache, turnVars, rsaw, lote>>

\* PUT /:id/reopen and PUT /:id/resume-ai read the row first.
ReopenRead(r, c) ==
    /\ Opens(r, "reopen", c, "read")
    /\ rsaw' = [rsaw EXCEPT ![r] = assigned[c] # Nobody]
    /\ UNCHANGED <<convVars, cache, turnVars, lote>>

ResumeRead(r, c) ==
    /\ Opens(r, "resume", c, "read")
    /\ rsaw' = [rsaw EXCEPT ![r] = status[c] = "ASSIGNED"]
    /\ UNCHANGED <<convVars, cache, turnVars, lote>>

\* planReopen: back to ASSIGNED if there was a person, else OPEN.
ReopenWrite(r) ==
    /\ rpc[r] = "read" /\ rkind[r] = "reopen"
    /\ status' = [status EXCEPT ![rconv[r]] = IF rsaw[r] THEN "ASSIGNED" ELSE "OPEN"]
    /\ rpc' = [rpc EXCEPT ![r] = "done"]
    /\ UNCHANGED <<contactOf, aiPaused, assigned, cache, turnVars, rkind, rconv, rsaw, lote>>

\* planResumeAi: unpause; OPEN if it was seen ASSIGNED.
ResumeWrite(r) ==
    /\ rpc[r] = "read" /\ rkind[r] = "resume"
    /\ aiPaused' = [aiPaused EXCEPT ![rconv[r]] = FALSE]
    /\ status' = [status EXCEPT ![rconv[r]] = IF rsaw[r] THEN "OPEN" ELSE @]
    /\ rpc' = [rpc EXCEPT ![r] = "mirror"]
    /\ UNCHANGED <<contactOf, assigned, cache, turnVars, rkind, rconv, rsaw, lote>>

\* mirrorPauseCache: 'human' for 7 days, or the key deleted.
Mirror(r) ==
    /\ rpc[r] = "mirror"
    /\ \/ cache' = [cache EXCEPT ![contactOf[rconv[r]]] =
                      IF rkind[r] \in {"post", "assign"} THEN "human" ELSE "none"]
       \/ UNCHANGED cache
    /\ rpc' = [rpc EXCEPT ![r] = "done"]
    /\ UNCHANGED <<convVars, turnVars, rkind, rconv, rsaw, lote>>

----------------------------------------------------------------------------
(* Time, the cache backend and the expiry job.                             *)

\* The entry lapses, is evicted or is lost with the backend.
CacheLost(k) ==
    /\ cache[k] # "none"
    /\ cache' = [cache EXCEPT ![k] = "none"]
    /\ UNCHANGED <<convVars, turnVars, requestVars, lote>>

\* The job selects OPEN and WAITING conversations without a message in the
\* last 72 hours.  Any conversation may be one, as long as no turn and no
\* request is at work on it: none of them lasts that long, and neither does
\* the 1 hour entry of a technical error.
ExpirySelect ==
    /\ lote = {}
    /\ lote' \in SUBSET {c \in Convs : Exists(c) /\ status[c] \in {"OPEN", "WAITING"} /\ ~Busy(c)}
    /\ lote' # {}
    /\ cache' = [k \in Customers |->
                    IF cache[k] = "erro_tecnico" /\ \E c \in lote' : contactOf[c] = k
                    THEN "none" ELSE cache[k]]
    /\ UNCHANGED <<convVars, turnVars, requestVars>>

\* The update checks the status again, and only the status.
ExpiryClose ==
    /\ lote # {}
    /\ status' = [c \in Convs |-> IF c \in lote /\ status[c] \in {"OPEN", "WAITING"}
                                  THEN "CLOSED" ELSE status[c]]
    /\ lote' = {}
    /\ UNCHANGED <<contactOf, aiPaused, assigned, cache, turnVars, requestVars>>

----------------------------------------------------------------------------

TurnRun(t) ==
    \/ TurnCheckCache(t)
    \/ TurnGuard(t) \/ TurnGuardFails(t) \/ TurnFlow(t) \/ TurnModel(t)
    \/ TurnSay(t) \/ TurnSayFails(t) \/ TurnNotice(t)
    \/ TurnMarkCache(t) \/ TurnMarkDb(t) \/ TurnNet(t) \/ TurnEnd(t)

TeamWrite(r) ==
    \/ \E c \in Convs :
         \/ \E a \in Agents : PostMessage(r, c, a)
         \/ \E a \in Agents \cup {Nobody} : Assign(r, c, a)
         \/ Close(r, c)
    \/ ReopenWrite(r) \/ ResumeWrite(r)

TeamRead(r) == \E c \in Convs : ReopenRead(r, c) \/ ResumeRead(r, c)

HandoffNext ==
    \/ \E t \in Turns : \/ InboundFind(t) \/ InboundCreate(t) \/ InboundStore(t)
                       \/ TurnRun(t) \/ TurnStalls(t)
    \/ \E r \in Requests : TeamRead(r) \/ TeamWrite(r) \/ Mirror(r)
    \/ \E k \in Customers : CacheLost(k)
    \/ ExpirySelect \/ ExpiryClose

HandoffSpec == HandoffInit /\ [][HandoffNext]_handoffVars

\* The worker keeps taking jobs and runs each turn to its end; nothing obliges
\* the team, the clock, the webhook or a crash to act.
HandoffFairness == \A t \in Turns : WF_handoffVars(TurnRun(t))
HandoffFairSpec == HandoffSpec /\ HandoffFairness

----------------------------------------------------------------------------
(* Properties.                                                             *)

TurnPc == {"idle", "found", "queued", "checked", "running", "failed",
           "done", "skipped", "noticed", "dropped"}
RequestPc == {"idle", "read", "mirror", "done"}
RequestKind == {"none", "post", "assign", "unassign", "close", "reopen", "resume"}

(* Every variable has the shape the rest of this module relies on, and a    *)
(* turn past the webhook has a conversation that exists and belongs to the *)
(* customer who wrote.                                                     *)
HandoffTypeOK ==
    /\ contactOf \in [Convs -> Customers \cup {Nobody}]
    /\ status \in [Convs -> Status]
    /\ aiPaused \in [Convs -> BOOLEAN]
    /\ assigned \in [Convs -> Agents \cup {Nobody}]
    /\ cache \in [Customers -> CacheValue]
    /\ tpc \in [Turns -> TurnPc]
    /\ tconv \in [Turns -> Convs \cup {Nobody}]
    /\ \A t \in Turns : tpc[t] \notin {"idle", "found"} =>
          tconv[t] \in Convs /\ contactOf[tconv[t]] = Sender[t]
    /\ agenda \in [Turns -> Seq(Step)]
    /\ replied \in SUBSET Turns
    /\ stalled \in SUBSET Turns
    /\ asked \in SUBSET Turns
    /\ rpc \in [Requests -> RequestPc]
    /\ rkind \in [Requests -> RequestKind]
    /\ rconv \in [Requests -> Convs \cup {Nobody}]
    /\ rsaw \in [Requests -> BOOLEAN]
    /\ lote \in SUBSET Convs

(* Turns the durable guard has let through.                                *)
Admitted == {t \in Turns : tpc[t] \in {"running", "done"}}

(* The hand-over keeps the promise of Custody: whatever the cache loses and *)
(* however requests, turns and the expiry job interleave, the agent only   *)
(* answers messages whose turn found the conversation unpaused in the      *)
(* database (agentOrchestrator, guard 1.5).                                *)
Abstract == INSTANCE Custody WITH
    Messages <- Turns,
    custody <- [c \in Convs |-> IF aiPaused[c] THEN "people" ELSE "ai"],
    about <- tconv,
    admitted <- Admitted,
    answered <- replied
KeepsCustody == Abstract!CustodySpec

(* A closed conversation comes back only by an Inbox request or by the     *)
(* crisis net: the hand-over of a late turn, the technical-error path, the *)
(* webhook and the expiry job never revive it (transbordoHumano,           *)
(* status: { not: 'CLOSED' }).                                             *)
OnlyPeopleReopen ==
    [][\A c \in Convs :
         Exists(c) /\ status[c] = "CLOSED" /\ status'[c] # "CLOSED" =>
            \/ \E r \in Requests : rconv'[r] = c /\ rpc'[r] # rpc[r]
            \/ \E t \in Turns : tconv[t] = c /\ AtStep(t, "net")]_handoffVars

(* The agent goes silent for good on a conversation only when a request of *)
(* the team takes it, in that step, or when a turn of that very            *)
(* conversation takes a step of a plan in which its flow or its model asked *)
(* for a person or raised the crisis net.  A turn that ends in the         *)
(* catch-all (the read of the row, the flow, the model or the answer       *)
(* threw), admitted or not, asked before it or not, never mutes the agent  *)
(* until someone clicks "Retomar" (agentOrchestrator's catch,              *)
(* marcarTransbordo with temporary: true).                                 *)
PauseHasACause ==
    [][\A c \in Convs : ~aiPaused[c] /\ aiPaused'[c] =>
          \/ \E r \in Requests : /\ rconv'[r] = c /\ rpc'[r] # rpc[r]
                                 /\ rkind'[r] \in {"post", "assign"}
          \/ \E t \in asked : tconv[t] = c /\ agenda'[t] # agenda[t]]_handoffVars

(* Every message handed to the worker is settled: answered or left in       *)
(* silence on purpose, refused by a pause, or met with an error notice;    *)
(* no failing step and no single death of the worker leaves a turn half    *)
(* way.  Only the second death of the same turn ends it without a word.    *)
EveryTurnEnds ==
    \A t \in Turns : tpc[t] = "queued" ~>
        tpc[t] \in {"done", "skipped", "noticed"} \/ (tpc[t] = "dropped" /\ t \in stalled)

(* What messages.ts and the guard's comment say: once a person has the     *)
(* conversation, the agent does not talk over them.                        *)
NeverTalksOverAPerson ==
    [][\A t \in Turns :
         replied' # replied /\ TurnSay(t) =>
            ~(status[tconv[t]] = "ASSIGNED" /\ assigned[tconv[t]] # Nobody)]_handoffVars
=============================================================================
