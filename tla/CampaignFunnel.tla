--------------------------- MODULE CampaignFunnel ---------------------------
(***************************************************************************)
(* The funnel of a campaign after its messages went out: the provider's    *)
(* status callbacks (delivered, read) and the answers of one customer,     *)
(* each handled by a webhook request of its own, against the send jobs     *)
(* that create the messages and store the provider's ids.                  *)
(*                                                                         *)
(* The provider repeats callbacks and delivers them in any order, and the  *)
(* requests overlap: each one reads, decides and writes in separate calls. *)
(* A counter of the campaign row is modelled by each message's share in    *)
(* it.                                                                     *)
(***************************************************************************)
EXTENDS Naturals, Sequences, FiniteSets

CONSTANTS
    Outs,         \* campaign messages to the customer, in one conversation
    Ins,          \* inbound messages of the customer
    Callbacks,    \* status callbacks
    NoOut,        \* no message
    MaxMishaps    \* bound on failed calls and on dispatches that start over

ASSUME MishapsAssumption == MaxMishaps \in Nat
ASSUME NoOutAssumption == NoOut \notin Outs \cup Ins
ASSUME RowsAssumption == Outs \cap Ins = {}

VARIABLES
    log,          \* the rows of the conversation, in the order of createdAt
    spc,          \* campaign message -> where its send job is
    mstatus,      \* campaign message -> status of its row
    known,        \* campaign messages whose row holds the provider's id
    delivered,    \* campaign message -> its share of deliveredCount
    read,         \* campaign message -> its share of readCount
    repliedBy,    \* campaign message -> its share of repliedCount
    cpc,          \* callback -> where it is
    about,        \* callback -> the message it reports on
    level,        \* callback -> the status it reports
    saw,          \* callback -> the status it read in the row
    ipc,          \* inbound -> where its request is
    last,         \* inbound -> the campaign message it is a reply to
    raced,        \* history: messages on which two callbacks overlapped
    tangled,      \* history: messages that replies or sends overlapped on
    stale,        \* history: messages older than the last reset of the counters
    resets,       \* dispatches that started over
    faults        \* calls that failed

counters == <<delivered, read, repliedBy>>
outVars == <<spc, mstatus, known>>
callbackVars == <<cpc, about, level, saw, raced>>
replyVars == <<ipc, last, tangled>>
funnelVars == <<log, outVars, counters, callbackVars, replyVars, stale, resets, faults>>

Rank == [SENT |-> 0, DELIVERED |-> 1, READ |-> 2, FAILED |-> 0]

\* Anything but delivered and read, a failure included, is SENT.
normalizeMetaStatus ==
    [sent |-> "SENT", delivered |-> "DELIVERED", read |-> "READ", failed |-> "SENT"]

FunnelInit ==
    /\ log = <<>>
    /\ spc = [o \in Outs |-> "none"]
    /\ mstatus = [o \in Outs |-> "SENT"]
    /\ known = {}
    /\ delivered = [o \in Outs |-> 0] /\ read = delivered /\ repliedBy = delivered
    /\ cpc = [b \in Callbacks |-> "idle"]
    /\ about = [b \in Callbacks |-> NoOut]
    /\ level = [b \in Callbacks |-> "SENT"]
    /\ saw = [b \in Callbacks |-> "SENT"]
    /\ ipc = [i \in Ins |-> "idle"]
    /\ last = [i \in Ins |-> NoOut]
    /\ raced = {} /\ tangled = {} /\ stale = {}
    /\ resets = 0 /\ faults = 0

Mishap == resets + faults < MaxMishaps
Fault == Mishap /\ faults' = faults + 1

Position(m) == CHOOSE n \in DOMAIN log : log[n] = m
Stored(m) == \E n \in DOMAIN log : log[n] = m
After(m, n) == Stored(m) /\ Stored(n) /\ Position(m) > Position(n)

\* The newest campaign message of the conversation, if any.
Newest == {o \in Outs : Stored(o) /\ \A p \in Outs : ~After(p, o)}

\* Inbound messages whose attribution has not decided yet.
Deciding == {i \in Ins : ipc[i] \in {"last", "prior"}}

----------------------------------------------------------------------------
(* processMessageSendJob: the row, the call, the provider's id.            *)

SendCreate(o) ==
    /\ spc[o] = "none"
    /\ spc' = [spc EXCEPT ![o] = "call"]
    /\ log' = Append(log, o)
    /\ tangled' = tangled \cup (IF Deciding = {} THEN {} ELSE Newest \cup {o})
    /\ UNCHANGED <<mstatus, known, counters, callbackVars, ipc, last, stale,
                   resets, faults>>

\* From here on callbacks may arrive.
SendCall(o) ==
    /\ spc[o] = "call"
    /\ spc' = [spc EXCEPT ![o] = "record"]
    /\ UNCHANGED <<log, mstatus, known, counters, callbackVars, replyVars, stale, resets, faults>>

SendRecord(o) ==
    /\ spc[o] = "record"
    /\ spc' = [spc EXCEPT ![o] = "done"]
    /\ mstatus' = [mstatus EXCEPT ![o] = "SENT"]
    /\ known' = known \cup {o}
    /\ UNCHANGED <<log, counters, callbackVars, replyVars, stale, resets, faults>>

\* Mutant: the row is marked ERROR, which is no MessageStatus.
SendFailsUnknownStatus(o) ==
    /\ spc[o] \in {"call", "record"}
    /\ spc' = [spc EXCEPT ![o] = "done"]
    /\ mstatus' = [mstatus EXCEPT ![o] = "ERROR"]
    /\ Fault
    /\ UNCHANGED <<log, known, counters, callbackVars, replyVars, stale, resets>>

\* The call or the update throws: FAILED, without an id.
SendFails(o) ==
    /\ spc[o] \in {"call", "record"}
    /\ spc' = [spc EXCEPT ![o] = "done"]
    /\ mstatus' = [mstatus EXCEPT ![o] = "FAILED"]
    /\ Fault
    /\ UNCHANGED <<log, known, counters, callbackVars, replyVars, stale, resets>>

\* dispatchCampaignJob starts (again): the counters of the campaign are zeroed.
Reset ==
    /\ Mishap
    /\ resets' = resets + 1
    /\ delivered' = [o \in Outs |-> 0] /\ read' = delivered' /\ repliedBy' = delivered'
    /\ stale' = {o \in Outs : spc[o] # "none"}
    /\ UNCHANGED <<log, outVars, callbackVars, replyVars, faults>>

----------------------------------------------------------------------------
(* applyMessageStatusUpdate.                                               *)

CallbackStep(b, here, there) == cpc[b] = here /\ cpc' = [cpc EXCEPT ![b] = there]

\* The request is over, and what it had read is gone.
CallbackEnds(b) ==
    /\ cpc' = [cpc EXCEPT ![b] = "done"]
    /\ about' = [about EXCEPT ![b] = NoOut]
    /\ level' = [level EXCEPT ![b] = "SENT"]
    /\ saw' = [saw EXCEPT ![b] = "SENT"]

\* A callback for a message the provider took; ids unknown to the database
\* are dropped.
CallbackArrives(b) ==
    /\ CallbackStep(b, "idle", "find")
    /\ \E o \in Outs : spc[o] \in {"record", "done"} /\ about' = [about EXCEPT ![b] = o]
    /\ \E raw \in DOMAIN normalizeMetaStatus :
         level' = [level EXCEPT ![b] = normalizeMetaStatus[raw]]
    /\ UNCHANGED <<log, outVars, counters, saw, raced, replyVars, stale, resets, faults>>

CallbackUnknown(b) ==
    /\ cpc[b] = "find"
    /\ about[b] \notin known
    /\ CallbackEnds(b)
    /\ UNCHANGED <<log, outVars, counters, raced, replyVars, stale, resets, faults>>

\* The callbacks that have read the row of a message and not written it yet.
Writing(o) == {b \in Callbacks : about[b] = o /\ cpc[b] = "update"}

Race(b) == raced' = IF Writing(about[b]) = {} THEN raced ELSE raced \cup {about[b]}

\* Mutant: any status but the one already there is news.
AdvancesIfDifferent(b) == level[b] # mstatus[about[b]]

\* Only a higher status than the row's is news.
Advances(b) == Rank[level[b]] > Rank[mstatus[about[b]]]

CallbackFind(b) ==
    /\ about[b] \in known
    /\ CallbackStep(b, "find", "update")
    /\ Advances(b)
    /\ saw' = [saw EXCEPT ![b] = mstatus[about[b]]]
    /\ Race(b)
    /\ UNCHANGED <<log, outVars, counters, about, level, replyVars, stale, resets, faults>>

CallbackOld(b) ==
    /\ cpc[b] = "find"
    /\ about[b] \in known
    /\ ~Advances(b)
    /\ CallbackEnds(b)
    /\ Race(b)
    /\ UNCHANGED <<log, outVars, counters, replyVars, stale, resets, faults>>

CallbackUpdate(b) ==
    /\ CallbackStep(b, "update", "bumpDelivered")
    /\ mstatus' = [mstatus EXCEPT ![about[b]] = level[b]]
    /\ UNCHANGED <<log, spc, known, counters, about, level, saw, raced, replyVars, stale,
                   resets, faults>>

\* Mutant: READ does not imply DELIVERED.
CrossesOnly(b, s) == Rank[saw[b]] < Rank[s] /\ level[b] = s

\* Did the callback cross this threshold, by what it read?
Crosses(b, s) == Rank[saw[b]] < Rank[s] /\ Rank[level[b]] >= Rank[s]

CallbackDelivered(b) ==
    /\ CallbackStep(b, "bumpDelivered", "bumpRead")
    /\ delivered' = [delivered EXCEPT ![about[b]] = IF Crosses(b, "DELIVERED") THEN @ + 1 ELSE @]
    /\ UNCHANGED <<log, outVars, read, repliedBy, about, level, saw, raced, replyVars, stale,
                   resets, faults>>

CallbackRead(b) ==
    /\ cpc[b] = "bumpRead"
    /\ read' = [read EXCEPT ![about[b]] = IF Crosses(b, "READ") THEN @ + 1 ELSE @]
    /\ CallbackEnds(b)
    /\ UNCHANGED <<log, outVars, delivered, repliedBy, raced, replyVars, stale, resets, faults>>

\* A failed read or write of the message ends the request.
CallbackFails(b) ==
    /\ cpc[b] \in {"find", "update"}
    /\ CallbackEnds(b)
    /\ Fault
    /\ UNCHANGED <<log, outVars, counters, raced, replyVars, stale, resets>>

\* A counter that cannot be written is only logged.
CounterFails(b) ==
    /\ \/ CallbackStep(b, "bumpDelivered", "bumpRead") /\ UNCHANGED <<about, level, saw>>
       \/ cpc[b] = "bumpRead" /\ CallbackEnds(b)
    /\ Fault
    /\ UNCHANGED <<log, outVars, counters, raced, replyVars, stale, resets>>

----------------------------------------------------------------------------
(* The inbound message and attributeCampaignReply.                         *)

ReplyStep(i, here, there) == ipc[i] = here /\ ipc' = [ipc EXCEPT ![i] = there]

ReplyArrives(i) ==
    /\ ReplyStep(i, "idle", "last")
    /\ log' = Append(log, i)
    /\ tangled' = tangled \cup (IF Deciding = {} THEN {} ELSE Newest)
    /\ UNCHANGED <<outVars, counters, callbackVars, last, stale, resets, faults>>

ReplyEnds(i) ==
    /\ ipc' = [ipc EXCEPT ![i] = "done"]
    /\ last' = [last EXCEPT ![i] = NoOut]

FindLast(i) ==
    /\ ReplyStep(i, "last", "prior")
    /\ \E o \in Newest : last' = [last EXCEPT ![i] = o]
    /\ UNCHANGED <<log, outVars, counters, callbackVars, tangled, stale, resets, faults>>

NoCampaign(i) ==
    /\ ipc[i] = "last"
    /\ Newest = {}
    /\ ReplyEnds(i)
    /\ UNCHANGED <<log, outVars, counters, callbackVars, tangled, stale, resets, faults>>

\* Answers stored after a campaign message.
RepliesTo(o) == {i \in Ins : After(i, o)}

\* Mutant: the message that has just arrived is not left out.
PriorRepliesAndItself(i) == RepliesTo(last[i])

PriorReplies(i) == RepliesTo(last[i]) \ {i}

FindPrior(i) ==
    /\ ReplyStep(i, "prior", "bump")
    /\ PriorReplies(i) = {}
    /\ UNCHANGED <<log, outVars, counters, callbackVars, last, tangled, stale,
                   resets, faults>>

AlreadyReplied(i) ==
    /\ ipc[i] = "prior"
    /\ PriorReplies(i) # {}
    /\ ReplyEnds(i)
    /\ UNCHANGED <<log, outVars, counters, callbackVars, tangled, stale, resets, faults>>

\* The origin of the contact, written last when it has none, is left out.
BumpReplied(i) ==
    /\ ipc[i] = "bump"
    /\ repliedBy' = [repliedBy EXCEPT ![last[i]] = @ + 1]
    /\ ReplyEnds(i)
    /\ UNCHANGED <<log, outVars, delivered, read, callbackVars, tangled, stale, resets, faults>>

\* Attribution is best effort.
ReplyFails(i) ==
    /\ ipc[i] \in {"last", "prior", "bump"}
    /\ ReplyEnds(i)
    /\ Fault
    /\ UNCHANGED <<log, outVars, counters, callbackVars, tangled, stale, resets>>

----------------------------------------------------------------------------

FunnelNext ==
    \/ \E o \in Outs : SendCreate(o) \/ SendCall(o) \/ SendRecord(o) \/ SendFails(o)
    \/ Reset
    \/ \E b \in Callbacks :
         \/ CallbackArrives(b) \/ CallbackUnknown(b) \/ CallbackFind(b) \/ CallbackOld(b)
         \/ CallbackUpdate(b) \/ CallbackDelivered(b) \/ CallbackRead(b)
         \/ CallbackFails(b) \/ CounterFails(b)
    \/ \E i \in Ins :
         \/ ReplyArrives(i) \/ FindLast(i) \/ NoCampaign(i) \/ FindPrior(i) \/ AlreadyReplied(i)
         \/ BumpReplied(i) \/ ReplyFails(i)

FunnelSpec == FunnelInit /\ [][FunnelNext]_funnelVars

----------------------------------------------------------------------------
(* Properties.                                                             *)

(* Every variable has the shape the module relies on. *)
FunnelTypeOK ==
    /\ log \in Seq(Outs \cup Ins)
    /\ spc \in [Outs -> {"none", "call", "record", "done"}]
    /\ mstatus \in [Outs -> DOMAIN Rank]
    /\ known \in SUBSET Outs
    /\ delivered \in [Outs -> Nat] /\ read \in [Outs -> Nat] /\ repliedBy \in [Outs -> Nat]
    /\ cpc \in [Callbacks -> {"idle", "find", "update", "bumpDelivered", "bumpRead", "done"}]
    /\ about \in [Callbacks -> Outs \cup {NoOut}]
    /\ level \in [Callbacks -> DOMAIN Rank]
    /\ saw \in [Callbacks -> DOMAIN Rank]
    /\ ipc \in [Ins -> {"idle", "last", "prior", "bump", "done"}]
    /\ last \in [Ins -> Outs \cup {NoOut}]
    /\ raced \in SUBSET Outs /\ tangled \in SUBSET Outs /\ stale \in SUBSET Outs
    /\ resets \in Nat /\ faults \in Nat

Quiet(o) == \A b \in Callbacks : about[b] # o
Count(holds) == IF holds THEN 1 ELSE 0

(* The funnel says of every message what its row says, once each, however  *)
(* often and in whatever order its callbacks came, as long as no two of    *)
(* them overlapped, no call failed and the counters were not zeroed after  *)
(* it was sent (applyMessageStatusUpdate: each threshold counts once).     *)
FunnelIsExactAlone ==
    faults = 0 =>
        \A o \in Outs \ (raced \cup stale) : Quiet(o) =>
            /\ delivered[o] = Count(mstatus[o] \in {"DELIVERED", "READ"})
            /\ read[o] = Count(mstatus[o] = "READ")

(* Even when callbacks overlap, a message counted as read has been counted *)
(* as delivered once all its callbacks are through.                        *)
ReadIsDelivered ==
    faults = 0 =>
        \A o \in Outs \ stale : Quiet(o) /\ read[o] > 0 => delivered[o] > 0

(* The first answer to each campaign message is counted, exactly once and  *)
(* for that message, as long as no other row of the conversation is        *)
(* created while an answer is being attributed (attributeCampaignReply).   *)
RepliesAreExactAlone ==
    faults = 0 /\ (\A i \in Ins : ipc[i] \in {"idle", "done"}) =>
        \A o \in Outs \ (tangled \cup stale) : Stored(o) =>
            repliedBy[o] = Count(\E i \in RepliesTo(o) : \A p \in Outs : ~(After(p, o) /\ After(i, p)))
=============================================================================
