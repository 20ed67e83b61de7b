------------------------ MODULE CampaignFunnelProofs ------------------------
(***************************************************************************)
(* Proofs about CampaignFunnel: type correctness; a message counted as     *)
(* read has been counted as delivered even when callbacks overlap; and the *)
(* funnel is exact for a message whose callbacks never overlapped; and the *)
(* first answer to a message counts exactly once for it.  For any number   *)
(* of messages, answers and callbacks.                                     *)
(***************************************************************************)
EXTENDS CampaignFunnel, TLAPS

High == {"DELIVERED", "READ"}
Working == {"update", "bumpDelivered", "bumpRead"}

(* A callback that has yet to count its message as delivered, or as read.  *)
PendingDelivered(b) == cpc[b] = "bumpDelivered" /\ saw[b] \notin High
PendingRead(b) ==
    cpc[b] \in {"bumpDelivered", "bumpRead"} /\ saw[b] # "READ" /\ level[b] = "READ"

(* A request at work is about a message whose send job has begun, and past *)
(* its read it is about a message with an id, and reports something higher *)
(* than what it read.                                                      *)
CallbacksAim ==
    \A b \in Callbacks :
        /\ about[b] = NoOut <=> cpc[b] \in {"idle", "done"}
        /\ about[b] \in Outs => spc[about[b]] # "none"
        /\ cpc[b] \in Working =>
              /\ about[b] \in known
              /\ level[b] \in High /\ saw[b] # "READ"
              /\ saw[b] = "DELIVERED" => level[b] = "READ"

(* A message without an id has no reported status and counts for nothing.  *)
UnlinkedCountNothing ==
    \A o \in Outs :
        /\ o \in known => spc[o] = "done"
        /\ o \notin known => mstatus[o] \notin High /\ delivered[o] = 0 /\ read[o] = 0
        /\ o \in stale => spc[o] # "none"

(* Whatever shows that a message was delivered comes after a callback that *)
(* has counted it, or is about to.                                         *)
Reached(o) ==
    \/ mstatus[o] \in High
    \/ read[o] > 0
    \/ \E b \in Callbacks :
         about[b] = o /\ (cpc[b] = "bumpRead" \/ (cpc[b] \in Working /\ saw[b] \in High))
CountedOrPending(o) ==
    delivered[o] > 0 \/ \E b \in Callbacks : about[b] = o /\ PendingDelivered(b)
ReachedIsCounted ==
    faults = 0 => \A o \in Outs \ stale : Reached(o) => CountedOrPending(o)

(* While callbacks have not overlapped on a message, one at most is about  *)
(* to write its row, and what it read is still there.                      *)
OneWriter ==
    faults = 0 =>
        \A o \in Outs \ (raced \cup stale), b \in Callbacks :
            about[b] = o /\ cpc[b] = "update" =>
                /\ saw[b] = mstatus[o]
                /\ \A d \in Callbacks : about[d] = o /\ cpc[d] = "update" => d = b

(* ... and each threshold it has crossed is counted, or is about to be by  *)
(* exactly one callback.                                                   *)
ExactDelivered(o) ==
    LET Counts(b) == about[b] = o /\ PendingDelivered(b) IN
    \/ mstatus[o] \notin High /\ delivered[o] = 0 /\ \A b \in Callbacks : ~Counts(b)
    \/ mstatus[o] \in High /\ delivered[o] = 1 /\ \A b \in Callbacks : ~Counts(b)
    \/ /\ mstatus[o] \in High /\ delivered[o] = 0
       /\ \E b \in Callbacks : Counts(b) /\ \A d \in Callbacks : Counts(d) => d = b
ExactRead(o) ==
    LET Counts(b) == about[b] = o /\ PendingRead(b) IN
    \/ mstatus[o] # "READ" /\ read[o] = 0 /\ \A b \in Callbacks : ~Counts(b)
    \/ mstatus[o] = "READ" /\ read[o] = 1 /\ \A b \in Callbacks : ~Counts(b)
    \/ /\ mstatus[o] = "READ" /\ read[o] = 0
       /\ \E b \in Callbacks : Counts(b) /\ \A d \in Callbacks : Counts(d) => d = b
ThresholdsCounted ==
    faults = 0 => \A o \in Outs \ (raced \cup stale) : ExactDelivered(o) /\ ExactRead(o)

Base == FunnelTypeOK /\ CallbacksAim /\ UnlinkedCountNothing
IInv == Base /\ ReachedIsCounted /\ OneWriter /\ ThresholdsCounted

----------------------------------------------------------------------------
(* What the ranks of the statuses say.                                     *)
LEMMA StatusDomain == DOMAIN Rank = {"SENT", "DELIVERED", "READ", "FAILED"}
  BY DEF Rank

LEMMA RankCompares ==
    ASSUME FunnelTypeOK, NEW b \in Callbacks
    PROVE  /\ Crosses(b, "DELIVERED") <=> saw[b] \notin High /\ level[b] \in High
           /\ Crosses(b, "READ") <=> saw[b] # "READ" /\ level[b] = "READ"
           /\ about[b] \in Outs =>
                (Advances(b) <=> \/ level[b] \in High /\ mstatus[about[b]] \notin High
                                 \/ level[b] = "READ" /\ mstatus[about[b]] = "DELIVERED")
<1>1. Rank["SENT"] = 0 /\ Rank["DELIVERED"] = 1 /\ Rank["READ"] = 2 /\ Rank["FAILED"] = 0
  BY DEF Rank
<1>2. /\ saw[b] \in {"SENT", "DELIVERED", "READ", "FAILED"}
      /\ level[b] \in {"SENT", "DELIVERED", "READ", "FAILED"}
      /\ about[b] \in Outs => mstatus[about[b]] \in {"SENT", "DELIVERED", "READ", "FAILED"}
  BY StatusDomain DEF FunnelTypeOK
<1>3. Crosses(b, "DELIVERED") <=> saw[b] \notin High /\ level[b] \in High
  BY <1>1, <1>2 DEF Crosses, High
<1>4. Crosses(b, "READ") <=> saw[b] # "READ" /\ level[b] = "READ"
  BY <1>1, <1>2 DEF Crosses
<1>5. ASSUME about[b] \in Outs
      PROVE  Advances(b) <=> \/ level[b] \in High /\ mstatus[about[b]] \notin High
                             \/ level[b] = "READ" /\ mstatus[about[b]] = "DELIVERED"
  BY <1>1, <1>2, <1>5 DEF Advances, High
<1> QED
  BY <1>3, <1>4, <1>5

(* Initially nothing was sent and nothing is counted.                      *)
LEMMA InitInvariant == FunnelInit => IInv
<1> SUFFICES ASSUME FunnelInit PROVE IInv
  OBVIOUS
<1>1. FunnelTypeOK
  BY StatusDomain DEF FunnelInit, FunnelTypeOK
<1>2. CallbacksAim /\ UnlinkedCountNothing
  BY NoOutAssumption DEF FunnelInit, CallbacksAim, UnlinkedCountNothing, High, Working
<1>3. ReachedIsCounted
  BY DEF FunnelInit, ReachedIsCounted, Reached, High, Working
<1>4. OneWriter
  BY DEF FunnelInit, OneWriter
<1>5. ThresholdsCounted
  BY DEF FunnelInit, ThresholdsCounted, ExactDelivered, ExactRead, PendingDelivered, PendingRead, High
<1> QED
  BY <1>1, <1>2, <1>3, <1>4, <1>5 DEF IInv, Base
----------------------------------------------------------------------------
(* The types, the aims of the callbacks and the unlinked messages.         *)

LEMMA TypesKept == FunnelTypeOK /\ [FunnelNext]_funnelVars => FunnelTypeOK'
<1> SUFFICES ASSUME FunnelTypeOK, [FunnelNext]_funnelVars PROVE FunnelTypeOK'
  OBVIOUS
<1> USE StatusDomain
<1> USE DEF FunnelTypeOK
<1>1. ASSUME NEW o \in Outs, SendCreate(o) PROVE FunnelTypeOK'
  BY <1>1 DEF SendCreate, Newest, counters, callbackVars
<1>2. ASSUME NEW o \in Outs, SendCall(o) PROVE FunnelTypeOK'
  BY <1>2 DEF SendCall, counters, callbackVars, replyVars
<1>3. ASSUME NEW o \in Outs, SendRecord(o) PROVE FunnelTypeOK'
  BY <1>3 DEF SendRecord, counters, callbackVars, replyVars
<1>4. ASSUME NEW o \in Outs, SendFails(o) PROVE FunnelTypeOK'
  BY <1>4 DEF SendFails, Fault, counters, callbackVars, replyVars
<1>5. CASE Reset
  BY <1>5 DEF Reset, outVars, callbackVars, replyVars
<1>6. ASSUME NEW b \in Callbacks, CallbackArrives(b) PROVE FunnelTypeOK'
  <2>1. PICK raw \in DOMAIN normalizeMetaStatus :
           level' = [level EXCEPT ![b] = normalizeMetaStatus[raw]]
    BY <1>6 DEF CallbackArrives
  <2>2. normalizeMetaStatus[raw] \in DOMAIN Rank
    BY DEF normalizeMetaStatus
  <2> QED
    BY <1>6, <2>1, <2>2 DEF CallbackArrives, CallbackStep, outVars, counters, replyVars
<1>7. ASSUME NEW b \in Callbacks, CallbackUnknown(b) PROVE FunnelTypeOK'
  BY <1>7 DEF CallbackUnknown, CallbackEnds, outVars, counters, replyVars
<1>8. ASSUME NEW b \in Callbacks, CallbackFind(b) PROVE FunnelTypeOK'
  BY <1>8 DEF CallbackFind, CallbackStep, Race, outVars, counters, replyVars
<1>9. ASSUME NEW b \in Callbacks, CallbackOld(b) PROVE FunnelTypeOK'
  BY <1>9 DEF CallbackOld, CallbackEnds, Race, outVars, counters, replyVars
<1>10. ASSUME NEW b \in Callbacks, CallbackUpdate(b) PROVE FunnelTypeOK'
  BY <1>10 DEF CallbackUpdate, CallbackStep, counters, replyVars
<1>11. ASSUME NEW b \in Callbacks, CallbackDelivered(b) PROVE FunnelTypeOK'
  <2>1. delivered' \in [Outs -> Nat]
    <3>1. ASSUME NEW o \in Outs PROVE delivered'[o] \in Nat
      BY <1>11, <3>1 DEF CallbackDelivered
    <3> QED
      BY <1>11, <3>1 DEF CallbackDelivered
  <2> QED
    BY <1>11, <2>1 DEF CallbackDelivered, CallbackStep, outVars, replyVars
<1>12. ASSUME NEW b \in Callbacks, CallbackRead(b) PROVE FunnelTypeOK'
  <2>1. read' \in [Outs -> Nat]
    <3>1. ASSUME NEW o \in Outs PROVE read'[o] \in Nat
      BY <1>12, <3>1 DEF CallbackRead
    <3> QED
      BY <1>12, <3>1 DEF CallbackRead
  <2> QED
    BY <1>12, <2>1 DEF CallbackRead, CallbackEnds, outVars, replyVars
<1>13. ASSUME NEW b \in Callbacks, CallbackFails(b) PROVE FunnelTypeOK'
  BY <1>13 DEF CallbackFails, CallbackEnds, Fault, outVars, counters, replyVars
<1>14. ASSUME NEW b \in Callbacks, CounterFails(b) PROVE FunnelTypeOK'
  <2>1. cpc' \in [Callbacks -> {"idle", "find", "update", "bumpDelivered", "bumpRead", "done"}]
    BY <1>14 DEF CounterFails, CallbackStep, CallbackEnds
  <2>2. /\ about' \in [Callbacks -> Outs \cup {NoOut}]
        /\ level' \in [Callbacks -> DOMAIN Rank] /\ saw' \in [Callbacks -> DOMAIN Rank]
    BY <1>14 DEF CounterFails, CallbackEnds
  <2> QED
    BY <1>14, <2>1, <2>2 DEF CounterFails, Fault, outVars, counters, replyVars
<1>15. ASSUME NEW i \in Ins, ReplyArrives(i) PROVE FunnelTypeOK'
  BY <1>15 DEF ReplyArrives, ReplyStep, Newest, outVars, counters, callbackVars
<1>16. ASSUME NEW i \in Ins, FindLast(i) PROVE FunnelTypeOK'
  BY <1>16 DEF FindLast, ReplyStep, Newest, outVars, counters, callbackVars
<1>17. ASSUME NEW i \in Ins, NoCampaign(i) PROVE FunnelTypeOK'
  BY <1>17 DEF NoCampaign, ReplyEnds, outVars, counters, callbackVars
<1>18. ASSUME NEW i \in Ins, FindPrior(i) PROVE FunnelTypeOK'
  BY <1>18 DEF FindPrior, ReplyStep, outVars, counters, callbackVars
<1>19. ASSUME NEW i \in Ins, AlreadyReplied(i) PROVE FunnelTypeOK'
  BY <1>19 DEF AlreadyReplied, ReplyEnds, outVars, counters, callbackVars
<1>20. ASSUME NEW i \in Ins, BumpReplied(i) PROVE FunnelTypeOK'
  <2>1. repliedBy' \in [Outs -> Nat]
    <3>1. ASSUME NEW o \in Outs PROVE repliedBy'[o] \in Nat
      BY <1>20, <3>1 DEF BumpReplied
    <3> QED
      BY <1>20, <3>1 DEF BumpReplied
  <2> QED
    BY <1>20, <2>1 DEF BumpReplied, ReplyEnds, outVars, callbackVars
<1>21. ASSUME NEW i \in Ins, ReplyFails(i) PROVE FunnelTypeOK'
  BY <1>21 DEF ReplyFails, ReplyEnds, Fault, outVars, counters, callbackVars
<1>22. CASE UNCHANGED funnelVars
  BY <1>22 DEF funnelVars, outVars, counters, callbackVars, replyVars
<1> QED
  BY <1>1, <1>2, <1>3, <1>4, <1>5, <1>6, <1>7, <1>8, <1>9, <1>10, <1>11, <1>12, <1>13, <1>14, <1>15, <1>16, <1>17, <1>18, <1>19, <1>20, <1>21, <1>22 DEF FunnelNext
----------------------------------------------------------------------------
(* Every step keeps the aims of the callbacks and what an unlinked message *)
(* counts for.                                                             *)
LEMMA BaseKept == Base /\ [FunnelNext]_funnelVars => Base'
<1> SUFFICES ASSUME Base, [FunnelNext]_funnelVars PROVE CallbacksAim' /\ UnlinkedCountNothing'
  BY TypesKept DEF Base
<1> USE DEF Base, CallbacksAim, UnlinkedCountNothing
<1>t. FunnelTypeOK
  OBVIOUS
<1>1. ASSUME NEW o \in Outs, SendCreate(o) PROVE CallbacksAim' /\ UnlinkedCountNothing'
  BY <1>t, <1>1 DEF SendCreate, FunnelTypeOK, counters, callbackVars
<1>2. ASSUME NEW o \in Outs, SendCall(o) PROVE CallbacksAim' /\ UnlinkedCountNothing'
  BY <1>t, <1>2 DEF SendCall, FunnelTypeOK, counters, callbackVars
<1>3. ASSUME NEW o \in Outs, SendRecord(o) PROVE CallbacksAim' /\ UnlinkedCountNothing'
  BY <1>t, <1>3 DEF SendRecord, FunnelTypeOK, counters, callbackVars, High
<1>4. ASSUME NEW o \in Outs, SendFails(o) PROVE CallbacksAim' /\ UnlinkedCountNothing'
  BY <1>t, <1>4 DEF SendFails, FunnelTypeOK, counters, callbackVars, High
<1>5. CASE Reset
  BY <1>t, <1>5 DEF Reset, FunnelTypeOK, outVars, callbackVars
<1>6. ASSUME NEW b \in Callbacks, CallbackArrives(b)
      PROVE  CallbacksAim' /\ UnlinkedCountNothing'
  BY <1>t, <1>6, NoOutAssumption
     DEF CallbackArrives, CallbackStep, FunnelTypeOK, outVars, counters, Working
<1>7. ASSUME NEW b \in Callbacks, CallbackUnknown(b)
      PROVE  CallbacksAim' /\ UnlinkedCountNothing'
  BY <1>t, <1>7, NoOutAssumption
     DEF CallbackUnknown, CallbackEnds, FunnelTypeOK, outVars, counters, Working
<1>8. ASSUME NEW b \in Callbacks, CallbackFind(b)
      PROVE  CallbacksAim' /\ UnlinkedCountNothing'
  BY <1>t, <1>8, RankCompares, StatusDomain
     DEF CallbackFind, CallbackStep, FunnelTypeOK, outVars, counters, Working, High
<1>9. ASSUME NEW b \in Callbacks, CallbackOld(b)
      PROVE  CallbacksAim' /\ UnlinkedCountNothing'
  BY <1>t, <1>9, NoOutAssumption
     DEF CallbackOld, CallbackEnds, FunnelTypeOK, outVars, counters, Working
<1>10. ASSUME NEW b \in Callbacks, CallbackUpdate(b)
       PROVE  CallbacksAim' /\ UnlinkedCountNothing'
  BY <1>t, <1>10 DEF CallbackUpdate, CallbackStep, FunnelTypeOK, counters, Working
<1>11. ASSUME NEW b \in Callbacks, CallbackDelivered(b)
       PROVE  CallbacksAim' /\ UnlinkedCountNothing'
  BY <1>t, <1>11 DEF CallbackDelivered, CallbackStep, FunnelTypeOK, outVars, Working
<1>12. ASSUME NEW b \in Callbacks, CallbackRead(b)
       PROVE  CallbacksAim' /\ UnlinkedCountNothing'
  BY <1>t, <1>12, NoOutAssumption
     DEF CallbackRead, CallbackEnds, FunnelTypeOK, outVars, Working
<1>13. ASSUME NEW b \in Callbacks, CallbackFails(b)
       PROVE  CallbacksAim' /\ UnlinkedCountNothing'
  BY <1>t, <1>13, NoOutAssumption
     DEF CallbackFails, CallbackEnds, FunnelTypeOK, outVars, counters, Working
<1>14. ASSUME NEW b \in Callbacks, CounterFails(b)
       PROVE  CallbacksAim' /\ UnlinkedCountNothing'
  <2>1. CASE cpc[b] = "bumpRead" /\ CallbackEnds(b)
    BY <1>t, <1>14, <2>1, NoOutAssumption
       DEF CounterFails, CallbackEnds, FunnelTypeOK, outVars, counters, Working
  <2>2. CASE CallbackStep(b, "bumpDelivered", "bumpRead") /\ UNCHANGED <<about, level, saw>>
    BY <1>t, <1>14, <2>2 DEF CounterFails, CallbackStep, FunnelTypeOK, outVars, counters, Working
  <2> QED
    BY <1>14, <2>1, <2>2 DEF CounterFails
<1>15. ASSUME NEW i \in Ins,
              ReplyArrives(i) \/ FindLast(i) \/ NoCampaign(i) \/ FindPrior(i) \/ AlreadyReplied(i)
              \/ BumpReplied(i) \/ ReplyFails(i)
       PROVE  CallbacksAim' /\ UnlinkedCountNothing'
  <2>1. UNCHANGED <<spc, mstatus, known, delivered, read, cpc, about, level, saw, stale>>
    BY <1>15 DEF ReplyArrives, FindLast, NoCampaign, FindPrior, AlreadyReplied, BumpReplied, ReplyFails,
                 outVars, counters, callbackVars
  <2> QED
    BY <2>1
<1>16. CASE UNCHANGED funnelVars
  BY <1>16 DEF funnelVars, outVars, counters, callbackVars
<1> QED
  BY <1>1, <1>2, <1>3, <1>4, <1>5, <1>6, <1>7, <1>8, <1>9, <1>10, <1>11, <1>12, <1>13, <1>14,
     <1>15, <1>16 DEF FunnelNext
----------------------------------------------------------------------------
(* A failed call shows in faults.                                          *)
LEMMA FaultsShow ==
    ASSUME FunnelTypeOK,
           \/ \E o \in Outs : SendFails(o)
           \/ \E b \in Callbacks : CallbackFails(b) \/ CounterFails(b)
           \/ \E i \in Ins : ReplyFails(i)
    PROVE  faults' # 0
<1>1. faults' = faults + 1
  BY DEF SendFails, CallbackFails, CounterFails, ReplyFails, Fault
<1> QED
  BY <1>1 DEF FunnelTypeOK

(* The steps of an answer leave the statuses and their counters alone.     *)
LEMMA AnswersApart ==
    ASSUME NEW i \in Ins,
           ReplyArrives(i) \/ FindLast(i) \/ NoCampaign(i) \/ FindPrior(i) \/ AlreadyReplied(i)
           \/ BumpReplied(i) \/ ReplyFails(i)
    PROVE  UNCHANGED <<spc, mstatus, known, delivered, read, cpc, about, level, saw, raced, stale>>
  BY DEF ReplyArrives, FindLast, NoCampaign, FindPrior, AlreadyReplied, BumpReplied, ReplyFails,
         outVars, counters, callbackVars

(* What shows that a message was delivered is counted, or about to be.     *)
LEMMA ReachedKept ==
    IInv /\ [FunnelNext]_funnelVars => ReachedIsCounted'
<1> SUFFICES ASSUME IInv, [FunnelNext]_funnelVars, faults' = 0, NEW o \in Outs \ stale', Reached(o)'
             PROVE  CountedOrPending(o)'
  BY DEF ReachedIsCounted
<1>t. FunnelTypeOK /\ CallbacksAim /\ UnlinkedCountNothing /\ (faults = faults' => ReachedIsCounted)
  BY DEF IInv, Base
<1> USE DEF IInv
<1>1. ASSUME NEW p \in Outs, SendCreate(p) \/ SendCall(p) PROVE CountedOrPending(o)'
  <2>1. UNCHANGED <<mstatus, delivered, read, cpc, about, saw, stale, faults>>
    BY <1>1 DEF SendCreate, SendCall, outVars, counters, callbackVars, replyVars
  <2> QED
    BY <2>1 DEF ReachedIsCounted, Reached, CountedOrPending, PendingDelivered
<1>2. ASSUME NEW p \in Outs, SendRecord(p) PROVE CountedOrPending(o)'
  <2>1. Reached(o)
    BY <1>t, <1>2 DEF SendRecord, Reached, FunnelTypeOK, High, counters, callbackVars, replyVars
  <2> QED
    BY <1>t, <1>2, <2>1 DEF SendRecord, ReachedIsCounted, Reached, CountedOrPending, PendingDelivered, counters, callbackVars, replyVars
<1>3. CASE Reset
  <2>1. spc[o] = "none"
    BY <1>3 DEF Reset
  <2>2. \A b \in Callbacks : about[b] # o
    BY <1>t, <2>1 DEF CallbacksAim
  <2>3. mstatus[o] \notin High
    BY <1>t, <2>1 DEF UnlinkedCountNothing
  <2> QED
    BY <1>3, <2>2, <2>3 DEF Reset, Reached, outVars, callbackVars
<1>4. ASSUME NEW b \in Callbacks, CallbackArrives(b) PROVE CountedOrPending(o)'
  <2>1. Reached(o)
    BY <1>t, <1>4, NoOutAssumption DEF CallbackArrives, CallbackStep, outVars, counters, replyVars, Reached, FunnelTypeOK, Working, High
  <2>2. CountedOrPending(o)
    BY <1>t, <1>4, <2>1 DEF CallbackArrives, CallbackStep, outVars, counters, replyVars, ReachedIsCounted
  <2> QED
    BY <1>t, <1>4, <2>2 DEF CallbackArrives, CallbackStep, outVars, counters, replyVars, CountedOrPending, PendingDelivered, FunnelTypeOK
<1>5. ASSUME NEW b \in Callbacks, CallbackUnknown(b) PROVE CountedOrPending(o)'
  <2>1. Reached(o)
    BY <1>t, <1>5, NoOutAssumption DEF CallbackUnknown, CallbackEnds, outVars, counters, replyVars, Reached, FunnelTypeOK, Working, High
  <2>2. CountedOrPending(o)
    BY <1>t, <1>5, <2>1 DEF CallbackUnknown, CallbackEnds, outVars, counters, replyVars, ReachedIsCounted
  <2> QED
    BY <1>t, <1>5, <2>2 DEF CallbackUnknown, CallbackEnds, outVars, counters, replyVars, CountedOrPending, PendingDelivered, FunnelTypeOK
<1>6. ASSUME NEW b \in Callbacks, CallbackFind(b) PROVE CountedOrPending(o)'
  <2>1. Reached(o)
    BY <1>t, <1>6, NoOutAssumption DEF CallbackFind, CallbackStep, outVars, counters, replyVars, Reached, FunnelTypeOK, Working, High
  <2>2. CountedOrPending(o)
    BY <1>t, <1>6, <2>1 DEF CallbackFind, CallbackStep, outVars, counters, replyVars, ReachedIsCounted
  <2> QED
    BY <1>t, <1>6, <2>2 DEF CallbackFind, CallbackStep, outVars, counters, replyVars, CountedOrPending, PendingDelivered, FunnelTypeOK
<1>7. ASSUME NEW b \in Callbacks, CallbackOld(b) PROVE CountedOrPending(o)'
  <2>1. Reached(o)
    BY <1>t, <1>7, NoOutAssumption DEF CallbackOld, CallbackEnds, outVars, counters, replyVars, Reached, FunnelTypeOK, Working, High
  <2>2. CountedOrPending(o)
    BY <1>t, <1>7, <2>1 DEF CallbackOld, CallbackEnds, outVars, counters, replyVars, ReachedIsCounted
  <2> QED
    BY <1>t, <1>7, <2>2 DEF CallbackOld, CallbackEnds, outVars, counters, replyVars, CountedOrPending, PendingDelivered, FunnelTypeOK
<1>8. ASSUME NEW b \in Callbacks, CallbackRead(b) PROVE CountedOrPending(o)'
  <2>1. Reached(o)
    BY <1>t, <1>8, NoOutAssumption DEF CallbackRead, CallbackEnds, outVars, replyVars, Reached, FunnelTypeOK, Working, High
  <2>2. CountedOrPending(o)
    BY <1>t, <1>8, <2>1 DEF CallbackRead, CallbackEnds, outVars, replyVars, ReachedIsCounted
  <2> QED
    BY <1>t, <1>8, <2>2 DEF CallbackRead, CallbackEnds, outVars, replyVars, CountedOrPending, PendingDelivered, FunnelTypeOK
<1>9. ASSUME NEW b \in Callbacks, CallbackUpdate(b) PROVE CountedOrPending(o)'
  <2>1. CASE about[b] = o /\ saw[b] \notin High
    BY <1>t, <1>9, <2>1 DEF CallbackUpdate, CallbackStep, CountedOrPending, PendingDelivered, FunnelTypeOK
  <2>2. CASE ~(about[b] = o /\ saw[b] \notin High)
    <3>1. Reached(o)
      BY <1>t, <1>9, <2>2 DEF CallbackUpdate, CallbackStep, Reached, FunnelTypeOK, Working, counters
    <3>2. CountedOrPending(o)
      BY <1>t, <1>9, <3>1 DEF CallbackUpdate, ReachedIsCounted, replyVars
    <3> QED
      BY <1>t, <1>9, <3>2
         DEF CallbackUpdate, CallbackStep, CountedOrPending, PendingDelivered, FunnelTypeOK, counters
  <2> QED
    BY <2>1, <2>2
<1>10. ASSUME NEW b \in Callbacks, CallbackDelivered(b) PROVE CountedOrPending(o)'
  <2>1. CASE about[b] = o /\ PendingDelivered(b)
    <3>1. Crosses(b, "DELIVERED")
      BY <1>t, <2>1, RankCompares DEF CallbacksAim, PendingDelivered, Working
    <3> QED
      BY <1>t, <1>10, <2>1, <3>1 DEF CallbackDelivered, CountedOrPending, FunnelTypeOK
  <2>2. CASE ~(about[b] = o /\ PendingDelivered(b))
    <3>1. Reached(o)
      BY <1>t, <1>10, <2>2
         DEF CallbackDelivered, CallbackStep, Reached, PendingDelivered, FunnelTypeOK, Working, outVars
    <3>2. CountedOrPending(o)
      BY <1>t, <1>10, <3>1 DEF CallbackDelivered, ReachedIsCounted, replyVars
    <3>3. delivered[o] > 0 => delivered'[o] > 0
      BY <1>t, <1>10 DEF CallbackDelivered, FunnelTypeOK
    <3> QED
      BY <1>t, <1>10, <2>2, <3>2, <3>3
         DEF CallbackDelivered, CallbackStep, CountedOrPending, PendingDelivered, FunnelTypeOK
  <2> QED
    BY <2>1, <2>2
<1>11. ASSUME NEW i \in Ins,
             ReplyArrives(i) \/ FindLast(i) \/ NoCampaign(i) \/ FindPrior(i) \/ AlreadyReplied(i)
             \/ BumpReplied(i)
      PROVE  CountedOrPending(o)'
  <2>1. UNCHANGED <<mstatus, delivered, read, cpc, about, saw, stale, faults>>
    BY <1>11, AnswersApart
       DEF ReplyArrives, FindLast, NoCampaign, FindPrior, AlreadyReplied, BumpReplied
  <2> QED
    BY <2>1 DEF ReachedIsCounted, Reached, CountedOrPending, PendingDelivered
<1>12. CASE UNCHANGED funnelVars
  <2>1. UNCHANGED <<mstatus, delivered, read, cpc, about, saw, stale, faults>>
    BY <1>12 DEF funnelVars, outVars, counters, callbackVars
  <2> QED
    BY <2>1 DEF ReachedIsCounted, Reached, CountedOrPending, PendingDelivered
<1>13. CASE \/ \E p \in Outs : SendFails(p)
            \/ \E b \in Callbacks : CallbackFails(b) \/ CounterFails(b)
            \/ \E i \in Ins : ReplyFails(i)
  BY <1>t, <1>13, FaultsShow
<1> QED
  <2>1. ASSUME NEW p \in Outs, SendCreate(p) \/ SendCall(p) \/ SendRecord(p) \/ SendFails(p)
        PROVE  CountedOrPending(o)'
    BY <2>1, <1>1, <1>2, <1>13
  <2>2. ASSUME NEW b \in Callbacks,
               \/ CallbackArrives(b) \/ CallbackUnknown(b) \/ CallbackFind(b) \/ CallbackOld(b)
               \/ CallbackUpdate(b) \/ CallbackDelivered(b) \/ CallbackRead(b)
               \/ CallbackFails(b) \/ CounterFails(b)
        PROVE  CountedOrPending(o)'
    BY <2>2, <1>4, <1>5, <1>6, <1>7, <1>8, <1>9, <1>10, <1>13
  <2>3. ASSUME NEW i \in Ins,
               \/ ReplyArrives(i) \/ FindLast(i) \/ NoCampaign(i) \/ FindPrior(i) \/ AlreadyReplied(i)
               \/ BumpReplied(i) \/ ReplyFails(i)
        PROVE  CountedOrPending(o)'
    BY <2>3, <1>11, <1>13
  <2> QED
    BY <1>3, <1>12, <2>1, <2>2, <2>3 DEF FunnelNext

(* On a message whose callbacks did not overlap one of them writes.        *)
LEMMA WriterKept ==
    IInv /\ [FunnelNext]_funnelVars => OneWriter'
<1> SUFFICES ASSUME IInv, [FunnelNext]_funnelVars, faults' = 0 PROVE OneWriter'
  BY DEF OneWriter
<1>t. FunnelTypeOK /\ CallbacksAim /\ UnlinkedCountNothing /\ OneWriter
  BY DEF IInv, Base
<1>1. ASSUME NEW p \in Outs, SendCreate(p) \/ SendCall(p) PROVE OneWriter'
  <2>1. UNCHANGED <<mstatus, cpc, about, saw, raced, stale, faults>>
    BY <1>1 DEF SendCreate, SendCall, outVars, counters, callbackVars, replyVars
  <2> QED
    BY <1>t, <2>1 DEF OneWriter
<1>2. ASSUME NEW p \in Outs, SendRecord(p) PROVE OneWriter'
  BY <1>t, <1>2 DEF SendRecord, OneWriter, CallbacksAim, UnlinkedCountNothing, Working, FunnelTypeOK,
              counters, callbackVars, replyVars
<1>3. CASE Reset
  <2>1. \A o \in Outs \ stale' : \A b \in Callbacks : about[b] # o
    BY <1>t, <1>3 DEF Reset, CallbacksAim
  <2> QED
    BY <1>t, <1>3, <2>1 DEF Reset, OneWriter, outVars, callbackVars
<1>4. ASSUME NEW b \in Callbacks, CallbackArrives(b) PROVE OneWriter'
  BY <1>t, <1>4, NoOutAssumption DEF CallbackArrives, CallbackStep, outVars, counters, replyVars, OneWriter, FunnelTypeOK
<1>5. ASSUME NEW b \in Callbacks, CallbackUnknown(b) PROVE OneWriter'
  BY <1>t, <1>5, NoOutAssumption DEF CallbackUnknown, CallbackEnds, outVars, counters, replyVars, OneWriter, FunnelTypeOK
<1>6. ASSUME NEW b \in Callbacks, CallbackFind(b) PROVE OneWriter'
  BY <1>t, <1>6, NoOutAssumption DEF CallbackFind, CallbackStep, Race, Writing, outVars, counters, replyVars, OneWriter, FunnelTypeOK
<1>7. ASSUME NEW b \in Callbacks, CallbackOld(b) PROVE OneWriter'
  BY <1>t, <1>7, NoOutAssumption DEF CallbackOld, CallbackEnds, Race, outVars, counters, replyVars, OneWriter, FunnelTypeOK
<1>8. ASSUME NEW b \in Callbacks, CallbackRead(b) PROVE OneWriter'
  BY <1>t, <1>8, NoOutAssumption DEF CallbackRead, CallbackEnds, outVars, replyVars, OneWriter, FunnelTypeOK
<1>9. ASSUME NEW b \in Callbacks, CallbackUpdate(b) PROVE OneWriter'
  BY <1>t, <1>9, NoOutAssumption DEF CallbackUpdate, CallbackStep, counters, replyVars, OneWriter, FunnelTypeOK
<1>10. ASSUME NEW b \in Callbacks, CallbackDelivered(b) PROVE OneWriter'
  BY <1>t, <1>10, NoOutAssumption DEF CallbackDelivered, CallbackStep, outVars, replyVars, OneWriter, FunnelTypeOK
<1>11. ASSUME NEW i \in Ins,
             ReplyArrives(i) \/ FindLast(i) \/ NoCampaign(i) \/ FindPrior(i) \/ AlreadyReplied(i)
             \/ BumpReplied(i)
      PROVE  OneWriter'
  <2>1. UNCHANGED <<mstatus, cpc, about, saw, raced, stale, faults>>
    BY <1>11, AnswersApart
       DEF ReplyArrives, FindLast, NoCampaign, FindPrior, AlreadyReplied, BumpReplied
  <2> QED
    BY <1>t, <2>1 DEF OneWriter
<1>12. CASE UNCHANGED funnelVars
  <2>1. UNCHANGED <<mstatus, cpc, about, saw, raced, stale, faults>>
    BY <1>12 DEF funnelVars, outVars, counters, callbackVars
  <2> QED
    BY <1>t, <2>1 DEF OneWriter
<1>13. CASE \/ \E p \in Outs : SendFails(p)
            \/ \E b \in Callbacks : CallbackFails(b) \/ CounterFails(b)
            \/ \E i \in Ins : ReplyFails(i)
  BY <1>t, <1>13, FaultsShow
<1> QED
  <2>1. ASSUME NEW p \in Outs, SendCreate(p) \/ SendCall(p) \/ SendRecord(p) \/ SendFails(p)
        PROVE  OneWriter'
    BY <2>1, <1>1, <1>2, <1>13
  <2>2. ASSUME NEW b \in Callbacks,
               \/ CallbackArrives(b) \/ CallbackUnknown(b) \/ CallbackFind(b) \/ CallbackOld(b)
               \/ CallbackUpdate(b) \/ CallbackDelivered(b) \/ CallbackRead(b)
               \/ CallbackFails(b) \/ CounterFails(b)
        PROVE  OneWriter'
    BY <2>2, <1>4, <1>5, <1>6, <1>7, <1>8, <1>9, <1>10, <1>13
  <2>3. ASSUME NEW i \in Ins,
               \/ ReplyArrives(i) \/ FindLast(i) \/ NoCampaign(i) \/ FindPrior(i) \/ AlreadyReplied(i)
               \/ BumpReplied(i) \/ ReplyFails(i)
        PROVE  OneWriter'
    BY <2>3, <1>11, <1>13
  <2> QED
    BY <1>3, <1>12, <2>1, <2>2, <2>3 DEF FunnelNext

(* Delivered messages are counted, each once.                              *)
LEMMA DeliveredKept ==
    IInv /\ [FunnelNext]_funnelVars /\ faults' = 0 => \A o \in Outs \ (raced' \cup stale') : ExactDelivered(o)'
<1> SUFFICES ASSUME IInv, [FunnelNext]_funnelVars, faults' = 0, NEW o \in Outs \ (raced' \cup stale')
             PROVE  ExactDelivered(o)'
  OBVIOUS
<1>t. FunnelTypeOK /\ CallbacksAim /\ UnlinkedCountNothing /\ OneWriter /\ ThresholdsCounted
  BY DEF IInv, Base
<1>e. ASSUME faults = 0, o \notin raced \cup stale PROVE ExactDelivered(o)
  BY <1>t, <1>e DEF ThresholdsCounted
<1>1. ASSUME NEW p \in Outs, SendCreate(p) \/ SendCall(p) PROVE ExactDelivered(o)'
  <2>1. UNCHANGED <<mstatus, delivered, cpc, about, level, saw, raced, stale, faults>>
    BY <1>1 DEF SendCreate, SendCall, outVars, counters, callbackVars, replyVars
  <2> QED
    BY <1>e, <2>1 DEF ExactDelivered, PendingDelivered
<1>2. ASSUME NEW p \in Outs, SendRecord(p) PROVE ExactDelivered(o)'
  <2>1. ExactDelivered(o) /\ UNCHANGED <<delivered, cpc, about, level, saw>>
    BY <1>e, <1>2 DEF SendRecord, counters, callbackVars, replyVars
  <2>2. CASE o = p
    <3>1. mstatus[o] \notin High /\ mstatus'[o] = "SENT"
      BY <1>t, <2>2, <1>2 DEF SendRecord, UnlinkedCountNothing, FunnelTypeOK
    <3> QED
      BY <2>1, <3>1 DEF ExactDelivered, PendingDelivered, High
  <2>3. CASE o # p
    <3>1. mstatus'[o] = mstatus[o]
      BY <1>t, <2>3, <1>2 DEF SendRecord, FunnelTypeOK
    <3> QED
      BY <2>1, <3>1 DEF ExactDelivered, PendingDelivered
  <2> QED
    BY <2>2, <2>3
<1>3. CASE Reset
  <2>1. \A b \in Callbacks : about[b] # o
    BY <1>t, <1>3 DEF Reset, CallbacksAim
  <2>2. mstatus[o] \notin High
    BY <1>t, <1>3 DEF Reset, UnlinkedCountNothing
  <2> QED
    BY <1>3, <2>1, <2>2 DEF Reset, ExactDelivered, PendingDelivered, High, outVars, callbackVars
<1>4. ASSUME NEW b \in Callbacks, CallbackArrives(b) PROVE ExactDelivered(o)'
  <2>1. ExactDelivered(o) /\ UNCHANGED <<mstatus, delivered>>
    BY <1>e, <1>4 DEF CallbackArrives, CallbackStep, outVars, counters, replyVars
  <2>2. \A d \in Callbacks : (about'[d] = o /\ PendingDelivered(d)') <=> (about[d] = o /\ PendingDelivered(d))
    BY <1>t, <1>4, NoOutAssumption DEF CallbackArrives, CallbackStep, outVars, counters, replyVars, PendingDelivered, FunnelTypeOK
  <2> QED
    BY <2>1, <2>2 DEF ExactDelivered
<1>5. ASSUME NEW b \in Callbacks, CallbackUnknown(b) PROVE ExactDelivered(o)'
  <2>1. ExactDelivered(o) /\ UNCHANGED <<mstatus, delivered>>
    BY <1>e, <1>5 DEF CallbackUnknown, CallbackEnds, outVars, counters, replyVars
  <2>2. \A d \in Callbacks : (about'[d] = o /\ PendingDelivered(d)') <=> (about[d] = o /\ PendingDelivered(d))
    BY <1>t, <1>5, NoOutAssumption DEF CallbackUnknown, CallbackEnds, outVars, counters, replyVars, PendingDelivered, FunnelTypeOK
  <2> QED
    BY <2>1, <2>2 DEF ExactDelivered
<1>6. ASSUME NEW b \in Callbacks, CallbackFind(b) PROVE ExactDelivered(o)'
  <2>1. ExactDelivered(o) /\ UNCHANGED <<mstatus, delivered>>
    BY <1>e, <1>6 DEF CallbackFind, CallbackStep, Race, outVars, counters, replyVars
  <2>2. \A d \in Callbacks : (about'[d] = o /\ PendingDelivered(d)') <=> (about[d] = o /\ PendingDelivered(d))
    BY <1>t, <1>6, NoOutAssumption DEF CallbackFind, CallbackStep, Race, outVars, counters, replyVars, PendingDelivered, FunnelTypeOK
  <2> QED
    BY <2>1, <2>2 DEF ExactDelivered
<1>7. ASSUME NEW b \in Callbacks, CallbackOld(b) PROVE ExactDelivered(o)'
  <2>1. ExactDelivered(o) /\ UNCHANGED <<mstatus, delivered>>
    BY <1>e, <1>7 DEF CallbackOld, CallbackEnds, Race, outVars, counters, replyVars
  <2>2. \A d \in Callbacks : (about'[d] = o /\ PendingDelivered(d)') <=> (about[d] = o /\ PendingDelivered(d))
    BY <1>t, <1>7, NoOutAssumption DEF CallbackOld, CallbackEnds, Race, outVars, counters, replyVars, PendingDelivered, FunnelTypeOK
  <2> QED
    BY <2>1, <2>2 DEF ExactDelivered
<1>8. ASSUME NEW b \in Callbacks, CallbackRead(b) PROVE ExactDelivered(o)'
  <2>1. ExactDelivered(o) /\ UNCHANGED <<mstatus, delivered>>
    BY <1>e, <1>8 DEF CallbackRead, outVars, replyVars
  <2>2. \A d \in Callbacks : (about'[d] = o /\ PendingDelivered(d)') <=> (about[d] = o /\ PendingDelivered(d))
    BY <1>t, <1>8, NoOutAssumption DEF CallbackRead, CallbackEnds, PendingDelivered, FunnelTypeOK
  <2> QED
    BY <2>1, <2>2 DEF ExactDelivered
<1>9. ASSUME NEW b \in Callbacks, CallbackUpdate(b) PROVE ExactDelivered(o)'
  <2>1. ExactDelivered(o) /\ UNCHANGED <<delivered, about, level, saw>>
    BY <1>e, <1>9 DEF CallbackUpdate, counters, replyVars
  <2>2. \A d \in Callbacks : d # b => (PendingDelivered(d)' <=> PendingDelivered(d))
    BY <1>t, <1>9 DEF CallbackUpdate, CallbackStep, PendingDelivered, FunnelTypeOK
  <2>3. ~PendingDelivered(b) /\ cpc'[b] = "bumpDelivered"
    BY <1>t, <1>9 DEF CallbackUpdate, CallbackStep, PendingDelivered, FunnelTypeOK
  <2>4. CASE about[b] = o
    <3>1. saw[b] = mstatus[o] /\ mstatus'[o] = level[b]
      BY <1>t, <1>9, <2>4 DEF CallbackUpdate, CallbackStep, OneWriter, FunnelTypeOK, replyVars
    <3>2. level[b] \in High /\ saw[b] # "READ" /\ (saw[b] = "DELIVERED" => level[b] = "READ")
      BY <1>t, <1>9 DEF CallbackUpdate, CallbackStep, CallbacksAim, Working
    <3> QED
      BY <2>1, <2>2, <2>3, <2>4, <3>1, <3>2 DEF ExactDelivered, PendingDelivered, High
  <2>5. CASE about[b] # o
    <3>1. mstatus'[o] = mstatus[o]
      BY <1>t, <1>9, <2>5 DEF CallbackUpdate, FunnelTypeOK
    <3> QED
      BY <2>1, <2>2, <2>5, <3>1 DEF ExactDelivered
  <2> QED
    BY <2>4, <2>5
<1>10. ASSUME NEW b \in Callbacks, CallbackDelivered(b) PROVE ExactDelivered(o)'
  <2>1. ExactDelivered(o) /\ UNCHANGED <<mstatus, about>>
    BY <1>e, <1>10 DEF CallbackDelivered, outVars, replyVars
  <2>2. \A d \in Callbacks : PendingDelivered(d)' <=> (d # b /\ PendingDelivered(d))
    BY <1>t, <1>10 DEF CallbackDelivered, CallbackStep, PendingDelivered, FunnelTypeOK
  <2>3. CASE about[b] = o /\ PendingDelivered(b)
    <3>1. Crosses(b, "DELIVERED")
      BY <1>t, <2>3, RankCompares DEF PendingDelivered, CallbacksAim, Working
    <3>2. delivered'[o] = delivered[o] + 1
      BY <1>t, <1>10, <2>3, <3>1 DEF CallbackDelivered, FunnelTypeOK
    <3> QED
      BY <2>1, <2>2, <2>3, <3>2 DEF ExactDelivered
  <2>4. CASE ~(about[b] = o /\ PendingDelivered(b))
    <3>1. delivered'[o] = delivered[o]
      BY <1>t, <1>10, <2>4, RankCompares DEF CallbackDelivered, CallbackStep, PendingDelivered, FunnelTypeOK
    <3> QED
      BY <2>1, <2>2, <2>4, <3>1 DEF ExactDelivered
  <2> QED
    BY <2>3, <2>4
<1>11. ASSUME NEW i \in Ins,
             ReplyArrives(i) \/ FindLast(i) \/ NoCampaign(i) \/ FindPrior(i) \/ AlreadyReplied(i)
             \/ BumpReplied(i)
      PROVE  ExactDelivered(o)'
  <2>1. UNCHANGED <<mstatus, delivered, cpc, about, level, saw, raced, stale, faults>>
    BY <1>11, AnswersApart
       DEF ReplyArrives, FindLast, NoCampaign, FindPrior, AlreadyReplied, BumpReplied
  <2> QED
    BY <1>e, <2>1 DEF ExactDelivered, PendingDelivered
<1>12. CASE UNCHANGED funnelVars
  <2>1. UNCHANGED <<mstatus, delivered, cpc, about, level, saw, raced, stale, faults>>
    BY <1>12 DEF funnelVars, outVars, counters, callbackVars
  <2> QED
    BY <1>e, <2>1 DEF ExactDelivered, PendingDelivered
<1>13. CASE \/ \E p \in Outs : SendFails(p)
            \/ \E b \in Callbacks : CallbackFails(b) \/ CounterFails(b)
            \/ \E i \in Ins : ReplyFails(i)
  BY <1>t, <1>13, FaultsShow
<1> QED
  <2>1. ASSUME NEW p \in Outs, SendCreate(p) \/ SendCall(p) \/ SendRecord(p) \/ SendFails(p)
        PROVE  ExactDelivered(o)'
    BY <2>1, <1>1, <1>2, <1>13
  <2>2. ASSUME NEW b \in Callbacks,
               \/ CallbackArrives(b) \/ CallbackUnknown(b) \/ CallbackFind(b) \/ CallbackOld(b)
               \/ CallbackUpdate(b) \/ CallbackDelivered(b) \/ CallbackRead(b)
               \/ CallbackFails(b) \/ CounterFails(b)
        PROVE  ExactDelivered(o)'
    BY <2>2, <1>4, <1>5, <1>6, <1>7, <1>8, <1>9, <1>10, <1>13
  <2>3. ASSUME NEW i \in Ins,
               \/ ReplyArrives(i) \/ FindLast(i) \/ NoCampaign(i) \/ FindPrior(i) \/ AlreadyReplied(i)
               \/ BumpReplied(i) \/ ReplyFails(i)
        PROVE  ExactDelivered(o)'
    BY <2>3, <1>11, <1>13
  <2> QED
    BY <1>3, <1>12, <2>1, <2>2, <2>3 DEF FunnelNext

(* Read messages are counted, each once.                                   *)
LEMMA ReadKept ==
    IInv /\ [FunnelNext]_funnelVars /\ faults' = 0 => \A o \in Outs \ (raced' \cup stale') : ExactRead(o)'
<1> SUFFICES ASSUME IInv, [FunnelNext]_funnelVars, faults' = 0, NEW o \in Outs \ (raced' \cup stale')
             PROVE  ExactRead(o)'
  OBVIOUS
<1>t. FunnelTypeOK /\ CallbacksAim /\ UnlinkedCountNothing /\ OneWriter /\ ThresholdsCounted
  BY DEF IInv, Base
<1>e. ASSUME faults = 0, o \notin raced \cup stale PROVE ExactRead(o)
  BY <1>t, <1>e DEF ThresholdsCounted
<1>1. ASSUME NEW p \in Outs, SendCreate(p) \/ SendCall(p) PROVE ExactRead(o)'
  <2>1. UNCHANGED <<mstatus, read, cpc, about, level, saw, raced, stale, faults>>
    BY <1>1 DEF SendCreate, SendCall, outVars, counters, callbackVars, replyVars
  <2> QED
    BY <1>e, <2>1 DEF ExactRead, PendingRead
<1>2. ASSUME NEW p \in Outs, SendRecord(p) PROVE ExactRead(o)'
  <2>1. ExactRead(o) /\ UNCHANGED <<read, cpc, about, level, saw>>
    BY <1>e, <1>2 DEF SendRecord, counters, callbackVars, replyVars
  <2>2. CASE o = p
    <3>1. mstatus[o] \notin High /\ mstatus'[o] = "SENT"
      BY <1>t, <2>2, <1>2 DEF SendRecord, UnlinkedCountNothing, FunnelTypeOK
    <3> QED
      BY <2>1, <3>1 DEF ExactRead, PendingRead, High
  <2>3. CASE o # p
    <3>1. mstatus'[o] = mstatus[o]
      BY <1>t, <2>3, <1>2 DEF SendRecord, FunnelTypeOK
    <3> QED
      BY <2>1, <3>1 DEF ExactRead, PendingRead
  <2> QED
    BY <2>2, <2>3
<1>3. CASE Reset
  <2>1. \A b \in Callbacks : about[b] # o
    BY <1>t, <1>3 DEF Reset, CallbacksAim
  <2>2. mstatus[o] \notin High
    BY <1>t, <1>3 DEF Reset, UnlinkedCountNothing
  <2> QED
    BY <1>3, <2>1, <2>2 DEF Reset, ExactRead, PendingRead, High, outVars, callbackVars
<1>4. ASSUME NEW b \in Callbacks, CallbackArrives(b) PROVE ExactRead(o)'
  <2>1. ExactRead(o) /\ UNCHANGED <<mstatus, read>>
    BY <1>e, <1>4 DEF CallbackArrives, CallbackStep, outVars, counters, replyVars
  <2>2. \A d \in Callbacks : (about'[d] = o /\ PendingRead(d)') <=> (about[d] = o /\ PendingRead(d))
    BY <1>t, <1>4, NoOutAssumption DEF CallbackArrives, CallbackStep, outVars, counters, replyVars, PendingRead, FunnelTypeOK
  <2> QED
    BY <2>1, <2>2 DEF ExactRead
<1>5. ASSUME NEW b \in Callbacks, CallbackUnknown(b) PROVE ExactRead(o)'
  <2>1. ExactRead(o) /\ UNCHANGED <<mstatus, read>>
    BY <1>e, <1>5 DEF CallbackUnknown, CallbackEnds, outVars, counters, replyVars
  <2>2. \A d \in Callbacks : (about'[d] = o /\ PendingRead(d)') <=> (about[d] = o /\ PendingRead(d))
    BY <1>t, <1>5, NoOutAssumption DEF CallbackUnknown, CallbackEnds, outVars, counters, replyVars, PendingRead, FunnelTypeOK
  <2> QED
    BY <2>1, <2>2 DEF ExactRead
<1>6. ASSUME NEW b \in Callbacks, CallbackFind(b) PROVE ExactRead(o)'
  <2>1. ExactRead(o) /\ UNCHANGED <<mstatus, read>>
    BY <1>e, <1>6 DEF CallbackFind, CallbackStep, Race, outVars, counters, replyVars
  <2>2. \A d \in Callbacks : (about'[d] = o /\ PendingRead(d)') <=> (about[d] = o /\ PendingRead(d))
    BY <1>t, <1>6, NoOutAssumption DEF CallbackFind, CallbackStep, Race, outVars, counters, replyVars, PendingRead, FunnelTypeOK
  <2> QED
    BY <2>1, <2>2 DEF ExactRead
<1>7. ASSUME NEW b \in Callbacks, CallbackOld(b) PROVE ExactRead(o)'
  <2>1. ExactRead(o) /\ UNCHANGED <<mstatus, read>>
    BY <1>e, <1>7 DEF CallbackOld, CallbackEnds, Race, outVars, counters, replyVars
  <2>2. \A d \in Callbacks : (about'[d] = o /\ PendingRead(d)') <=> (about[d] = o /\ PendingRead(d))
    BY <1>t, <1>7, NoOutAssumption DEF CallbackOld, CallbackEnds, Race, outVars, counters, replyVars, PendingRead, FunnelTypeOK
  <2> QED
    BY <2>1, <2>2 DEF ExactRead
<1>8. ASSUME NEW b \in Callbacks, CallbackRead(b) PROVE ExactRead(o)'
  <2>1. ExactRead(o) /\ UNCHANGED mstatus
    BY <1>e, <1>8 DEF CallbackRead, outVars, replyVars
  <2>2. \A d \in Callbacks : (about'[d] = o /\ PendingRead(d)') <=> (d # b /\ about[d] = o /\ PendingRead(d))
    BY <1>t, <1>8, NoOutAssumption DEF CallbackRead, CallbackEnds, PendingRead, FunnelTypeOK
  <2>3. CASE about[b] = o /\ PendingRead(b)
    <3>1. Crosses(b, "READ")
      BY <1>t, <2>3, RankCompares DEF PendingRead, CallbacksAim, Working
    <3>2. read'[o] = read[o] + 1
      BY <1>t, <1>8, <2>3, <3>1 DEF CallbackRead, FunnelTypeOK
    <3> QED
      BY <2>1, <2>2, <2>3, <3>2 DEF ExactRead
  <2>4. CASE ~(about[b] = o /\ PendingRead(b))
    <3>1. read'[o] = read[o]
      BY <1>t, <1>8, <2>4, RankCompares DEF CallbackRead, PendingRead, FunnelTypeOK
    <3> QED
      BY <2>1, <2>2, <2>4, <3>1 DEF ExactRead
  <2> QED
    BY <2>3, <2>4
<1>9. ASSUME NEW b \in Callbacks, CallbackUpdate(b) PROVE ExactRead(o)'
  <2>1. ExactRead(o) /\ UNCHANGED <<read, about, level, saw>>
    BY <1>e, <1>9 DEF CallbackUpdate, counters, replyVars
  <2>2. \A d \in Callbacks : d # b => (PendingRead(d)' <=> PendingRead(d))
    BY <1>t, <1>9 DEF CallbackUpdate, CallbackStep, PendingRead, FunnelTypeOK
  <2>3. ~PendingRead(b) /\ cpc'[b] = "bumpDelivered"
    BY <1>t, <1>9 DEF CallbackUpdate, CallbackStep, PendingRead, FunnelTypeOK
  <2>4. CASE about[b] = o
    <3>1. saw[b] = mstatus[o] /\ mstatus'[o] = level[b]
      BY <1>t, <1>9, <2>4 DEF CallbackUpdate, CallbackStep, OneWriter, FunnelTypeOK, replyVars
    <3>2. level[b] \in High /\ saw[b] # "READ" /\ (saw[b] = "DELIVERED" => level[b] = "READ")
      BY <1>t, <1>9 DEF CallbackUpdate, CallbackStep, CallbacksAim, Working
    <3> QED
      BY <2>1, <2>2, <2>3, <2>4, <3>1, <3>2 DEF ExactRead, PendingRead, High
  <2>5. CASE about[b] # o
    <3>1. mstatus'[o] = mstatus[o]
      BY <1>t, <1>9, <2>5 DEF CallbackUpdate, FunnelTypeOK
    <3> QED
      BY <2>1, <2>2, <2>5, <3>1 DEF ExactRead
  <2> QED
    BY <2>4, <2>5
<1>10. ASSUME NEW b \in Callbacks, CallbackDelivered(b) PROVE ExactRead(o)'
  <2>1. ExactRead(o) /\ UNCHANGED <<mstatus, read, about>>
    BY <1>e, <1>10 DEF CallbackDelivered, outVars, replyVars
  <2>2. \A d \in Callbacks : PendingRead(d)' <=> PendingRead(d)
    BY <1>t, <1>10 DEF CallbackDelivered, CallbackStep, PendingRead, FunnelTypeOK
  <2> QED
    BY <2>1, <2>2 DEF ExactRead
<1>11. ASSUME NEW i \in Ins,
             ReplyArrives(i) \/ FindLast(i) \/ NoCampaign(i) \/ FindPrior(i) \/ AlreadyReplied(i)
             \/ BumpReplied(i)
      PROVE  ExactRead(o)'
  <2>1. UNCHANGED <<mstatus, read, cpc, about, level, saw, raced, stale, faults>>
    BY <1>11, AnswersApart
       DEF ReplyArrives, FindLast, NoCampaign, FindPrior, AlreadyReplied, BumpReplied
  <2> QED
    BY <1>e, <2>1 DEF ExactRead, PendingRead
<1>12. CASE UNCHANGED funnelVars
  <2>1. UNCHANGED <<mstatus, read, cpc, about, level, saw, raced, stale, faults>>
    BY <1>12 DEF funnelVars, outVars, counters, callbackVars
  <2> QED
    BY <1>e, <2>1 DEF ExactRead, PendingRead
<1>13. CASE \/ \E p \in Outs : SendFails(p)
            \/ \E b \in Callbacks : CallbackFails(b) \/ CounterFails(b)
            \/ \E i \in Ins : ReplyFails(i)
  BY <1>t, <1>13, FaultsShow
<1> QED
  <2>1. ASSUME NEW p \in Outs, SendCreate(p) \/ SendCall(p) \/ SendRecord(p) \/ SendFails(p)
        PROVE  ExactRead(o)'
    BY <2>1, <1>1, <1>2, <1>13
  <2>2. ASSUME NEW b \in Callbacks,
               \/ CallbackArrives(b) \/ CallbackUnknown(b) \/ CallbackFind(b) \/ CallbackOld(b)
               \/ CallbackUpdate(b) \/ CallbackDelivered(b) \/ CallbackRead(b)
               \/ CallbackFails(b) \/ CounterFails(b)
        PROVE  ExactRead(o)'
    BY <2>2, <1>4, <1>5, <1>6, <1>7, <1>8, <1>9, <1>10, <1>13
  <2>3. ASSUME NEW i \in Ins,
               \/ ReplyArrives(i) \/ FindLast(i) \/ NoCampaign(i) \/ FindPrior(i) \/ AlreadyReplied(i)
               \/ BumpReplied(i) \/ ReplyFails(i)
        PROVE  ExactRead(o)'
    BY <2>3, <1>11, <1>13
  <2> QED
    BY <1>3, <1>12, <2>1, <2>2, <2>3 DEF FunnelNext

----------------------------------------------------------------------------
(* Every step keeps the invariant.                                         *)
LEMMA StepInvariant == IInv /\ [FunnelNext]_funnelVars => IInv'
<1> SUFFICES ASSUME IInv, [FunnelNext]_funnelVars PROVE IInv'
  OBVIOUS
<1>1. Base'
  BY BaseKept DEF IInv
<1>2. ReachedIsCounted' /\ OneWriter'
  BY ReachedKept, WriterKept
<1>3. ThresholdsCounted'
  BY DeliveredKept, ReadKept DEF ThresholdsCounted
<1> QED
  BY <1>1, <1>2, <1>3 DEF IInv

(* The inductive invariant.                                                *)
THEOREM Invariance == FunnelSpec => []IInv
<1>1. FunnelInit => IInv
  BY InitInvariant
<1>2. IInv /\ [FunnelNext]_funnelVars => IInv'
  BY StepInvariant
<1> QED
  BY <1>1, <1>2, PTL DEF FunnelSpec

(* The variables of CampaignFunnel keep their shapes.                      *)
THEOREM TypeCorrectness == FunnelSpec => []FunnelTypeOK
<1>1. IInv => FunnelTypeOK
  BY DEF IInv, Base
<1> QED
  BY <1>1, Invariance, PTL

(* A message counted as read has been counted as delivered once all its    *)
(* callbacks are through, however they overlapped.                         *)
THEOREM ReadMessagesAreDelivered == FunnelSpec => []ReadIsDelivered
<1>1. IInv => ReadIsDelivered
  BY DEF IInv, ReadIsDelivered, ReachedIsCounted, Reached, CountedOrPending, Quiet
<1> QED
  BY <1>1, Invariance, PTL

(* The counters say of a message exactly what its row says when its        *)
(* callbacks did not overlap.                                              *)
THEOREM FunnelIsExact == FunnelSpec => []FunnelIsExactAlone
<1>1. IInv => FunnelIsExactAlone
  BY DEF IInv, ThresholdsCounted, ExactDelivered, ExactRead, FunnelIsExactAlone, Quiet, Count, High
<1> QED
  BY <1>1, Invariance, PTL

----------------------------------------------------------------------------
(* The answers.  A row is created once, so each has one position in the    *)
(* log, and only the newest campaign message can be found by an answer.    *)

(* The log holds each row once, those of the send jobs that have begun and *)
(* of the answers that have arrived.                                       *)
Rows ==
    /\ \A m, n \in DOMAIN log : log[m] = log[n] => m = n
    /\ \A o \in Outs : Stored(o) <=> spc[o] # "none"
    /\ \A i \in Ins : Stored(i) <=> ipc[i] # "idle"

(* What an answer was found to be a reply to is a campaign message, and    *)
(* until its turn to decide is over still the newest, unless another row   *)
(* came between.                                                           *)
RepliesAim ==
    \A i \in Ins :
        ipc[i] \in {"prior", "bump"} =>
            /\ last[i] \in Outs /\ Stored(last[i])
            /\ ipc[i] = "prior" /\ last[i] \notin tangled => last[i] \in Newest

(* Only what was sent is answered, and only what was sent before a reset   *)
(* is stale.                                                               *)
UnsentUnanswered ==
    \A o \in Outs : /\ ~Stored(o) => repliedBy[o] = 0
                    /\ o \in stale => Stored(o)

(* Somebody has answered a message before the next one went out ...        *)
Answered(o) == \E i \in RepliesTo(o) : \A p \in Outs : ~(After(p, o) /\ After(i, p))

(* ... and an answer will be, or may still be, counted for it.             *)
Crediting(i, o) ==
    \/ ipc[i] = "bump" /\ last[i] = o
    \/ ipc[i] = "prior" /\ last[i] = o /\ RepliesTo(o) \ {i} = {}
    \/ ipc[i] = "last" /\ o \in Newest /\ RepliesTo(o) \ {i} = {}

(* The first answer is counted, or exactly one is about to be.             *)
ExactReplied(o) ==
    \/ ~Answered(o) /\ repliedBy[o] = 0 /\ \A i \in Ins : ~Crediting(i, o)
    \/ Answered(o) /\ repliedBy[o] = 1 /\ \A i \in Ins : ~Crediting(i, o)
    \/ /\ Answered(o) /\ repliedBy[o] = 0
       /\ \E i \in Ins : Crediting(i, o) /\ \A j \in Ins : Crediting(j, o) => j = i
RepliesCounted ==
    faults = 0 => \A o \in Outs \ (tangled \cup stale) : Stored(o) => ExactReplied(o)

RepliesBase == FunnelTypeOK /\ Rows /\ RepliesAim /\ UnsentUnanswered
RepliesInv == RepliesBase /\ RepliesCounted

----------------------------------------------------------------------------
(* A stored row stands at its position, and rows are in a total order.     *)
LEMMA PositionOf ==
    ASSUME NEW m, Stored(m)
    PROVE  Position(m) \in DOMAIN log /\ log[Position(m)] = m
  BY DEF Stored, Position

LEMMA PositionIs ==
    ASSUME Rows, NEW n \in DOMAIN log
    PROVE  Position(log[n]) = n
<1>1. Stored(log[n])
  BY DEF Stored
<1> QED
  BY <1>1, PositionOf DEF Rows

LEMMA AfterIsAnOrder ==
    ASSUME FunnelTypeOK, NEW m, NEW n
    PROVE  /\ ~After(m, m)
           /\ After(m, n) => Stored(m) /\ Stored(n) /\ ~After(n, m)
           /\ Stored(m) /\ Stored(n) /\ m # n => After(m, n) \/ After(n, m)
<1>1. log \in Seq(Outs \cup Ins)
  BY DEF FunnelTypeOK
<1>2. \A k : Stored(k) => Position(k) \in Nat /\ log[Position(k)] = k
  BY <1>1, PositionOf
<1>3. ~After(m, m)
  BY <1>2 DEF After
<1>4. After(m, n) => Stored(m) /\ Stored(n) /\ ~After(n, m)
  BY <1>2 DEF After
<1>5. Stored(m) /\ Stored(n) /\ m # n => After(m, n) \/ After(n, m)
  <2>1. SUFFICES ASSUME Stored(m), Stored(n), Position(m) = Position(n) PROVE m = n
    BY <1>2 DEF After
  <2> QED
    BY <2>1, <1>2
<1> QED
  BY <1>3, <1>4, <1>5

(* There is one newest campaign message at most.                           *)
LEMMA OneNewest ==
    ASSUME FunnelTypeOK, NEW o \in Newest, NEW p \in Newest PROVE o = p
  BY AfterIsAnOrder DEF Newest

(* A step that leaves the log leaves the order.                            *)
LEMMA SameLog ==
    ASSUME log' = log
    PROVE  /\ \A m : Stored(m)' <=> Stored(m)
           /\ \A m, n : After(m, n)' <=> After(m, n)
           /\ Newest' = Newest
           /\ \A o : RepliesTo(o)' = RepliesTo(o)
           /\ \A o : Answered(o)' <=> Answered(o)
<1>1. \A m : Stored(m)' <=> Stored(m)
  BY DEF Stored
<1>2. \A m : Position(m)' = Position(m)
  BY DEF Position
<1>3. \A m, n : After(m, n)' <=> After(m, n)
  BY <1>1, <1>2 DEF After
<1>4. Newest' = Newest
  BY <1>1, <1>3 DEF Newest
<1>5. \A o : RepliesTo(o)' = RepliesTo(o)
  BY <1>3 DEF RepliesTo
<1>6. \A o : Answered(o)' <=> Answered(o)
  BY <1>3, <1>5 DEF Answered
<1> QED
  BY <1>1, <1>3, <1>4, <1>5, <1>6

(* A new row comes after all others, and moves none of them.               *)
LEMMA NewRow ==
    ASSUME FunnelTypeOK, Rows, NEW x \in Outs \cup Ins, ~Stored(x), log' = Append(log, x)
    PROVE  /\ \A m, n \in DOMAIN log' : log'[m] = log'[n] => m = n
           /\ \A m : Stored(m)' <=> Stored(m) \/ m = x
           /\ \A m, n : After(m, n)' <=> After(m, n) \/ (m = x /\ Stored(n))
<1>1. log \in Seq(Outs \cup Ins) /\ Len(log) \in Nat /\ DOMAIN log = 1..Len(log)
  BY DEF FunnelTypeOK
<1>2. /\ DOMAIN log' = 1..(Len(log) + 1) /\ log'[Len(log) + 1] = x
      /\ \A n \in DOMAIN log : log'[n] = log[n]
  BY <1>1
<1>3. \A n \in DOMAIN log : log[n] # x
  BY DEF Stored
<1>4. \A m, n \in DOMAIN log' : log'[m] = log'[n] => m = n
  <2> SUFFICES ASSUME NEW m \in DOMAIN log', NEW n \in DOMAIN log', log'[m] = log'[n] PROVE m = n
    OBVIOUS
  <2>1. CASE m \in DOMAIN log /\ n \in DOMAIN log
    BY <2>1, <1>2 DEF Rows
  <2>2. CASE m \notin DOMAIN log \/ n \notin DOMAIN log
    BY <2>2, <1>1, <1>2, <1>3
  <2> QED
    BY <2>1, <2>2
<1>5. \A m : Stored(m)' <=> Stored(m) \/ m = x
  <2> TAKE m
  <2>1. Stored(m)' <=> \E n \in 1..(Len(log) + 1) : log'[n] = m
    BY <1>2 DEF Stored
  <2>2. Stored(m) <=> \E n \in 1..Len(log) : log'[n] = m
    BY <1>1, <1>2 DEF Stored
  <2>3. \A n \in 1..(Len(log) + 1) : n \in 1..Len(log) \/ n = Len(log) + 1
    BY <1>1
  <2>4. Len(log) + 1 \in 1..(Len(log) + 1) /\ 1..Len(log) \subseteq 1..(Len(log) + 1)
    BY <1>1
  <2> QED
    BY <2>1, <2>2, <2>3, <2>4, <1>2
<1>6. \A m : Stored(m)' => Position(m)' \in DOMAIN log' /\ log'[Position(m)'] = m
  BY DEF Stored, Position
<1>7. \A m : Stored(m) => Position(m)' = Position(m) /\ Position(m) \in 1..Len(log)
  <2> SUFFICES ASSUME NEW m, Stored(m) PROVE Position(m)' = Position(m) /\ Position(m) \in 1..Len(log)
    OBVIOUS
  <2>1. Position(m) \in DOMAIN log /\ log[Position(m)] = m
    BY PositionOf
  <2>2. Position(m) \in DOMAIN log' /\ log'[Position(m)] = m
    BY <2>1, <1>1, <1>2
  <2>3. Position(m)' \in DOMAIN log' /\ log'[Position(m)'] = m
    BY <1>5, <1>6
  <2> QED
    BY <2>1, <2>2, <2>3, <1>1, <1>4
<1>8. Position(x)' = Len(log) + 1
  <2>1. Position(x)' \in DOMAIN log' /\ log'[Position(x)'] = x
    BY <1>5, <1>6
  <2> QED
    BY <2>1, <1>1, <1>2, <1>3
<1>9. ASSUME NEW m, NEW n PROVE After(m, n)' <=> After(m, n) \/ (m = x /\ Stored(n))
  <2>1. CASE Stored(m) /\ Stored(n)
    BY <2>1, <1>5, <1>7 DEF After
  <2>2. CASE m = x /\ Stored(n)
    BY <2>2, <1>1, <1>5, <1>7, <1>8 DEF After
  <2>3. CASE ~Stored(m) /\ m # x
    BY <2>3, <1>5 DEF After
  <2>4. CASE ~Stored(n)
    <3>1. CASE n # x
      BY <2>4, <3>1, <1>5 DEF After
    <3>2. CASE n = x
      <4>1. Stored(m)' => ~(Position(m)' > Position(n)')
        BY <3>2, <1>1, <1>5, <1>7, <1>8
      <4> QED
        BY <2>4, <4>1 DEF After
    <3> QED
      BY <3>1, <3>2
  <2> QED
    BY <2>1, <2>2, <2>3, <2>4
<1> QED
  BY <1>4, <1>5, <1>9

(* A new campaign message is the newest, and answers nothing.              *)
LEMMA NewOut ==
    ASSUME FunnelTypeOK, Rows, NEW x \in Outs, ~Stored(x), log' = Append(log, x)
    PROVE  /\ Newest' = {x}
           /\ \A o : RepliesTo(o)' = RepliesTo(o)
           /\ \A o \in Outs : Stored(o) => (Answered(o)' <=> Answered(o))
           /\ ~Answered(x)'
<1>1. /\ \A m : Stored(m)' <=> Stored(m) \/ m = x
      /\ \A m, n : After(m, n)' <=> After(m, n) \/ (m = x /\ Stored(n))
  BY NewRow
<1>2. \A m, n : After(m, n) => Stored(m) /\ Stored(n)
  BY DEF After
<1>3. \A i \in Ins : i # x
  BY RowsAssumption
<1>4. \A o : RepliesTo(o)' = RepliesTo(o)
  BY <1>1, <1>3 DEF RepliesTo
<1>5. Newest' = {x}
  BY <1>1, <1>2 DEF Newest
<1>6. \A o \in Outs : Stored(o) => (Answered(o)' <=> Answered(o))
  <2> SUFFICES ASSUME NEW o \in Outs, Stored(o)
               PROVE  (\E i \in RepliesTo(o) : \A p \in Outs : ~(After(p, o)' /\ After(i, p)'))
                      <=> (\E i \in RepliesTo(o) : \A p \in Outs : ~(After(p, o) /\ After(i, p)))
    BY <1>4 DEF Answered
  <2>1. \A i \in RepliesTo(o), p \in Outs :
           (After(p, o)' /\ After(i, p)') <=> (After(p, o) /\ After(i, p))
    BY <1>1, <1>2, <1>3 DEF RepliesTo
  <2> QED
    BY <2>1
<1>7. ~Answered(x)'
  <2>1. RepliesTo(x)' = {}
    BY <1>2, <1>4 DEF RepliesTo
  <2> QED
    BY <2>1 DEF Answered
<1> QED
  BY <1>4, <1>5, <1>6, <1>7

(* A new answer is one to every message before it, and the first that may  *)
(* count for the newest alone.                                             *)
LEMMA NewIn ==
    ASSUME FunnelTypeOK, Rows, NEW x \in Ins, ~Stored(x), log' = Append(log, x)
    PROVE  /\ Newest' = Newest
           /\ \A o \in Outs : Stored(o) => RepliesTo(o)' = RepliesTo(o) \cup {x} /\ x \notin RepliesTo(o)
           /\ \A o \in Outs : Stored(o) => (Answered(o)' <=> Answered(o) \/ o \in Newest)
<1>1. /\ \A m : Stored(m)' <=> Stored(m) \/ m = x
      /\ \A m, n : After(m, n)' <=> After(m, n) \/ (m = x /\ Stored(n))
  BY NewRow
<1>2. \A m, n : After(m, n) => Stored(m) /\ Stored(n)
  BY DEF After
<1>3. \A o \in Outs : o # x
  BY RowsAssumption
<1>4. Newest' = Newest
  BY <1>1, <1>3 DEF Newest
<1>5. \A o \in Outs : Stored(o) => RepliesTo(o)' = RepliesTo(o) \cup {x} /\ x \notin RepliesTo(o)
  BY <1>1, <1>2 DEF RepliesTo
<1>6. ASSUME NEW o \in Outs, Stored(o) PROVE Answered(o)' <=> Answered(o) \/ o \in Newest
  <2>1. Answered(o)' <=> \E i \in RepliesTo(o)' : \A p \in Outs : ~(After(p, o)' /\ After(i, p)')
    BY DEF Answered
  <2>2. \A p \in Outs : After(p, o)' <=> After(p, o)
    BY <1>1, <1>3
  <2>3. \A p \in Outs : After(x, p)' <=> Stored(p)
    BY <1>1, <1>2
  <2>4. \A i \in RepliesTo(o), p \in Outs : After(i, p)' <=> After(i, p)
    BY <1>1, <1>2 DEF RepliesTo
  <2>5. (\A p \in Outs : ~(After(p, o)' /\ After(x, p)')) <=> o \in Newest
    BY <1>6, <1>2, <2>2, <2>3 DEF Newest
  <2>6. (\E i \in RepliesTo(o) : \A p \in Outs : ~(After(p, o)' /\ After(i, p)')) <=> Answered(o)
    BY <2>2, <2>4 DEF Answered
  <2> QED
    BY <1>5, <1>6, <2>1, <2>5, <2>6
<1> QED
  BY <1>4, <1>5, <1>6

----------------------------------------------------------------------------
(* The types keep, and what the proof says of every other step.            *)
LEMMA ElsewhereKept ==
    ASSUME RepliesBase, FunnelTypeOK', UNCHANGED <<log, repliedBy, ipc, last, tangled, stale>>,
           \A o \in Outs : spc'[o] # "none" <=> spc[o] # "none"
    PROVE  RepliesBase' /\ \A o \in Outs : ExactReplied(o)' <=> ExactReplied(o)
<1>1. /\ \A m : Stored(m)' <=> Stored(m)
      /\ Newest' = Newest
      /\ \A o : RepliesTo(o)' = RepliesTo(o)
      /\ \A o : Answered(o)' <=> Answered(o)
  BY SameLog
<1>2. Rows' /\ RepliesAim' /\ UnsentUnanswered'
  BY <1>1 DEF RepliesBase, Rows, RepliesAim, UnsentUnanswered
<1>3. \A i \in Ins, o \in Outs : Crediting(i, o)' <=> Crediting(i, o)
  BY <1>1 DEF Crediting
<1>4. \A o \in Outs : ExactReplied(o)' <=> ExactReplied(o)
  BY <1>1, <1>3 DEF ExactReplied
<1> QED
  BY <1>2, <1>4 DEF RepliesBase

(* A message goes out.  While an answer is being attributed this disturbs  *)
(* the newest message and itself, and nothing else.                        *)
LEMMA SendCreateKeeps ==
    ASSUME RepliesInv, FunnelTypeOK', NEW x \in Outs, SendCreate(x) PROVE RepliesInv'
<1>t. FunnelTypeOK /\ Rows /\ RepliesAim /\ UnsentUnanswered
  BY DEF RepliesInv, RepliesBase
<1>1. /\ spc' = [spc EXCEPT ![x] = "call"] /\ log' = Append(log, x)
      /\ tangled' = tangled \cup (IF Deciding = {} THEN {} ELSE Newest \cup {x})
      /\ UNCHANGED <<repliedBy, ipc, last, stale, faults>>
  BY DEF SendCreate, counters
<1>2. ~Stored(x)
  BY <1>t DEF SendCreate, Rows
<1>3. /\ \A m, n \in DOMAIN log' : log'[m] = log'[n] => m = n
      /\ \A m : Stored(m)' <=> Stored(m) \/ m = x
  BY <1>t, <1>1, <1>2, NewRow
<1>4. /\ Newest' = {x}
      /\ \A o : RepliesTo(o)' = RepliesTo(o)
      /\ \A o \in Outs : Stored(o) => (Answered(o)' <=> Answered(o))
      /\ ~Answered(x)'
  BY <1>t, <1>1, <1>2, NewOut
<1>5. Rows'
  <2>1. \A o \in Outs : Stored(o)' <=> spc'[o] # "none"
    BY <1>t, <1>1, <1>3 DEF Rows, FunnelTypeOK
  <2>2. \A i \in Ins : Stored(i)' <=> ipc'[i] # "idle"
    BY <1>t, <1>1, <1>3, RowsAssumption DEF Rows
  <2> QED
    BY <1>3, <2>1, <2>2 DEF Rows
<1>6. ASSUME NEW i \in Ins, ipc[i] \in {"last", "prior"}
      PROVE  /\ x \in tangled'
             /\ ipc[i] = "prior" => last[i] \in tangled'
  BY <1>t, <1>1, <1>6 DEF Deciding, RepliesAim
<1>7. RepliesAim' /\ UnsentUnanswered'
  BY <1>t, <1>1, <1>3, <1>6 DEF RepliesAim, UnsentUnanswered
<1>8. ASSUME faults' = 0, NEW o \in Outs \ (tangled' \cup stale'), Stored(o)' PROVE ExactReplied(o)'
  <2>1. CASE o = x
    <3>1. repliedBy'[x] = 0
      BY <1>t, <1>1, <1>2 DEF UnsentUnanswered
    <3>2. ASSUME NEW i \in Ins PROVE ~Crediting(i, x)'
      <4>1. ipc[i] \in {"prior", "bump"} => last[i] # x
        BY <1>t, <1>2 DEF RepliesAim
      <4>2. ipc[i] # "last"
        BY <1>6, <1>8, <2>1
      <4> QED
        BY <4>1, <4>2, <1>1 DEF Crediting
    <3> QED
      BY <2>1, <3>1, <3>2, <1>4 DEF ExactReplied
  <2>2. CASE o # x
    <3>1. Stored(o) /\ ExactReplied(o)
      BY <1>1, <1>3, <1>8, <2>2 DEF RepliesInv, RepliesCounted
    <3>2. ASSUME NEW i \in Ins PROVE Crediting(i, o)' <=> Crediting(i, o)
      <4>1. ipc[i] = "last" => o \notin Newest
        BY <1>1, <1>8 DEF Deciding
      <4> QED
        BY <4>1, <1>1, <1>4, <2>2 DEF Crediting
    <3> QED
      BY <3>1, <3>2, <1>1, <1>4 DEF ExactReplied
  <2> QED
    BY <2>1, <2>2
<1> QED
  BY <1>5, <1>7, <1>8 DEF RepliesInv, RepliesBase, RepliesCounted

(* An answer arrives.  It is the first one to the newest message, or there *)
(* was one before; to any other message it says nothing.                   *)
LEMMA ReplyArrivesKeeps ==
    ASSUME RepliesInv, FunnelTypeOK', NEW x \in Ins, ReplyArrives(x) PROVE RepliesInv'
<1>t. FunnelTypeOK /\ Rows /\ RepliesAim /\ UnsentUnanswered
  BY DEF RepliesInv, RepliesBase
<1>1. /\ ipc[x] = "idle" /\ ipc' = [ipc EXCEPT ![x] = "last"] /\ log' = Append(log, x)
      /\ tangled' = tangled \cup (IF Deciding = {} THEN {} ELSE Newest)
      /\ UNCHANGED <<spc, repliedBy, last, stale, faults>>
  BY DEF ReplyArrives, ReplyStep, counters, outVars
<1>2. ~Stored(x)
  BY <1>t, <1>1 DEF Rows
<1>3. /\ \A m, n \in DOMAIN log' : log'[m] = log'[n] => m = n
      /\ \A m : Stored(m)' <=> Stored(m) \/ m = x
  BY <1>t, <1>1, <1>2, NewRow
<1>4. /\ Newest' = Newest
      /\ \A o \in Outs : Stored(o) => RepliesTo(o)' = RepliesTo(o) \cup {x} /\ x \notin RepliesTo(o)
      /\ \A o \in Outs : Stored(o) => (Answered(o)' <=> Answered(o) \/ o \in Newest)
  BY <1>t, <1>1, <1>2, NewIn
<1>5. /\ ipc'[x] = "last"
      /\ \A i \in Ins : i # x => ipc'[i] = ipc[i]
  BY <1>t, <1>1 DEF FunnelTypeOK
<1>6. Rows'
  <2>1. \A o \in Outs : Stored(o)' <=> spc'[o] # "none"
    BY <1>t, <1>1, <1>3, RowsAssumption DEF Rows
  <2>2. \A i \in Ins : Stored(i)' <=> ipc'[i] # "idle"
    BY <1>t, <1>1, <1>3, <1>5 DEF Rows
  <2> QED
    BY <1>3, <2>1, <2>2 DEF Rows
<1>7. RepliesAim' /\ UnsentUnanswered'
  BY <1>t, <1>1, <1>3, <1>4, <1>5, RowsAssumption DEF RepliesAim, UnsentUnanswered
<1>8. ASSUME faults' = 0, NEW o \in Outs \ (tangled' \cup stale'), Stored(o)' PROVE ExactReplied(o)'
  <2>1. Stored(o) /\ ExactReplied(o)
    BY <1>1, <1>3, <1>8, RowsAssumption DEF RepliesInv, RepliesCounted
  <2>2. CASE o \notin Newest
    <3>1. ASSUME NEW i \in Ins PROVE Crediting(i, o)' <=> Crediting(i, o)
      <4>1. ipc[i] = "prior" => last[i] # o
        BY <1>t, <1>1, <1>8, <2>2 DEF RepliesAim
      <4>2. ipc'[i] = "prior" => last[i] # o
        BY <4>1, <1>5
      <4>3. ipc'[i] = "bump" <=> ipc[i] = "bump"
        BY <1>1, <1>5
      <4> QED
        BY <4>1, <4>2, <4>3, <1>1, <1>4, <2>2 DEF Crediting
    <3> QED
      BY <2>1, <2>2, <3>1, <1>1, <1>4 DEF ExactReplied
  <2>3. CASE o \in Newest
    <3>1. \A i \in Ins : ipc[i] \notin {"last", "prior"}
      BY <1>1, <1>8, <2>3 DEF Deciding
    <3>2. Answered(o)' /\ (Answered(o) <=> RepliesTo(o) # {})
      BY <1>4, <2>1, <2>3 DEF Answered, Newest
    <3>3. \A i \in Ins : i # x => (Crediting(i, o)' <=> Crediting(i, o))
      BY <3>1, <1>1, <1>5 DEF Crediting
    <3>4. Crediting(x, o)' <=> RepliesTo(o) = {}
      BY <1>4, <1>5, <2>1, <2>3 DEF Crediting
    <3>5. ~Crediting(x, o)
      BY <1>1 DEF Crediting
    <3>6. repliedBy' = repliedBy
      BY <1>1
    <3>7. CASE ~Answered(o)
      <4>1. repliedBy[o] = 0 /\ \A i \in Ins : ~Crediting(i, o)
        BY <2>1, <3>7 DEF ExactReplied
      <4>2. Crediting(x, o)' /\ \A j \in Ins : Crediting(j, o)' => j = x
        BY <3>2, <3>3, <3>4, <3>7, <4>1
      <4> QED
        BY <3>2, <3>6, <4>1, <4>2 DEF ExactReplied
    <3>8. CASE Answered(o)
      <4>1. \A i \in Ins : Crediting(i, o)' <=> Crediting(i, o)
        BY <3>2, <3>3, <3>4, <3>5, <3>8
      <4> QED
        BY <2>1, <3>2, <3>6, <3>8, <4>1 DEF ExactReplied
    <3> QED
      BY <3>7, <3>8
  <2> QED
    BY <2>2, <2>3
<1> QED
  BY <1>6, <1>7, <1>8 DEF RepliesInv, RepliesBase, RepliesCounted

(* What an attribution that leaves the log, and the history, must show.    *)
LEMMA AttributionKeeps ==
    ASSUME RepliesInv, FunnelTypeOK', NEW x \in Ins, ipc[x] # "idle", ipc'[x] # "idle",
           UNCHANGED <<log, spc, tangled, stale, faults>>,
           \A i \in Ins : i # x => ipc'[i] = ipc[i] /\ last'[i] = last[i],
           \A o \in Outs : ~Stored(o) => repliedBy'[o] = 0,
           ipc'[x] \in {"prior", "bump"} =>
               /\ last'[x] \in Outs /\ Stored(last'[x])
               /\ ipc'[x] = "prior" /\ last'[x] \notin tangled => last'[x] \in Newest
    PROVE  RepliesBase'
<1>t. FunnelTypeOK /\ Rows /\ RepliesAim /\ UnsentUnanswered
  BY DEF RepliesInv, RepliesBase
<1>1. (\A m : Stored(m)' <=> Stored(m)) /\ Newest' = Newest
  BY SameLog
<1>2. Rows'
  BY <1>t, <1>1 DEF Rows
<1>3. RepliesAim'
  <2> SUFFICES ASSUME NEW i \in Ins, ipc'[i] \in {"prior", "bump"}
               PROVE  /\ last'[i] \in Outs /\ Stored(last'[i])
                      /\ ipc'[i] = "prior" /\ last'[i] \notin tangled => last'[i] \in Newest
    BY <1>1 DEF RepliesAim
  <2>1. CASE i = x
    BY <2>1
  <2>2. CASE i # x
    BY <1>t, <2>2 DEF RepliesAim
  <2> QED
    BY <2>1, <2>2
<1>4. UnsentUnanswered'
  BY <1>t, <1>1 DEF UnsentUnanswered
<1> QED
  BY <1>2, <1>3, <1>4 DEF RepliesBase

(* ... and what it says of the messages it is not about.                   *)
LEMMA OthersExact ==
    ASSUME NEW x \in Ins, NEW o \in Outs, log' = log, repliedBy'[o] = repliedBy[o],
           \A i \in Ins : i # x => ipc'[i] = ipc[i] /\ last'[i] = last[i],
           Crediting(x, o)' <=> Crediting(x, o)
    PROVE  ExactReplied(o)' <=> ExactReplied(o)
<1>1. /\ Newest' = Newest
      /\ RepliesTo(o)' = RepliesTo(o)
      /\ Answered(o)' <=> Answered(o)
  BY SameLog
<1>2. ASSUME NEW i \in Ins PROVE Crediting(i, o)' <=> Crediting(i, o)
  BY <1>1 DEF Crediting
<1> QED
  BY <1>1, <1>2 DEF ExactReplied

LEMMA FindLastKeeps ==
    ASSUME RepliesInv, FunnelTypeOK', NEW x \in Ins, FindLast(x) PROVE RepliesInv'
<1>t. FunnelTypeOK /\ Rows /\ RepliesAim /\ UnsentUnanswered
  BY DEF RepliesInv, RepliesBase
<1>1. /\ ipc[x] = "last" /\ ipc' = [ipc EXCEPT ![x] = "prior"]
      /\ UNCHANGED <<log, spc, repliedBy, tangled, stale, faults>>
  BY DEF FindLast, ReplyStep, counters, outVars
<1>2. PICK n \in Newest : last' = [last EXCEPT ![x] = n]
  BY DEF FindLast
<1>3. /\ ipc'[x] = "prior" /\ last'[x] = n /\ n \in Outs /\ Stored(n)
      /\ \A i \in Ins : i # x => ipc'[i] = ipc[i] /\ last'[i] = last[i]
  BY <1>t, <1>1, <1>2 DEF FunnelTypeOK, Newest
<1>4. RepliesBase'
  BY <1>t, <1>1, <1>3, AttributionKeeps DEF UnsentUnanswered
<1>5. ASSUME NEW o \in Outs PROVE ExactReplied(o)' <=> ExactReplied(o)
  <2>1. Newest' = Newest /\ RepliesTo(o)' = RepliesTo(o)
    BY <1>1, SameLog
  <2>2. o \in Newest <=> o = n
    BY <1>t, OneNewest
  <2>3. Crediting(x, o)' <=> Crediting(x, o)
    BY <1>1, <1>3, <2>1, <2>2 DEF Crediting
  <2> QED
    BY <1>1, <1>3, <2>3, OthersExact
<1>6. \A o \in Outs : Stored(o)' <=> Stored(o)
  BY <1>1, SameLog
<1> QED
  BY <1>1, <1>4, <1>5, <1>6 DEF RepliesInv, RepliesCounted

(* An attribution that ends without counting was not to count.             *)
LEMMA NothingCountedKeeps ==
    ASSUME RepliesInv, FunnelTypeOK', NEW x \in Ins, NoCampaign(x) \/ AlreadyReplied(x)
    PROVE  RepliesInv'
<1>t. FunnelTypeOK /\ Rows /\ RepliesAim /\ UnsentUnanswered
  BY DEF RepliesInv, RepliesBase
<1>1. /\ ReplyEnds(x) /\ ipc[x] \in {"last", "prior"}
      /\ UNCHANGED <<log, spc, repliedBy, tangled, stale, faults>>
  BY DEF NoCampaign, AlreadyReplied, counters, outVars
<1>2. /\ ipc'[x] = "done"
      /\ \A i \in Ins : i # x => ipc'[i] = ipc[i] /\ last'[i] = last[i]
  BY <1>t, <1>1 DEF FunnelTypeOK, ReplyEnds
<1>3. RepliesBase'
  BY <1>t, <1>1, <1>2, AttributionKeeps DEF UnsentUnanswered
<1>4. ASSUME NEW o \in Outs PROVE ExactReplied(o)' <=> ExactReplied(o)
  <2>1. ~Crediting(x, o)'
    BY <1>2 DEF Crediting
  <2>2. ~Crediting(x, o)
    BY DEF Crediting, NoCampaign, AlreadyReplied, PriorReplies
  <2> QED
    BY <1>1, <1>2, <2>1, <2>2, OthersExact
<1>5. \A o \in Outs : Stored(o)' <=> Stored(o)
  BY <1>1, SameLog
<1> QED
  BY <1>1, <1>3, <1>4, <1>5 DEF RepliesInv, RepliesCounted

LEMMA FindPriorKeeps ==
    ASSUME RepliesInv, FunnelTypeOK', NEW x \in Ins, FindPrior(x) PROVE RepliesInv'
<1>t. FunnelTypeOK /\ Rows /\ RepliesAim /\ UnsentUnanswered
  BY DEF RepliesInv, RepliesBase
<1>1. /\ ipc[x] = "prior" /\ ipc' = [ipc EXCEPT ![x] = "bump"] /\ RepliesTo(last[x]) \ {x} = {}
      /\ UNCHANGED <<log, spc, repliedBy, last, tangled, stale, faults>>
  BY DEF FindPrior, PriorReplies, ReplyStep, counters, outVars
<1>2. /\ ipc'[x] = "bump" /\ last'[x] = last[x]
      /\ \A i \in Ins : i # x => ipc'[i] = ipc[i] /\ last'[i] = last[i]
  BY <1>t, <1>1 DEF FunnelTypeOK
<1>3. RepliesBase'
  BY <1>t, <1>1, <1>2, AttributionKeeps DEF UnsentUnanswered, RepliesAim
<1>4. ASSUME NEW o \in Outs PROVE ExactReplied(o)' <=> ExactReplied(o)
  <2>1. Crediting(x, o)' <=> Crediting(x, o)
    BY <1>1, <1>2 DEF Crediting
  <2> QED
    BY <1>1, <1>2, <2>1, OthersExact
<1>5. \A o \in Outs : Stored(o)' <=> Stored(o)
  BY <1>1, SameLog
<1> QED
  BY <1>1, <1>3, <1>4, <1>5 DEF RepliesInv, RepliesCounted

(* The one that counts is the one that was to.                             *)
LEMMA BumpRepliedKeeps ==
    ASSUME RepliesInv, FunnelTypeOK', NEW x \in Ins, BumpReplied(x) PROVE RepliesInv'
<1>t. FunnelTypeOK /\ Rows /\ RepliesAim /\ UnsentUnanswered
  BY DEF RepliesInv, RepliesBase
<1> DEFINE n == last[x]
<1>1. /\ ReplyEnds(x) /\ ipc[x] = "bump" /\ repliedBy' = [repliedBy EXCEPT ![n] = @ + 1]
      /\ UNCHANGED <<log, spc, tangled, stale, faults>>
  BY DEF BumpReplied, outVars
<1>2. /\ ipc'[x] = "done"
      /\ \A i \in Ins : i # x => ipc'[i] = ipc[i] /\ last'[i] = last[i]
  BY <1>t, <1>1 DEF FunnelTypeOK, ReplyEnds
<1>3. n \in Outs /\ Stored(n)
  BY <1>t, <1>1 DEF RepliesAim
<1>4. /\ repliedBy'[n] = repliedBy[n] + 1
      /\ \A o \in Outs : o # n => repliedBy'[o] = repliedBy[o]
  BY <1>t, <1>1, <1>3 DEF FunnelTypeOK
<1> HIDE DEF n
<1>5. RepliesBase'
  BY <1>t, <1>1, <1>2, <1>3, <1>4, AttributionKeeps DEF UnsentUnanswered
<1>6. \A o : Stored(o)' <=> Stored(o)
  BY <1>1, SameLog
<1>7. ASSUME faults' = 0, NEW o \in Outs \ (tangled' \cup stale'), Stored(o)' PROVE ExactReplied(o)'
  <2>1. ExactReplied(o)
    BY <1>1, <1>6, <1>7 DEF RepliesInv, RepliesCounted
  <2>2. ~Crediting(x, o)'
    BY <1>2 DEF Crediting
  <2>3. CASE o # n
    <3>1. ~Crediting(x, o)
      BY <1>1, <2>3 DEF Crediting, n
    <3> QED
      BY <1>1, <1>2, <1>4, <2>1, <2>2, <2>3, <3>1, OthersExact
  <2>4. CASE o = n
    <3>1. Crediting(x, o)
      BY <1>1, <2>4 DEF Crediting, n
    <3>2. Answered(o) /\ repliedBy[o] = 0 /\ \A j \in Ins : Crediting(j, o) => j = x
      BY <2>1, <3>1 DEF ExactReplied
    <3>3. /\ Newest' = Newest
          /\ RepliesTo(o)' = RepliesTo(o)
          /\ Answered(o)' <=> Answered(o)
      BY <1>1, SameLog
    <3>4. \A i \in Ins : ~Crediting(i, o)'
      <4>1. \A i \in Ins : i # x => (Crediting(i, o)' <=> Crediting(i, o))
        BY <1>2, <3>3 DEF Crediting
      <4> QED
        BY <2>2, <3>2, <4>1
    <3>5. repliedBy'[o] = 1
      BY <1>4, <2>4, <3>2
    <3> QED
      BY <3>2, <3>3, <3>4, <3>5 DEF ExactReplied
  <2> QED
    BY <2>3, <2>4
<1> QED
  BY <1>5, <1>7 DEF RepliesInv, RepliesCounted

(* A failed attribution shows in faults.                                   *)
LEMMA ReplyFailsKeeps ==
    ASSUME RepliesInv, FunnelTypeOK', NEW x \in Ins, ReplyFails(x) PROVE RepliesInv'
<1>t. FunnelTypeOK /\ Rows /\ RepliesAim /\ UnsentUnanswered
  BY DEF RepliesInv, RepliesBase
<1>1. /\ ReplyEnds(x) /\ ipc[x] # "idle" /\ faults' = faults + 1
      /\ UNCHANGED <<log, spc, repliedBy, tangled, stale>>
  BY DEF ReplyFails, Fault, counters, outVars
<1>2. /\ ipc'[x] = "done"
      /\ \A i \in Ins : i # x => ipc'[i] = ipc[i] /\ last'[i] = last[i]
  BY <1>t, <1>1 DEF FunnelTypeOK, ReplyEnds
<1>3. \A m : Stored(m)' <=> Stored(m)
  BY <1>1, SameLog
<1>4. Newest' = Newest
  BY <1>1, SameLog
<1>5. Rows' /\ RepliesAim' /\ UnsentUnanswered'
  BY <1>t, <1>1, <1>2, <1>3, <1>4 DEF Rows, RepliesAim, UnsentUnanswered
<1>6. faults' # 0
  BY <1>t, <1>1 DEF FunnelTypeOK
<1> QED
  BY <1>5, <1>6 DEF RepliesInv, RepliesBase, RepliesCounted

(* The counters start over: what was sent before is stale.                 *)
LEMMA ResetKeeps == ASSUME RepliesInv, FunnelTypeOK', Reset PROVE RepliesInv'
<1>t. FunnelTypeOK /\ Rows /\ RepliesAim /\ UnsentUnanswered
  BY DEF RepliesInv, RepliesBase
<1>1. /\ \A o \in Outs : repliedBy'[o] = 0
      /\ stale' = {o \in Outs : spc[o] # "none"}
      /\ UNCHANGED <<log, spc, ipc, last, tangled>>
  BY DEF Reset, outVars, replyVars
<1>2. (\A m : Stored(m)' <=> Stored(m)) /\ Newest' = Newest
  BY <1>1, SameLog
<1>3. Rows' /\ RepliesAim' /\ UnsentUnanswered'
  BY <1>t, <1>1, <1>2 DEF Rows, RepliesAim, UnsentUnanswered
<1>4. \A o \in Outs \ stale' : ~Stored(o)'
  BY <1>t, <1>1, <1>2 DEF Rows
<1> QED
  BY <1>3, <1>4 DEF RepliesInv, RepliesBase, RepliesCounted

(* Every other step is about something else.                               *)
LEMMA OtherStepsKeep ==
    ASSUME RepliesInv, FunnelTypeOK', UNCHANGED <<log, repliedBy, ipc, last, tangled, stale>>,
           \A o \in Outs : spc'[o] # "none" <=> spc[o] # "none",
           faults' = faults \/ faults' = faults + 1
    PROVE  RepliesInv'
<1>1. RepliesBase' /\ \A o \in Outs : ExactReplied(o)' <=> ExactReplied(o)
  BY ElsewhereKept DEF RepliesInv
<1>2. \A o \in Outs : Stored(o)' <=> Stored(o)
  BY SameLog
<1>3. faults' = 0 => faults = 0
  BY DEF RepliesInv, RepliesBase, FunnelTypeOK
<1> QED
  BY <1>1, <1>2, <1>3 DEF RepliesInv, RepliesCounted

(* The invariant of the answers is inductive on its own, beside the types. *)
LEMMA RepliesInitially == FunnelInit => RepliesInv
<1> SUFFICES ASSUME FunnelInit PROVE RepliesInv
  OBVIOUS
<1>1. FunnelTypeOK
  BY InitInvariant DEF IInv, Base
<1>2. \A m : ~Stored(m)
  BY DEF FunnelInit, Stored
<1>3. Rows
  BY <1>2 DEF FunnelInit, Rows
<1>4. RepliesAim /\ UnsentUnanswered
  BY <1>2 DEF FunnelInit, RepliesAim, UnsentUnanswered
<1> QED
  BY <1>1, <1>2, <1>3, <1>4 DEF RepliesInv, RepliesBase, RepliesCounted

LEMMA RepliesStep == RepliesInv /\ [FunnelNext]_funnelVars => RepliesInv'
<1> SUFFICES ASSUME RepliesInv, [FunnelNext]_funnelVars PROVE RepliesInv'
  OBVIOUS
<1>t. FunnelTypeOK /\ FunnelTypeOK'
  BY TypesKept DEF RepliesInv, RepliesBase
<1>1. ASSUME NEW o \in Outs, SendCreate(o) PROVE RepliesInv'
  BY <1>t, <1>1, SendCreateKeeps
<1>2. ASSUME NEW o \in Outs, SendCall(o) \/ SendRecord(o) \/ SendFails(o) PROVE RepliesInv'
  <2>1. /\ UNCHANGED <<log, repliedBy, ipc, last, tangled, stale>>
        /\ faults' = faults \/ faults' = faults + 1
    BY <1>2 DEF SendCall, SendRecord, SendFails, Fault, counters, replyVars
  <2>2. spc[o] # "none" /\ \E to \in {"record", "done"} : spc' = [spc EXCEPT ![o] = to]
    BY <1>2 DEF SendCall, SendRecord, SendFails
  <2>3. \A p \in Outs : spc'[p] # "none" <=> spc[p] # "none"
    BY <1>t, <2>2 DEF FunnelTypeOK
  <2> QED
    BY <1>t, <2>1, <2>3, OtherStepsKeep
<1>3. CASE Reset
  BY <1>t, <1>3, ResetKeeps
<1>4. ASSUME NEW b \in Callbacks,
             \/ CallbackArrives(b) \/ CallbackUnknown(b) \/ CallbackFind(b) \/ CallbackOld(b)
             \/ CallbackUpdate(b) \/ CallbackDelivered(b) \/ CallbackRead(b)
             \/ CallbackFails(b) \/ CounterFails(b)
      PROVE  RepliesInv'
  <2>1. UNCHANGED <<log, spc, repliedBy, ipc, last, tangled, stale>>
    BY <1>4 DEF CallbackArrives, CallbackUnknown, CallbackFind, CallbackOld, CallbackUpdate,
                CallbackDelivered, CallbackRead, CallbackFails, CounterFails, outVars, counters, replyVars
  <2>2. faults' = faults \/ faults' = faults + 1
    BY <1>4 DEF CallbackArrives, CallbackUnknown, CallbackFind, CallbackOld, CallbackUpdate,
                CallbackDelivered, CallbackRead, CallbackFails, CounterFails, Fault
  <2> QED
    BY <1>t, <2>1, <2>2, OtherStepsKeep
<1>5. ASSUME NEW i \in Ins,
             \/ ReplyArrives(i) \/ FindLast(i) \/ NoCampaign(i) \/ FindPrior(i) \/ AlreadyReplied(i)
             \/ BumpReplied(i) \/ ReplyFails(i)
      PROVE  RepliesInv'
  BY <1>t, <1>5, ReplyArrivesKeeps, FindLastKeeps, NothingCountedKeeps, FindPriorKeeps,
     BumpRepliedKeeps, ReplyFailsKeeps
<1>6. CASE UNCHANGED funnelVars
  <2>1. UNCHANGED <<log, spc, repliedBy, ipc, last, tangled, stale, faults>>
    BY <1>6 DEF funnelVars, outVars, counters, replyVars
  <2> QED
    BY <1>t, <2>1, OtherStepsKeep
<1> QED
  BY <1>1, <1>2, <1>3, <1>4, <1>5, <1>6 DEF FunnelNext

(* The first answer to each campaign message counts, once and for that     *)
(* message, when no other row came while it was attributed.                *)
THEOREM RepliesAreExact == FunnelSpec => []RepliesAreExactAlone
<1>1. RepliesInv => RepliesAreExactAlone
  <2> SUFFICES ASSUME RepliesInv, faults = 0, \A i \in Ins : ipc[i] \in {"idle", "done"},
                      NEW o \in Outs \ (tangled \cup stale), Stored(o)
               PROVE  repliedBy[o] = Count(Answered(o))
    BY DEF RepliesAreExactAlone, Answered
  <2>1. ExactReplied(o)
    BY DEF RepliesInv, RepliesCounted
  <2>2. \A i \in Ins : ~Crediting(i, o)
    BY DEF Crediting
  <2> QED
    BY <2>1, <2>2 DEF ExactReplied, Count
<1> QED
  BY <1>1, RepliesInitially, RepliesStep, PTL DEF FunnelSpec
=============================================================================
